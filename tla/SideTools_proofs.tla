--------------------------- MODULE SideTools_proofs ---------------------------
(***************************************************************************)
(* What holds of the tools around a run for bodies nested to any depth,    *)
(* call graphs and sites of any size and databases of any content.         *)
(***************************************************************************)
EXTENDS SideTools, FiniteSetTheorems, SequenceTheorems, WellFoundedInduction, TLAPS

(* A set of naturals that has a minimal element has a least one.           *)
LEMMA MinimalIsLeast ==
    ASSUME NEW T \in SUBSET Nat, NEW R,
           \E x \in T : \A y \in T : <<y, x>> \notin R,
           \A y, x \in Nat : y < x => <<y, x>> \in R
    PROVE  \E x \in T : \A y \in T : x <= y
<1>1. PICK x \in T : \A y \in T : <<y, x>> \notin R
  OBVIOUS
<1>2. \A y \in T : ~(y < x)
  BY <1>1
<1> QED
  BY <1>2

(* Every set of naturals that is not empty has a least element.            *)
LEMMA Least ==
    ASSUME NEW T \in SUBSET Nat, T # {}
    PROVE  \E x \in T : \A y \in T : x <= y
<1>1. \E x \in T : \A y \in T : <<y, x>> \notin OpToRel(<, Nat)
  BY NatLessThanWellFounded, WFMin
<1>2. \A y, x \in Nat : y < x => <<y, x>> \in OpToRel(<, Nat)
  BY DEF OpToRel
<1> QED
  BY <1>1, <1>2, MinimalIsLeast, Zenon

(* Every bounded set of naturals that is not empty has a greatest element. *)
LEMMA Greatest ==
    ASSUME NEW b \in Nat, NEW T \in SUBSET (0..b), T # {}
    PROVE  \E x \in T : \A y \in T : y <= x
<1> DEFINE Gaps == {b - x : x \in T}
<1>1. \A x \in T : b - x \in Nat
  OBVIOUS
<1>2. PICK some \in T : TRUE
  OBVIOUS
<1>3. Gaps \in SUBSET Nat /\ Gaps # {}
  BY <1>1, <1>2
<1>4. PICK g \in Gaps : \A y \in Gaps : g <= y
  BY <1>3, Least
<1>5. PICK x \in T : g = b - x
  BY <1>4
<1>6. \A y \in T : b - x <= b - y
  BY <1>4, <1>5
<1> QED
  BY <1>5, <1>6

-----------------------------------------------------------------------------
(***************************************************************************)
(* scan_body: the condition it gives a call encloses the call.  The proof  *)
(* relates its stack to the parse: level[n] is the number of braces among  *)
(* the first n of nest, and brace[s] the brace that entry s belongs to.    *)
(***************************************************************************)
IsBrace(n) == nest[n].what \in {"block", "init"}

(* A brace right after n would be in the scope of c, an open condition:    *)
(* only headers lie between.                                               *)
Governs(c, n) ==
    \E m \in 1..n : /\ nest[m].what = "cond" /\ nest[m].cond = c
                    /\ \A j \in (m + 1)..n : nest[j].what = "header"

ScanTypeOK ==
    /\ nest \in Seq([what : {"cond", "header", "block", "init"}, cond : Conds \cup {NoCond}])
    /\ place \in {"before", "within", "after"}
    /\ depth \in Int
    /\ pending \in Conds \cup {NoCond}
    /\ condStack \in Seq([cond : Conds \cup {NoCond}, depth : Int])

Levels(level) ==
    /\ level \in [0..Len(nest) -> Int]
    /\ \A n \in 1..Len(nest) : level[n] = level[n - 1] + (IF IsBrace(n) THEN 1 ELSE 0)
    /\ \A m, n \in 0..Len(nest) : m <= n => level[m] <= level[n]
    /\ depth = level[Len(nest)]

Scopes(level, brace) ==
    /\ brace \in [1..Len(condStack) -> 1..Len(nest)]
    /\ \A s, t \in 1..Len(condStack) : s < t => brace[s] < brace[t]
    /\ \A s \in 1..Len(condStack) :
          /\ IsBrace(brace[s])
          /\ condStack[s].depth = level[brace[s]]
          /\ condStack[s].cond # NoCond
          /\ Governs(condStack[s].cond, brace[s] - 1)
    /\ \A n \in 1..Len(nest) : Braced(n) => \E s \in 1..Len(condStack) : brace[s] = n + 1

(* The condition that waits is the innermost one, with only headers in it. *)
Waiting ==
    /\ pending # NoCond => place # "after" /\ Governs(pending, Len(nest))
    /\ place = "before" /\ nest # <<>> /\ nest[Len(nest)].what = "cond" =>
          pending = nest[Len(nest)].cond /\ pending # NoCond

(* A call just recorded was given the top of the stack.                    *)
JustRecorded ==
    recorded # <<>> =>
        /\ place = "within"
        /\ recorded = <<IF condStack = <<>> THEN NoCond ELSE condStack[Len(condStack)].cond>>

(* The inductive invariant.                                                *)
ScanInv ==
    /\ ScanTypeOK /\ Waiting /\ JustRecorded
    /\ \E level : Levels(level) /\ \E brace : Scopes(level, brace)

(* It implies the property.                                                *)
LEMMA ScanInvEncloses == ScanInv => ConditionEncloses
<1> SUFFICES ASSUME ScanInv, recorded # <<>> PROVE ConditionEncloses
  BY DEF ConditionEncloses
<1>1. PICK level, brace : Levels(level) /\ Scopes(level, brace)
  BY DEF ScanInv
<1>2. Len(nest) \in Nat /\ DOMAIN nest = 1..Len(nest) /\ Len(condStack) \in Nat
  BY DEF ScanInv, ScanTypeOK
<1>3. CASE condStack = <<>>
  <2>1. recorded[1] = NoCond
    BY <1>3 DEF ScanInv, JustRecorded
  <2>2. \A n \in DOMAIN nest : ~Braced(n)
    BY <1>1, <1>2, <1>3 DEF Scopes
  <2> QED
    BY <2>1, <2>2 DEF ConditionEncloses
<1>4. CASE condStack # <<>>
  <2> DEFINE l == Len(condStack)
  <2>1. l \in 1..l /\ recorded[1] = condStack[l].cond
    BY <1>2, <1>4 DEF ScanInv, ScanTypeOK, JustRecorded
  <2>2. recorded[1] # NoCond /\ brace[l] \in 1..Len(nest)
        /\ Governs(recorded[1], brace[l] - 1)
    BY <1>1, <2>1 DEF Scopes
  <2>3. PICK m \in 1..(brace[l] - 1) :
          /\ nest[m].what = "cond" /\ nest[m].cond = recorded[1]
          /\ \A j \in (m + 1)..(brace[l] - 1) : nest[j].what = "header"
    BY <2>2 DEF Governs
  <2>4. m \in DOMAIN nest
    BY <1>2, <2>2
  <2>5. \A j \in m + 1 .. Len(nest) : ~Braced(j)
    <3> SUFFICES ASSUME NEW j \in m + 1 .. Len(nest), Braced(j) PROVE FALSE
      OBVIOUS
    <3>1. PICK s \in 1..l : brace[s] = j + 1
      BY <1>1, <1>2, <2>3 DEF Scopes
    <3>2. brace[s] <= brace[l]
      <4>1. /\ s \in Nat /\ l \in Nat /\ s <= l
            /\ brace[s] \in Nat /\ brace[l] \in Nat
        BY <1>2, <2>1, <2>2, <3>1
      <4>2. s < l => brace[s] < brace[l]
        BY <1>1, <2>1, <3>1 DEF Scopes
      <4> QED
        BY <4>1, <4>2
    <3>3. j \in (m + 1)..(brace[l] - 1)
      BY <1>2, <2>2, <3>1, <3>2
    <3> QED
      BY <2>3, <3>3 DEF Braced
  <2> QED
    BY <2>2, <2>3, <2>4, <2>5 DEF ConditionEncloses
<1> QED
  BY <1>3, <1>4

(* A body is scanned from its start.                                       *)
LEMMA ScanInitInv == ScanInit => ScanInv
<1> SUFFICES ASSUME ScanInit PROVE ScanInv
  OBVIOUS
<1>1. nest = <<>> /\ condStack = <<>> /\ Len(nest) = 0 /\ Len(condStack) = 0
  BY DEF ScanInit
<1>2. ScanTypeOK
  BY <1>1, EmptySeq DEF ScanInit, ScanTypeOK
<1>3. Waiting /\ JustRecorded
  BY DEF ScanInit, Waiting, JustRecorded
<1>4. Levels([n \in 0..0 |-> 0])
  BY <1>1 DEF ScanInit, Levels
<1>5. Scopes([n \in 0..0 |-> 0], <<>>)
  BY <1>1 DEF Scopes
<1> QED
  BY <1>2, <1>3, <1>4, <1>5 DEF ScanInv

-----------------------------------------------------------------------------
Frames == [what : {"cond", "header", "block", "init"}, cond : Conds \cup {NoCond}]

(* All but the last element of a sequence.                                 *)
LEMMA FrontFacts ==
    ASSUME NEW S, NEW q \in Seq(S), q # <<>>
    PROVE  /\ Len(q) \in Nat \ {0} /\ Front(q) \in Seq(S) /\ Len(Front(q)) = Len(q) - 1
           /\ \A j \in 1..(Len(q) - 1) : Front(q)[j] = q[j]
<1> DEFINE n == Len(q) - 1
           r == SubSeq(q, 1, n)
<1>1. Len(q) \in Nat \ {0} /\ n \in Nat
  OBVIOUS
<1>2. \A j \in 1..n : q[j] \in S
  BY ElementOfSeq
<1>3. Front(q) = r
  BY DEF Front
<1> HIDE DEF n
<1>4. r \in Seq(S) /\ Len(r) = (IF 1 <= n THEN n - 1 + 1 ELSE 0)
      /\ \A j \in 1..(n - 1 + 1) : r[j] = q[1 + j - 1]
  BY <1>1, <1>2, SubSeqProperties
<1> HIDE DEF r
<1>5. Len(r) = n /\ \A j \in 1..n : r[j] = q[j]
  BY <1>1, <1>4
<1> QED
  BY <1>1, <1>3, <1>4, <1>5 DEF n

(* A frame more, or one less, at the end of nest.                          *)
LEMMA PushFacts ==
    ASSUME ScanTypeOK, NEW f \in Frames, nest' = Append(nest, f)
    PROVE  /\ nest' \in Seq(Frames) /\ Len(nest) \in Nat /\ Len(nest') = Len(nest) + 1
           /\ nest'[Len(nest) + 1] = f
           /\ \A j \in 1..Len(nest) : nest'[j] = nest[j]
<1>1. nest \in Seq(Frames)
  BY DEF ScanTypeOK, Frames
<1> HIDE DEF Frames
<1>2. nest' \in Seq(Frames)
  BY <1>1, AppendProperties, Zenon
<1> QED
  BY <1>1, <1>2

LEMMA PopFacts ==
    ASSUME ScanTypeOK, nest # <<>>, nest' = Front(nest)
    PROVE  /\ nest' \in Seq(Frames) /\ Len(nest) \in Nat \ {0} /\ Len(nest') = Len(nest) - 1
           /\ \A j \in 1..(Len(nest) - 1) : nest'[j] = nest[j]
<1>1. nest \in Seq(Frames)
  BY DEF ScanTypeOK, Frames
<1> QED
  BY <1>1, FrontFacts

(* The top of nest.                                                        *)
LEMMA TopFacts ==
    ASSUME ScanTypeOK, Top # "body"
    PROVE  nest # <<>> /\ Len(nest) \in Nat \ {0} /\ Top = nest[Len(nest)].what
BY DEF ScanTypeOK, Top, Last

(* The parse below a frame tells whether a condition governs it.           *)
LEMMA GovernsAgrees ==
    ASSUME NEW c, NEW n \in Nat, \A j \in 1..n : nest'[j] = nest[j]
    PROVE  Governs(c, n)' <=> Governs(c, n)
BY DEF Governs

(* Levels follow the braces that are opened and closed.                    *)
LEMMA PushLevels ==
    ASSUME ScanTypeOK, NEW level, Levels(level), NEW f \in Frames, nest' = Append(nest, f),
           depth' = depth + (IF f.what \in {"block", "init"} THEN 1 ELSE 0),
           NEW up, up = [n \in 0..(Len(nest) + 1) |-> IF n <= Len(nest) THEN level[n] ELSE depth']
    PROVE  Levels(up)'
<1> DEFINE l == Len(nest)
<1>1. l \in Nat /\ Len(nest') = l + 1 /\ nest'[l + 1] = f /\ \A j \in 1..l : nest'[j] = nest[j]
  BY PushFacts
<1>2. level \in [0..l -> Int] /\ depth \in Int /\ depth = level[l] /\ depth' \in Int
  BY DEF Levels, ScanTypeOK
<1>3. up \in [0..(l + 1) -> Int] /\ up[l + 1] = depth' /\ \A n \in 0..l : up[n] = level[n]
  BY <1>1, <1>2
<1>4. \A n \in 1..(l + 1) : up[n] = up[n - 1] + (IF IsBrace(n)' THEN 1 ELSE 0)
  <2> SUFFICES ASSUME NEW n \in 1..(l + 1)
               PROVE  up[n] = up[n - 1] + (IF IsBrace(n)' THEN 1 ELSE 0)
    OBVIOUS
  <2>1. CASE n = l + 1
    BY <1>1, <1>2, <1>3, <2>1 DEF IsBrace
  <2>2. CASE n # l + 1
    <3>1. n \in 1..l /\ n - 1 \in 0..l /\ (IsBrace(n)' <=> IsBrace(n))
      BY <1>1, <2>2 DEF IsBrace
    <3> QED
      BY <1>1, <1>3, <3>1 DEF Levels
  <2> QED
    BY <2>1, <2>2
<1>5. \A m, n \in 0..(l + 1) : m <= n => up[m] <= up[n]
  <2> SUFFICES ASSUME NEW m \in 0..(l + 1), NEW n \in 0..(l + 1), m <= n PROVE up[m] <= up[n]
    OBVIOUS
  <2>1. CASE n \in 0..l
    BY <1>1, <1>3, <2>1 DEF Levels
  <2>2. CASE n = l + 1 /\ m \in 0..l
    <3>1. level[m] <= level[l]
      BY <1>1, <2>2 DEF Levels
    <3> QED
      BY <1>2, <1>3, <2>2, <3>1
  <2>3. CASE n = l + 1 /\ m = l + 1
    BY <1>3, <2>3
  <2> QED
    BY <1>1, <2>1, <2>2, <2>3
<1> QED
  BY <1>1, <1>3, <1>4, <1>5 DEF Levels

LEMMA PopLevels ==
    ASSUME ScanTypeOK, NEW level, Levels(level), nest # <<>>, nest' = Front(nest),
           depth' = depth - (IF IsBrace(Len(nest)) THEN 1 ELSE 0),
           NEW up, up = [n \in 0..(Len(nest) - 1) |-> level[n]]
    PROVE  Levels(up)'
<1> DEFINE l == Len(nest)
<1>1. l \in Nat \ {0} /\ Len(nest') = l - 1 /\ \A j \in 1..(l - 1) : nest'[j] = nest[j]
  BY PopFacts
<1>2. level \in [0..l -> Int] /\ depth = level[l]
      /\ level[l] = level[l - 1] + (IF IsBrace(l) THEN 1 ELSE 0)
  BY <1>1 DEF Levels
<1>3. depth' = level[l - 1]
  BY <1>1, <1>2, SMTT(20)
<1>4. up \in [0..(l - 1) -> Int] /\ \A n \in 0..(l - 1) : up[n] = level[n]
  BY <1>1, <1>2
<1>5. \A n \in 1..(l - 1) : n \in 1..l /\ n - 1 \in 0..(l - 1) /\ (IsBrace(n)' <=> IsBrace(n))
  BY <1>1 DEF IsBrace
<1>6. \A n \in 1..(l - 1) : up[n] = up[n - 1] + (IF IsBrace(n)' THEN 1 ELSE 0)
  BY <1>1, <1>4, <1>5 DEF Levels
<1>7. \A m, n \in 0..(l - 1) : m <= n => up[m] <= up[n]
  BY <1>1, <1>4 DEF Levels
<1>8. Len(nest') = l - 1 /\ depth' = up[l - 1]
  BY <1>1, <1>3, <1>4
<1> HIDE DEF l
<1> QED
  BY <1>4, <1>6, <1>7, <1>8 DEF Levels

(* A step that keeps the first frames of nest, no others with a brace, and *)
(* the first l entries of the stack, which are those of these frames.      *)
Keeps(level, brace, up, l, keep) ==
    /\ l \in 0..Len(condStack) /\ Len(condStack') = l
    /\ \A s \in 1..l : condStack'[s] = condStack[s]
    /\ keep \in 0..Len(nest) /\ Len(nest') \in Nat /\ keep <= Len(nest')
    /\ \A j \in 1..keep : nest'[j] = nest[j]
    /\ \A s \in 1..Len(condStack) : brace[s] <= keep <=> s <= l
    /\ \A n \in 0..keep : up[n] = level[n]
    /\ \A n \in 1..Len(nest') : Braced(n)' => n + 1 <= keep

(* The entries of the stack whose braces stay open keep their scopes.      *)
LEMMA ScopesKept ==
    ASSUME ScanTypeOK, NEW level, NEW brace, Scopes(level, brace),
           NEW up, NEW l, NEW keep, Keeps(level, brace, up, l, keep)
    PROVE  \E kept : Scopes(up, kept)'
<1> USE DEF Keeps
<1> DEFINE kept == [s \in 1..l |-> brace[s]]
<1>1. Len(condStack) \in Nat /\ Len(nest) \in Nat /\ l \in Nat /\ keep \in Nat
  BY DEF ScanTypeOK
<1>2. \A s \in 1..l : s \in 1..Len(condStack) /\ brace[s] \in 1..keep /\ kept[s] = brace[s]
  <2> SUFFICES ASSUME NEW s \in 1..l
               PROVE  s \in 1..Len(condStack) /\ brace[s] \in 1..keep
    OBVIOUS
  <2>1. s \in 1..Len(condStack) /\ s <= l
    BY <1>1
  <2>2. brace[s] \in 1..Len(nest) /\ brace[s] <= keep
    BY <2>1 DEF Scopes
  <2> QED
    BY <1>1, <2>1, <2>2
<1>3. kept \in [1..l -> 1..Len(nest')]
  BY <1>1, <1>2
<1>4. \A s, t \in 1..l : s < t => kept[s] < kept[t]
  BY <1>2 DEF Scopes
<1>5. ASSUME NEW s \in 1..l
      PROVE  /\ IsBrace(kept[s])'
             /\ condStack'[s].depth = up[kept[s]]
             /\ condStack'[s].cond # NoCond
             /\ Governs(condStack[s].cond, kept[s] - 1)'
  <2>1. brace[s] \in 1..keep /\ brace[s] \in 0..keep /\ kept[s] = brace[s] /\ s \in 1..Len(condStack)
    BY <1>1, <1>2
  <2>2. IsBrace(brace[s])'
    BY <2>1 DEF Scopes, IsBrace
  <2>3. condStack'[s].depth = up[brace[s]] /\ condStack'[s].cond # NoCond
    BY <2>1 DEF Scopes
  <2>4. Governs(condStack[s].cond, brace[s] - 1)
    BY <2>1 DEF Scopes
  <2>5. \A j \in 1..(brace[s] - 1) : nest'[j] = nest[j]
    BY <1>1, <2>1
  <2>6. Governs(condStack[s].cond, brace[s] - 1)'
    <3>1. brace[s] - 1 \in Nat /\ condStack'[s] = condStack[s]
      BY <1>1, <2>1
    <3>2. PICK m \in 1..(brace[s] - 1) :
            /\ nest[m].what = "cond" /\ nest[m].cond = condStack[s].cond
            /\ \A j \in (m + 1)..(brace[s] - 1) : nest[j].what = "header"
      BY <2>4 DEF Governs
    <3>3. \A j \in (m + 1)..(brace[s] - 1) : nest'[j].what = "header"
      BY <2>5, <3>1, <3>2
    <3> QED
      BY <2>5, <3>1, <3>2, <3>3 DEF Governs
  <2> QED
    BY <2>1, <2>2, <2>3, <2>6
<1>6. ASSUME NEW n \in 1..Len(nest'), Braced(n)' PROVE \E s \in 1..l : kept[s] = n + 1
  <2>1. n + 1 <= keep /\ n \in 1..keep /\ n + 1 \in 1..keep /\ n \in 1..Len(nest)
    BY <1>1, <1>6
  <2>2. Braced(n)
    BY <1>1, <1>6, <2>1 DEF Braced
  <2>3. PICK s \in 1..Len(condStack) : brace[s] = n + 1
    BY <2>1, <2>2 DEF Scopes
  <2>4. s \in 1..l
    BY <1>1, <2>1, <2>3
  <2> QED
    BY <1>2, <2>3, <2>4
<1> HIDE DEF kept
<1>7. Scopes(up, kept)'
  BY <1>3, <1>4, <1>5, <1>6 DEF Scopes
<1> QED
  BY <1>7

(* When the top of nest is a brace, nothing waits.                         *)
LEMMA NothingWaits ==
    ASSUME ScanTypeOK, Waiting, Top \in {"block", "init"}
    PROVE  pending = NoCond
<1> SUFFICES ASSUME pending # NoCond PROVE FALSE
  OBVIOUS
<1>1. nest # <<>> /\ Len(nest) \in Nat \ {0} /\ nest[Len(nest)].what \in {"block", "init"}
  BY TopFacts
<1>2. PICK m \in 1..Len(nest) :
        /\ nest[m].what = "cond"
        /\ \A j \in (m + 1)..Len(nest) : nest[j].what = "header"
  BY DEF Waiting, Governs
<1>3. CASE m = Len(nest)
  BY <1>1, <1>2, <1>3
<1>4. CASE m # Len(nest)
  <2>1. Len(nest) \in (m + 1)..Len(nest)
    BY <1>1, <1>4
  <2> QED
    BY <1>1, <1>2, <2>1
<1> QED
  BY <1>3, <1>4

(* A frame without a brace is opened, or one is closed.                    *)
LEMMA PushKeepsScopes ==
    ASSUME ScanTypeOK, NEW level, Levels(level), NEW brace, Scopes(level, brace),
           NEW f \in Frames, nest' = Append(nest, f), f.what # "block",
           depth' = depth + (IF f.what \in {"block", "init"} THEN 1 ELSE 0),
           condStack' = condStack
    PROVE  \E up : Levels(up)' /\ \E kept : Scopes(up, kept)'
<1> DEFINE l == Len(nest)
<1>1. l \in Nat /\ Len(nest') = l + 1 /\ nest'[l + 1] = f /\ \A j \in 1..l : nest'[j] = nest[j]
  BY PushFacts
<1>2. PICK up : up = [n \in 0..(l + 1) |-> IF n <= l THEN level[n] ELSE depth']
  OBVIOUS
<1>3. Levels(up)'
  BY <1>2, PushLevels
<1>4. \A n \in 0..l : up[n] = level[n]
  BY <1>1, <1>2
<1>5. Len(condStack) \in Nat /\ \A s \in 1..Len(condStack) : brace[s] <= l <=> s <= Len(condStack)
  <2> SUFFICES ASSUME NEW s \in 1..Len(condStack) PROVE brace[s] <= l
    BY DEF ScanTypeOK
  <2>1. brace[s] \in 1..l
    BY DEF Scopes
  <2> QED
    BY <1>1, <2>1
<1>6. ASSUME NEW n \in 1..Len(nest'), Braced(n)' PROVE n + 1 <= l
  <2>1. n + 1 <= l + 1 /\ nest'[n + 1].what = "block"
    BY <1>1, <1>6 DEF Braced
  <2> QED
    BY <1>1, <2>1
<1>7. Len(condStack) \in 0..Len(condStack) /\ l \in 0..l /\ Len(nest') \in Nat /\ l <= Len(nest')
  BY <1>1, <1>5
<1>8. Keeps(level, brace, up, Len(condStack), l)
  BY <1>1, <1>4, <1>5, <1>6, <1>7 DEF Keeps
<1> QED
  BY <1>3, <1>8, ScopesKept

LEMMA PopKeepsScopes ==
    ASSUME ScanTypeOK, NEW level, Levels(level), NEW brace, Scopes(level, brace),
           nest # <<>>, nest' = Front(nest), ~IsBrace(Len(nest)), depth' = depth,
           condStack' = condStack
    PROVE  \E up : Levels(up)' /\ \E kept : Scopes(up, kept)'
<1> DEFINE l == Len(nest)
<1>1. l \in Nat \ {0} /\ Len(nest') = l - 1 /\ \A j \in 1..(l - 1) : nest'[j] = nest[j]
  BY PopFacts
<1>2. PICK up : up = [n \in 0..(l - 1) |-> level[n]]
  OBVIOUS
<1>3. Levels(up)'
  BY <1>2, PopLevels DEF ScanTypeOK
<1>4. \A n \in 0..(l - 1) : up[n] = level[n]
  BY <1>2
<1>5. Len(condStack) \in Nat
      /\ \A s \in 1..Len(condStack) : brace[s] <= l - 1 <=> s <= Len(condStack)
  <2> SUFFICES ASSUME NEW s \in 1..Len(condStack) PROVE brace[s] <= l - 1
    BY DEF ScanTypeOK
  <2>1. brace[s] \in 1..l /\ IsBrace(brace[s])
    BY DEF Scopes
  <2> QED
    BY <1>1, <2>1
<1>6. ASSUME NEW n \in 1..Len(nest'), Braced(n)' PROVE n + 1 <= l - 1
  BY <1>1, <1>6 DEF Braced
<1>7. Len(condStack) \in 0..Len(condStack) /\ l - 1 \in 0..l /\ Len(nest') \in Nat /\ l - 1 <= Len(nest')
  BY <1>1, <1>5
<1>8. Len(condStack') = Len(condStack) /\ \A s \in 1..Len(condStack) : condStack'[s] = condStack[s]
  OBVIOUS
<1>9. Keeps(level, brace, up, Len(condStack), l - 1)
  BY <1>1, <1>4, <1>5, <1>6, <1>7, <1>8 DEF Keeps
<1> QED
  BY <1>3, <1>9, ScopesKept

(* else turns a condition that is over into a header.                      *)
LEMMA ElseKeepsScopes ==
    ASSUME ScanTypeOK, NEW level, Levels(level), NEW brace, Scopes(level, brace), Else
    PROVE  \E up : Levels(up)' /\ \E kept : Scopes(up, kept)'
<1> DEFINE l == Len(nest)
           h == [what |-> "header", cond |-> NoCond]
<1>1. nest # <<>> /\ l \in Nat \ {0} /\ nest[l].what = "cond"
  BY TopFacts DEF Else
<1>2. nest' = Append(Front(nest), h) /\ condStack' = condStack /\ depth' = depth
  BY DEF Else
<1>3. Len(nest') = l /\ nest'[l] = h /\ \A j \in 1..(l - 1) : nest'[j] = nest[j]
  <2>1. nest \in Seq(Frames) /\ h \in Frames
    BY DEF ScanTypeOK, Frames
  <2> HIDE DEF h
  <2>2. Front(nest) \in Seq(Frames) /\ Len(Front(nest)) = l - 1
        /\ \A j \in 1..(l - 1) : Front(nest)[j] = nest[j]
    BY <1>1, <2>1, FrontFacts
  <2> QED
    BY <1>1, <1>2, <2>1, <2>2
<1>4. Levels(level)'
  <2>1. \A n \in 1..l : IsBrace(n)' <=> IsBrace(n)
    BY <1>1, <1>3 DEF IsBrace
  <2> QED
    BY <1>2, <1>3, <2>1 DEF Levels
<1>5. Len(condStack) \in Nat
      /\ \A s \in 1..Len(condStack) : brace[s] <= l - 1 <=> s <= Len(condStack)
  <2> SUFFICES ASSUME NEW s \in 1..Len(condStack) PROVE brace[s] <= l - 1
    BY DEF ScanTypeOK
  <2>1. brace[s] \in 1..l /\ IsBrace(brace[s])
    BY DEF Scopes
  <2> QED
    BY <1>1, <2>1 DEF IsBrace
<1>6. ASSUME NEW n \in 1..Len(nest'), Braced(n)' PROVE n + 1 <= l - 1
  <2>1. n + 1 <= l /\ nest'[n + 1].what = "block"
    BY <1>3, <1>6 DEF Braced
  <2> QED
    BY <1>1, <1>3, <2>1
<1>7. Len(condStack) \in 0..Len(condStack) /\ l - 1 \in 0..l /\ Len(nest') \in Nat /\ l - 1 <= Len(nest')
  BY <1>1, <1>3, <1>5
<1>8. Keeps(level, brace, level, Len(condStack), l - 1)
  BY <1>2, <1>3, <1>5, <1>6, <1>7 DEF Keeps
<1> QED
  BY <1>4, <1>8, ScopesKept

(* A brace opens the scope of the condition that waits, if there is one.   *)
LEMMA OpenKeepsScopes ==
    ASSUME ScanTypeOK, Waiting, NEW level, Levels(level), NEW brace, Scopes(level, brace),
           NEW f \in Frames, nest' = Append(nest, f), f.what \in {"block", "init"},
           f.what = "block" => place = "before", ScanOpen
    PROVE  \E up : Levels(up)' /\ \E kept : Scopes(up, kept)'
<1> PICK l : l = Len(nest)
  OBVIOUS
<1> PICK k : k = Len(condStack)
  OBVIOUS
<1>1. l \in Nat /\ Len(nest') = l + 1 /\ nest'[l + 1] = f /\ \A j \in 1..l : nest'[j] = nest[j]
  BY PushFacts
<1>2. PICK up : up = [n \in 0..(l + 1) |-> IF n <= l THEN level[n] ELSE depth']
  OBVIOUS
<1>3. depth' = depth + 1 /\ depth \in Int
  BY DEF ScanOpen, ScanTypeOK
<1>4. Levels(up)'
  BY <1>2, <1>3, PushLevels
<1>5. (\A n \in 0..l : up[n] = level[n]) /\ up[l + 1] = depth'
  BY <1>1, <1>2
<1>6. k \in Nat /\ \A s \in 1..k : brace[s] \in 1..l
  BY DEF Scopes, ScanTypeOK
<1>7. CASE pending = NoCond
  <2>1. condStack' = condStack
    BY <1>7 DEF ScanOpen
  <2>2. ASSUME NEW n \in 1..Len(nest'), Braced(n)' PROVE n + 1 <= l
    <3>1. n + 1 <= l + 1 /\ n \in 1..l /\ nest'[n + 1].what = "block" /\ nest'[n].what = "cond"
      BY <1>1, <2>2 DEF Braced
    <3>2. n # l
      BY <1>1, <1>7, <3>1 DEF Waiting
    <3> QED
      BY <1>1, <3>1, <3>2
  <2>3. \A s \in 1..k : brace[s] <= l <=> s <= k
    BY <1>1, <1>6
  <2>4. Keeps(level, brace, up, k, l)
    BY <1>1, <1>5, <1>6, <2>1, <2>2, <2>3 DEF Keeps
  <2> QED
    BY <1>4, <2>4, ScopesKept
<1>8. CASE pending # NoCond
  <2> PICK e : e = [cond |-> pending, depth |-> depth + 1]
    OBVIOUS
  <2> PICK kept : kept = [s \in 1..(k + 1) |-> IF s <= k THEN brace[s] ELSE l + 1]
    OBVIOUS
  <2>1. condStack' = Append(condStack, e)
    BY <1>8 DEF ScanOpen
  <2>2. Len(condStack') = k + 1 /\ condStack'[k + 1] = e /\ \A s \in 1..k : condStack'[s] = condStack[s]
    BY <1>6, <2>1 DEF ScanTypeOK
  <2>3. /\ kept \in [1..(k + 1) -> 1..(l + 1)] /\ kept[k + 1] = l + 1
        /\ \A s \in 1..k : kept[s] = brace[s]
    BY <1>1, <1>6
  <2>4. ASSUME NEW s \in 1..(k + 1), NEW t \in 1..(k + 1), s < t PROVE kept[s] < kept[t]
    <3>1. s \in 1..k
      BY <1>6, <2>4
    <3>2. CASE t \in 1..k
      BY <2>3, <2>4, <3>1, <3>2 DEF Scopes
    <3>3. CASE t = k + 1
      BY <1>1, <1>6, <2>3, <3>1, <3>3
    <3> QED
      BY <1>6, <3>2, <3>3
  <2>5. ASSUME NEW s \in 1..(k + 1)
        PROVE  /\ IsBrace(kept[s])'
               /\ condStack'[s].depth = up[kept[s]]
               /\ condStack'[s].cond # NoCond
               /\ \E c : c = condStack'[s].cond /\ Governs(c, kept[s] - 1)'
    <3>1. CASE s \in 1..k
      <4>1. brace[s] \in 1..l /\ kept[s] = brace[s] /\ brace[s] - 1 \in Nat /\ brace[s] \in 0..l
            /\ condStack'[s] = condStack[s]
        BY <1>1, <1>6, <2>2, <2>3, <3>1
      <4>2. IsBrace(kept[s])'
        BY <1>1, <3>1, <4>1 DEF Scopes, IsBrace
      <4>3. condStack'[s].depth = up[kept[s]] /\ condStack'[s].cond # NoCond
        BY <1>5, <3>1, <4>1 DEF Scopes
      <4>4. PICK c : c = condStack[s].cond
        OBVIOUS
      <4>5. Governs(c, brace[s] - 1)
        BY <3>1, <4>4 DEF Scopes
      <4>6. \A j \in 1..(brace[s] - 1) : nest'[j] = nest[j]
        BY <1>1, <4>1
      <4>7. Governs(c, brace[s] - 1)'
        BY <4>1, <4>5, <4>6, GovernsAgrees
      <4> QED
        BY <4>1, <4>2, <4>3, <4>4, <4>7
    <3>2. CASE s = k + 1
      <4>1. condStack'[s] = e /\ kept[s] = l + 1 /\ up[l + 1] = depth + 1 /\ (l + 1) - 1 = l
        BY <1>1, <1>3, <1>5, <2>2, <2>3, <3>2
      <4>2. PICK c : c = pending
        OBVIOUS
      <4>3. Governs(c, l)
        BY <1>8, <4>2 DEF Waiting
      <4>4. Governs(c, l)'
        BY <1>1, <4>3, GovernsAgrees
      <4>5. IsBrace(l + 1)'
        BY <1>1 DEF IsBrace
      <4>6. e.cond = c /\ e.depth = depth + 1
        BY <4>2
      <4> QED
        BY <1>8, <4>1, <4>2, <4>4, <4>5, <4>6
    <3> QED
      BY <1>6, <3>1, <3>2
  <2>6. ASSUME NEW n \in 1..Len(nest'), Braced(n)' PROVE \E s \in 1..(k + 1) : kept[s] = n + 1
    <3>1. CASE n = l
      BY <1>6, <2>3, <3>1
    <3>2. CASE n # l
      <4>1. n \in 1..l /\ n + 1 \in 1..l
        BY <1>1, <2>6, <3>2 DEF Braced
      <4>2. Braced(n)
        BY <1>1, <2>6, <4>1 DEF Braced
      <4>3. PICK s \in 1..k : brace[s] = n + 1
        BY <4>1, <4>2 DEF Scopes
      <4>4. s \in 1..(k + 1) /\ kept[s] = n + 1
        BY <1>6, <2>3, <4>3
      <4> QED
        BY <4>4
    <3> QED
      BY <3>1, <3>2
  <2>7. Scopes(up, kept)'
    <3>1. \A s \in 1..(k + 1) : Governs(condStack[s].cond, kept[s] - 1)'
      <4> SUFFICES ASSUME NEW s \in 1..(k + 1) PROVE Governs(condStack[s].cond, kept[s] - 1)'
        OBVIOUS
      <4>1. PICK c : c = condStack'[s].cond /\ Governs(c, kept[s] - 1)'
        BY <2>5
      <4> QED
        BY <4>1 DEF Governs
    <3>2. \A s, t \in 1..(k + 1) : s < t => kept[s] < kept[t]
      BY <2>4
    <3> QED
      BY <1>1, <2>2, <2>3, <2>5, <2>6, <3>1, <3>2 DEF Scopes
  <2> QED
    BY <1>4, <2>7
<1> QED
  BY <1>7, <1>8

(* A closing brace ends its scope and no other.                            *)
LEMMA CloseKeepsScopes ==
    ASSUME ScanTypeOK, NEW level, Levels(level), NEW brace, Scopes(level, brace),
           Top \in {"block", "init"}, nest' = Front(nest), ScanClose
    PROVE  \E up : Levels(up)' /\ \E kept : Scopes(up, kept)'
<1> DEFINE l == Len(nest)
           k == Len(condStack)
<1>1. nest # <<>> /\ IsBrace(l)
  BY TopFacts DEF IsBrace
<1>2. l \in Nat \ {0} /\ Len(nest') = l - 1 /\ \A j \in 1..(l - 1) : nest'[j] = nest[j]
  BY <1>1, PopFacts
<1>3. PICK up : up = [n \in 0..(l - 1) |-> level[n]]
  OBVIOUS
<1>4. depth' = depth - 1
  BY DEF ScanClose
<1>5. Levels(up)'
  BY <1>1, <1>3, <1>4, PopLevels
<1>6. \A n \in 0..(l - 1) : up[n] = level[n]
  BY <1>3
<1>7. level[l] = depth /\ level[l - 1] = depth - 1 /\ depth \in Int
      /\ \A n \in 0..(l - 1) : level[n] \in Int /\ level[n] <= level[l - 1]
  <2>1. l \in 1..l /\ l - 1 \in 0..l /\ \A n \in 0..(l - 1) : n \in 0..l /\ n <= l - 1
    BY <1>2
  <2>2. level[l] = level[l - 1] + 1 /\ level[l] = depth /\ \A n \in 0..l : level[n] \in Int
    BY <1>1, <2>1 DEF Levels
  <2>3. \A n \in 0..(l - 1) : level[n] <= level[l - 1]
    BY <2>1 DEF Levels
  <2> QED
    BY <2>1, <2>2, <2>3
<1>8. k \in Nat /\ DOMAIN condStack = 1..k /\ \A s \in 1..k : brace[s] \in 1..l
  BY SMTT(20) DEF Scopes, ScanTypeOK
<1>9. \A s, t \in 1..k : s < t => brace[s] < brace[t]
  BY DEF Scopes
<1> HIDE DEF k
<1>10. \A s \in 1..k : condStack[s].depth <= depth' <=> brace[s] <= l - 1
  <2> SUFFICES ASSUME NEW s \in 1..k PROVE condStack[s].depth <= depth' <=> brace[s] <= l - 1
    OBVIOUS
  <2>1. condStack[s].depth = level[brace[s]] /\ brace[s] \in 1..l
    BY <1>8 DEF Scopes
  <2>2. CASE brace[s] = l
    BY <1>2, <1>4, <1>7, <2>1, <2>2
  <2>3. CASE brace[s] # l
    <3>1. brace[s] \in 0..(l - 1)
      BY <1>2, <2>1, <2>3
    <3> QED
      BY <1>2, <1>4, <1>7, <2>1, <3>1, SMTT(20)
  <2> QED
    BY <2>2, <2>3
<1>11. PICK p \in 0..k : \A s \in 1..k : brace[s] <= l - 1 <=> s <= p
  <2>1. CASE k = 0
    BY <2>1
  <2>2. CASE k # 0 /\ brace[k] <= l - 1
    <3>1. \A s \in 1..k : s = k \/ brace[s] < brace[k]
      BY <1>8, <1>9, <2>2
    <3>2. \A s \in 1..k : brace[s] <= l - 1 <=> s <= k
      BY <1>2, <1>8, <2>2, <3>1
    <3> QED
      BY <1>8, <3>2
  <2>3. CASE k # 0 /\ ~(brace[k] <= l - 1)
    <3>1. \A s \in 1..k : s = k \/ brace[s] < brace[k]
      BY <1>8, <1>9, <2>3
    <3>2. brace[k] \in 1..l /\ brace[k] = l
      BY <1>2, <1>8, <2>3
    <3>3. \A s \in 1..k : brace[s] <= l - 1 <=> s <= k - 1
      BY <1>2, <1>8, <3>1, <3>2
    <3>4. k - 1 \in 0..k
      BY <1>8, <2>3
    <3> QED
      BY <3>3, <3>4
  <2> QED
    BY <2>1, <2>2, <2>3
<1>12. Staying(depth') = p
  <2> DEFINE D == {0} \cup {s \in DOMAIN condStack : condStack[s].depth <= depth'}
  <2>1. D = 0..p
    BY <1>8, <1>10, <1>11
  <2>2. Max(D) = p
    <3>1. p \in D /\ \A s \in D : s \in Int /\ s <= p
      BY <2>1
    <3> HIDE DEF D
    <3>2. Max(D) \in D /\ \A s \in D : Max(D) >= s
      BY <3>1 DEF Max
    <3>3. Max(D) \in Int /\ p \in Int /\ Max(D) <= p /\ p <= Max(D)
      <4>1. \A x, y \in Int : x >= y => y <= x
        OBVIOUS
      <4>2. Max(D) \in Int /\ p \in Int /\ Max(D) <= p /\ Max(D) >= p
        BY <3>1, <3>2, Zenon
      <4> QED
        BY <4>1, <4>2
    <3> QED
      BY <3>3
  <2> QED
    BY <2>2 DEF Staying
<1>13. condStack' = SubSeq(condStack, 1, p)
  BY <1>12 DEF ScanClose
<1>14. Len(condStack') = p /\ \A s \in 1..p : condStack'[s] = condStack[s]
  <2>1. condStack \in Seq([cond : Conds \cup {NoCond}, depth : Int]) /\ p \in Nat /\ p <= Len(condStack)
    BY <1>8 DEF ScanTypeOK
  <2> QED
    BY <1>13, <2>1
<1>15. ASSUME NEW n \in 1..Len(nest'), Braced(n)' PROVE n + 1 <= l - 1
  BY <1>2, <1>15 DEF Braced
<1>16. Keeps(level, brace, up, p, l - 1)
  BY <1>2, <1>6, <1>8, <1>11, <1>14, <1>15 DEF Keeps
<1> QED
  BY <1>5, <1>16, ScopesKept

-----------------------------------------------------------------------------
(* What leaves the parse and the stack alone keeps it.                     *)
LEMMA ScopesUnchanged ==
    ASSUME UNCHANGED <<nest, depth, condStack>>,
           NEW level, Levels(level), NEW brace, Scopes(level, brace)
    PROVE  Levels(level)' /\ Scopes(level, brace)'
<1>1. nest' = nest /\ depth' = depth /\ condStack' = condStack
  OBVIOUS
<1>2. Levels(level)'
  BY <1>1 DEF Levels, IsBrace
<1>3. \A c, n : Governs(c, n)' <=> Governs(c, n)
  BY <1>1 DEF Governs
<1>4. \A n : (Braced(n)' <=> Braced(n)) /\ (IsBrace(n)' <=> IsBrace(n))
  BY <1>1 DEF Braced, IsBrace
<1>5. Scopes(level, brace)'
  BY <1>1, <1>3, <1>4 DEF Scopes
<1> QED
  BY <1>2, <1>5

(* Every token keeps the relation between the stack and the parse.         *)
LEMMA ScopesStep ==
    ASSUME ScanTypeOK, Waiting, ScanNext,
           NEW level, Levels(level), NEW brace, Scopes(level, brace)
    PROVE  \E up : Levels(up)' /\ \E kept : Scopes(up, kept)'
<1> DEFINE StillScopes == \E up : Levels(up)' /\ \E kept : Scopes(up, kept)'
<1> SUFFICES StillScopes
  OBVIOUS
<1>1. ASSUME NEW c \in Conds, Control(c) PROVE StillScopes
  <2> DEFINE f == [what |-> "cond", cond |-> c]
  <2>1. f \in Frames /\ f.what = "cond"
    BY DEF Frames
  <2>2. nest' = Append(nest, f) /\ condStack' = condStack /\ depth' = depth
    BY <1>1 DEF Control, Push
  <2> HIDE DEF f
  <2>3. depth' = depth + (IF f.what \in {"block", "init"} THEN 1 ELSE 0)
    BY <2>1, <2>2 DEF ScanTypeOK
  <2> QED
    BY <2>1, <2>2, <2>3, PushKeepsScopes
<1>2. ASSUME Header PROVE StillScopes
  <2> DEFINE f == [what |-> "header", cond |-> NoCond]
  <2>1. f \in Frames /\ f.what = "header"
    BY DEF Frames
  <2>2. nest' = Append(nest, f) /\ condStack' = condStack /\ depth' = depth
    BY <1>2 DEF Header, Push
  <2> HIDE DEF f
  <2>3. depth' = depth + (IF f.what \in {"block", "init"} THEN 1 ELSE 0)
    BY <2>1, <2>2 DEF ScanTypeOK
  <2> QED
    BY <2>1, <2>2, <2>3, PushKeepsScopes
<1>3. ASSUME Else PROVE StillScopes
  BY <1>3, ElseKeepsScopes
<1>4. ASSUME OpenBlock PROVE StillScopes
  <2> DEFINE f == [what |-> "block", cond |-> NoCond]
  <2>1. f \in Frames /\ f.what = "block"
    BY DEF Frames
  <2>2. nest' = Append(nest, f) /\ place = "before" /\ ScanOpen
    BY <1>4 DEF OpenBlock, Push
  <2> HIDE DEF f
  <2> QED
    BY <2>1, <2>2, OpenKeepsScopes
<1>5. ASSUME OpenInit PROVE StillScopes
  <2> DEFINE f == [what |-> "init", cond |-> NoCond]
  <2>1. f \in Frames /\ f.what = "init"
    BY DEF Frames
  <2>2. nest' = Append(nest, f) /\ ScanOpen
    BY <1>5 DEF OpenInit, Push
  <2> HIDE DEF f
  <2> QED
    BY <2>1, <2>2, OpenKeepsScopes
<1>6. ASSUME CloseBlock \/ CloseInit PROVE StillScopes
  <2>1. Top \in {"block", "init"} /\ nest' = Front(nest) /\ ScanClose
    BY <1>6 DEF CloseBlock, CloseInit
  <2> QED
    BY <2>1, CloseKeepsScopes
<1>7. ASSUME UNCHANGED <<nest, depth, condStack>> PROVE StillScopes
  BY <1>7, ScopesUnchanged
<1>8. ASSUME Complete PROVE StillScopes
  <2>1. UNCHANGED <<depth, condStack>>
    BY <1>8 DEF Complete, scanner
  <2>2. CASE Top \in {"cond", "header"}
    <3>1. nest # <<>> /\ ~IsBrace(Len(nest))
      BY <2>2, TopFacts DEF IsBrace
    <3>2. nest' = Front(nest)
      BY <1>8, <2>2 DEF Complete
    <3> QED
      BY <2>1, <3>1, <3>2, PopKeepsScopes
  <2>3. CASE ~(Top \in {"cond", "header"})
    BY <1>7, <1>8, <2>1, <2>3 DEF Complete
  <2> QED
    BY <2>2, <2>3
<1>9. ASSUME Call \/ Semicolon PROVE StillScopes
  BY <1>7, <1>9 DEF Call, Semicolon
<1> QED
  BY <1>1, <1>2, <1>3, <1>4, <1>5, <1>6, <1>8, <1>9 DEF ScanNext

(* Every token keeps the types.                                            *)
LEMMA ScanTypeStep == ASSUME ScanTypeOK, ScanNext PROVE ScanTypeOK'
<1> DEFINE Entries == [cond : Conds \cup {NoCond}, depth : Int]
<1>1. nest \in Seq(Frames) /\ condStack \in Seq(Entries)
  BY DEF ScanTypeOK, Frames
<1>2. nest' \in Seq(Frames)
  <2>1. ASSUME NEW w \in {"cond", "header", "block", "init"}, NEW c \in Conds \cup {NoCond}
        PROVE  \A q \in Seq(Frames) : Append(q, [what |-> w, cond |-> c]) \in Seq(Frames)
    <3>1. [what |-> w, cond |-> c] \in Frames
      BY DEF Frames
    <3> QED
      BY <3>1, AppendProperties
  <2>2. nest # <<>> => Front(nest) \in Seq(Frames)
    BY <1>1, FrontFacts
  <2>3. Top # "body" => nest # <<>>
    BY DEF Top
  <2>4. CASE \E c \in Conds : Control(c)
    BY <1>1, <2>1, <2>4 DEF Control, Push
  <2>5. CASE Header \/ OpenBlock \/ OpenInit
    BY <1>1, <2>1, <2>5 DEF Header, OpenBlock, OpenInit, Push
  <2>6. CASE Else
    BY <2>1, <2>2, <2>3, <2>6 DEF Else
  <2>7. CASE CloseBlock \/ CloseInit
    BY <2>2, <2>3, <2>7 DEF CloseBlock, CloseInit
  <2>8. CASE Call \/ Semicolon
    BY <1>1, <2>8 DEF Call, Semicolon
  <2>9. CASE Complete
    BY <1>1, <2>2, <2>3, <2>9 DEF Complete
  <2> QED
    BY <2>4, <2>5, <2>6, <2>7, <2>8, <2>9 DEF ScanNext
<1>3. condStack' \in Seq(Entries)
  <2>1. CASE ScanOpen
    <3>1. [cond |-> pending, depth |-> depth + 1] \in Entries
      BY DEF ScanTypeOK
    <3> HIDE DEF Entries
    <3> QED
      BY <1>1, <2>1, <3>1, AppendProperties DEF ScanOpen
  <2>2. CASE ScanClose
    <3> DEFINE D == {0} \cup {s \in DOMAIN condStack : condStack[s].depth <= depth'}
    <3> HIDE DEF Entries
    <3>1. Len(condStack) \in Nat /\ DOMAIN condStack = 1..Len(condStack)
      BY <1>1
    <3>2. D \in SUBSET (0..Len(condStack)) /\ D # {}
      BY <3>1
    <3>3. Max(D) \in 0..Len(condStack)
      <4>1. \E x \in D : \A y \in D : x >= y
        <5>1. PICK x \in D : \A y \in D : y <= x
          BY <3>1, <3>2, Greatest
        <5> QED
          BY <3>1, <3>2, <5>1
      <4> QED
        BY <3>2, <4>1 DEF Max
    <3>4. condStack' = SubSeq(condStack, 1, Max(D))
      BY <2>2 DEF ScanClose, Staying
    <3>5. \A i \in 1..Max(D) : condStack[i] \in Entries
      BY <1>1, <3>1, <3>3, ElementOfSeq
    <3> HIDE DEF D
    <3>6. 1 \in Int /\ Max(D) \in Int
      BY <3>1, <3>3
    <3> QED
      BY <3>4, <3>5, <3>6, SubSeqProperties
  <2>3. CASE UNCHANGED condStack
    BY <1>1, <2>3
  <2> QED
    BY <2>1, <2>2, <2>3
       DEF ScanNext, Control, Header, Else, OpenBlock, CloseBlock, OpenInit, CloseInit, Call,
           Semicolon, Complete, scanner
<1>4. place' \in {"before", "within", "after"} /\ depth' \in Int /\ pending' \in Conds \cup {NoCond}
  BY DEF ScanTypeOK, ScanNext, Control, Header, Else, OpenBlock, CloseBlock, OpenInit, CloseInit,
         Call, Semicolon, Complete, scanner, ScanOpen, ScanClose, DropPending
<1> QED
  BY <1>2, <1>3, <1>4 DEF ScanTypeOK, Frames

(* Every token keeps what waits and what was just recorded.                *)
LEMMA WaitingStep == ASSUME ScanTypeOK, Waiting, JustRecorded, ScanNext PROVE Waiting' /\ JustRecorded'
<1>1. nest \in Seq(Frames) /\ Len(nest) \in Nat
  BY DEF ScanTypeOK, Frames
<1>2. JustRecorded'
  <2>1. CASE Call
    BY <2>1 DEF Call, JustRecorded, Last
  <2>2. CASE Complete
    BY <2>2 DEF Complete, JustRecorded, scanner
  <2> QED
    BY <2>1, <2>2
       DEF ScanNext, Control, Header, Else, OpenBlock, CloseBlock, OpenInit, CloseInit,
           Semicolon, ScanOpen, ScanClose, JustRecorded
<1>3. ASSUME NEW c \in Conds, Control(c) PROVE Waiting'
  <2>1. nest' = Append(nest, [what |-> "cond", cond |-> c]) /\ pending' = c /\ place' = "before"
    BY <1>3 DEF Control, Push
  <2>2. Len(nest') = Len(nest) + 1 /\ nest'[Len(nest) + 1] = [what |-> "cond", cond |-> c]
    BY <1>1, <2>1
  <2>3. PICK l : l = Len(nest) + 1
    OBVIOUS
  <2>4. Governs(c, l)'
    <3>1. l \in 1..l /\ nest'[l].what = "cond" /\ nest'[l].cond = c /\ \A j \in (l + 1)..l : FALSE
      BY <1>1, <2>2, <2>3
    <3> QED
      BY <3>1 DEF Governs
  <2>5. Governs(pending, Len(nest))'
    BY <2>1, <2>2, <2>3, <2>4 DEF Governs
  <2>6. c # NoCond
    BY ScanAssumption
  <2> QED
    BY <2>1, <2>2, <2>5, <2>6 DEF Waiting
<1>4. ASSUME Header PROVE Waiting'
  <2> DEFINE f == [what |-> "header", cond |-> NoCond]
  <2>1. f \in Frames /\ f.what = "header"
    BY DEF Frames
  <2>2. nest' = Append(nest, f) /\ pending' = pending /\ place' = "before" /\ place = "before"
    BY <1>4 DEF Header, Push
  <2> HIDE DEF f
  <2>3. Len(nest') = Len(nest) + 1 /\ nest'[Len(nest) + 1] = f /\ \A j \in 1..Len(nest) : nest'[j] = nest[j]
    BY <2>1, <2>2, PushFacts
  <2>4. pending # NoCond => Governs(pending, Len(nest))'
    <3> SUFFICES ASSUME pending # NoCond PROVE Governs(pending, Len(nest))'
      OBVIOUS
    <3>1. PICK m \in 1..Len(nest) : /\ nest[m].what = "cond" /\ nest[m].cond = pending
                                   /\ \A j \in (m + 1)..Len(nest) : nest[j].what = "header"
      BY DEF Waiting, Governs
    <3>2. m \in 1..Len(nest') /\ nest'[m] = nest[m]
      BY <1>1, <2>3, <3>1
    <3>3. \A j \in (m + 1)..Len(nest') : nest'[j].what = "header"
      <4> SUFFICES ASSUME NEW j \in (m + 1)..Len(nest') PROVE nest'[j].what = "header"
        OBVIOUS
      <4>1. j = Len(nest) + 1 \/ (j \in 1..Len(nest) /\ j \in (m + 1)..Len(nest))
        BY <1>1, <2>3
      <4> QED
        BY <2>1, <2>3, <3>1, <4>1
    <3> QED
      BY <2>2, <3>1, <3>2, <3>3 DEF Governs
  <2> QED
    BY <2>1, <2>2, <2>3, <2>4 DEF Waiting
<1>5. ASSUME Else PROVE Waiting'
  <2>1. pending' = NoCond /\ nest' = Append(Front(nest), [what |-> "header", cond |-> NoCond])
    BY <1>5 DEF Else, Waiting
  <2>2. Front(nest) \in Seq(Frames)
    BY <1>1, <1>5, TopFacts, FrontFacts DEF Else
  <2>3. nest'[Len(nest')] = [what |-> "header", cond |-> NoCond]
    BY <2>1, <2>2
  <2> QED
    BY <2>1, <2>3 DEF Waiting
<1>6. ASSUME OpenBlock \/ OpenInit PROVE Waiting'
  <2>1. PICK w \in {"block", "init"} : nest' = Append(nest, [what |-> w, cond |-> NoCond])
    BY <1>6 DEF OpenBlock, OpenInit, Push
  <2>2. nest'[Len(nest')] = [what |-> w, cond |-> NoCond]
    BY <1>1, <2>1
  <2>3. pending' = NoCond
    BY <1>6 DEF OpenBlock, OpenInit, ScanOpen
  <2> QED
    BY <2>2, <2>3 DEF Waiting
<1>7. ASSUME CloseBlock \/ CloseInit PROVE Waiting'
  <2>1. pending' = NoCond /\ place' \in {"after", "within"}
    BY <1>7, NothingWaits DEF CloseBlock, CloseInit, ScanClose
  <2> QED
    BY <2>1 DEF Waiting
<1>8. ASSUME Call PROVE Waiting'
  BY <1>8 DEF Call, Waiting, Governs
<1>9. ASSUME Semicolon PROVE Waiting'
  BY <1>9 DEF Semicolon, Waiting, DropPending
<1>10. ASSUME Complete PROVE Waiting'
  <2>1. pending' = NoCond
    BY <1>10 DEF Complete, Waiting, scanner
  <2>2. nest' # <<>> /\ place' = "before" => nest'[Len(nest')].what # "cond"
    <3> SUFFICES ASSUME nest' # <<>>, place' = "before" PROVE nest'[Len(nest')].what # "cond"
      OBVIOUS
    <3>1. nest' = nest /\ Top \notin {"cond", "header"}
      BY <1>10 DEF Complete
    <3> QED
      BY <3>1 DEF Top, Last
  <2> QED
    BY <2>1, <2>2 DEF Waiting
<1> QED
  BY <1>2, <1>3, <1>4, <1>5, <1>6, <1>7, <1>8, <1>9, <1>10 DEF ScanNext

(* The invariant holds for every body.                                     *)
LEMMA ScanInductive == ScanSpec => []ScanInv
<1>1. ScanInv /\ [ScanNext]_scanVars => ScanInv'
  <2> SUFFICES ASSUME ScanInv, [ScanNext]_scanVars PROVE ScanInv'
    OBVIOUS
  <2>1. CASE ScanNext
    BY <2>1, ScanTypeStep, WaitingStep, ScopesStep DEF ScanInv
  <2>2. CASE UNCHANGED scanVars
    <3>1. UNCHANGED <<nest, depth, condStack>> /\ UNCHANGED <<place, pending, recorded>>
      BY <2>2 DEF scanVars, parse, scanner
    <3>2. ScanTypeOK' /\ Waiting' /\ JustRecorded'
      BY <3>1 DEF ScanInv, ScanTypeOK, Waiting, JustRecorded, Governs
    <3> QED
      BY <3>1, <3>2, ScopesUnchanged DEF ScanInv
  <2> QED
    BY <2>1, <2>2
<1> QED
  BY <1>1, ScanInitInv, PTL DEF ScanSpec

(* The condition scan_body gives a call is open around it, and no condition*)
(* with a block of its own is open between the two, for bodies of any      *)
(* depth and any number of conditions.                                     *)
THEOREM ConditionsCorrect == ScanSpec => []ConditionEncloses
BY ScanInductive, ScanInvEncloses, PTL
-----------------------------------------------------------------------------
(***************************************************************************)
(* _restrict_to_reachable: what it visits is closed under everything the   *)
(* later tools follow, whatever they take a callee for.                    *)
(***************************************************************************)
(* What is visited or has still to be.                                     *)
Found == visited \cup Range(work)
GraphInv ==
    /\ calls \in [Nodes -> SUBSET Callees]
    /\ work \in Seq(Nodes) /\ visited \subseteq Nodes
    /\ \A n \in visited : /\ \A c \in calls[n] : Candidates(n, c) \subseteq Found
                          /\ Lambdas(n) \subseteq Found

(* A finite set as a sequence holds exactly its elements.                  *)
LEMMA SetToSeqFacts ==
    ASSUME NEW S, IsFiniteSet(S)
    PROVE  SetToSeq(S) \in Seq(S) /\ Range(SetToSeq(S)) = S
<1> DEFINE c == Cardinality(S)
           q == SetToSeq(S)
<1>1. c \in Nat
  BY FS_CardinalityType
<1>2. PICK n \in Nat : ExistsBijection(1..n, S)
  BY FS_NatBijection
<1>3. n = c
  BY <1>2, FS_CountingElements
<1>4. \E f \in [1..c -> S] : IsInjective(f)
  BY <1>2, <1>3 DEF ExistsBijection, Bijection, Injection, IsInjective
<1>5. q \in [1..c -> S] /\ IsInjective(q)
  BY <1>4 DEF SetToSeq
<1> HIDE DEF q
<1>6. q \in Seq(S)
  BY <1>1, <1>5
<1>7. q \in Injection(1..c, S)
  BY <1>5 DEF Injection
<1>8. Cardinality(1..c) = c
  BY <1>1, FS_Interval
<1>9. q \in Surjection(1..c, S)
  BY <1>7, <1>8, FS_Injection
<1>10. Range(q) = S
  BY <1>5, <1>9 DEF Surjection, Range
<1> QED
  BY <1>6, <1>10 DEF q

(* What two sequences in a row hold, and three.                            *)
LEMMA RangeOfTwo ==
    ASSUME NEW S, NEW x \in Seq(S), NEW y \in Seq(S)
    PROVE  x \o y \in Seq(S) /\ Range(x \o y) = Range(x) \cup Range(y)
BY RangeConcatenation, ConcatProperties

LEMMA RangeOfThree ==
    ASSUME NEW S, NEW x \in Seq(S), NEW y \in Seq(S), NEW z \in Seq(S)
    PROVE  x \o y \o z \in Seq(S) /\ Range(x \o y \o z) = Range(x) \cup Range(y) \cup Range(z)
<1> DEFINE xy == x \o y
<1>1. xy \in Seq(S) /\ Range(xy) = Range(x) \cup Range(y)
  BY RangeOfTwo
<1> HIDE DEF xy
<1>2. xy \in Seq(S)
  BY <1>1
<1>3. xy \o z \in Seq(S) /\ Range(xy \o z) = Range(xy) \cup Range(z)
  BY <1>2, RangeOfTwo
<1> QED
  BY <1>1, <1>3 DEF xy

(* It starts with a root.                                                  *)
LEMMA GraphInitInv == GraphInit => GraphInv /\ Range(work) = roots
<1> SUFFICES ASSUME GraphInit PROVE GraphInv /\ Range(work) = roots
  OBVIOUS
<1>1. roots \subseteq Nodes /\ IsFiniteSet(roots)
  <2>1. PICK n \in Nodes : roots = {n}
    BY DEF GraphInit
  <2>2. IsFiniteSet({n})
    BY FS_Singleton
  <2> QED
    BY <2>1, <2>2
<1>2. work \in Seq(roots) /\ Range(work) = roots
  BY <1>1, SetToSeqFacts DEF GraphInit
<1>3. work \in Seq(Nodes)
  BY <1>1, <1>2, SeqMonotonic
<1> QED
  BY <1>2, <1>3 DEF GraphInit, GraphInv

(* A visit leaves nothing out of what the node calls or contains.          *)
LEMMA VisitKeeps ==
    ASSUME GraphInv, Visit
    PROVE  /\ GraphInv' /\ visited' = visited \cup {Last(work)}
           /\ Last(work) \in Found /\ Last(work) \in Nodes
           /\ \A m \in Found' : \/ m \in Found \/ m \in Lambdas(Last(work))
                                \/ \E c \in calls[Last(work)] : m \in Candidates(Last(work), c)
<1>1. work \in Seq(Nodes) /\ work # <<>>
  BY DEF GraphInv, Visit
<1> PICK n : n = Last(work)
  OBVIOUS
<1>2. /\ Len(work) \in Nat \ {0} /\ Front(work) \in Seq(Nodes) /\ Len(Front(work)) = Len(work) - 1
      /\ \A j \in 1..(Len(work) - 1) : Front(work)[j] = work[j]
  BY <1>1, FrontFacts
<1>3. n = work[Len(work)] /\ n \in Nodes
  BY <1>1, <1>2 DEF Last
<1>4. Range(work) = Range(Front(work)) \cup {n}
  <2>1. DOMAIN work = 1..Len(work) /\ DOMAIN Front(work) = 1..(Len(work) - 1)
    BY <1>1, <1>2
  <2>2. \A j \in 1..Len(work) : j = Len(work) \/ j \in 1..(Len(work) - 1)
    BY <1>2
  <2>3. 1..(Len(work) - 1) \subseteq 1..Len(work) /\ Len(work) \in 1..Len(work)
    BY <1>2
  <2> QED
    BY <1>2, <1>3, <2>1, <2>2, <2>3 DEF Range
<1> PICK found : found = UNION {Candidates(n, c) : c \in calls[n]}
  OBVIOUS
<1>5. found \subseteq Nodes /\ Lambdas(n) \subseteq Nodes /\ \A c \in calls[n] : Candidates(n, c) \subseteq found
  BY DEF Candidates, Lambdas
<1>6. /\ work' = IF n \in visited THEN Front(work)
                 ELSE Front(work) \o SetToSeq(found) \o SetToSeq(Lambdas(n))
      /\ visited' = visited \cup {n} /\ calls' = calls
  BY DEF Visit
<1>7. visited' \subseteq Nodes /\ calls' \in [Nodes -> SUBSET Callees]
  BY <1>3, <1>6 DEF GraphInv
<1>8. CASE n \in visited
  <2>1. work' = Front(work) /\ visited' = visited
    BY <1>6, <1>8
  <2>2. Found' = Found
    BY <1>4, <1>8, <2>1 DEF Found
  <2>3. GraphInv'
    BY <1>2, <1>6, <1>7, <2>1, <2>2 DEF GraphInv, Candidates, Lambdas
  <2> QED
    BY <1>3, <1>4, <1>6, <2>2, <2>3 DEF Found
<1>9. CASE n \notin visited
  <2> DEFINE a == Front(work)
             b == SetToSeq(found)
             d == SetToSeq(Lambdas(n))
  <2>1. IsFiniteSet(found) /\ IsFiniteSet(Lambdas(n))
    BY <1>5, FS_Subset, GraphAssumption
  <2>2. b \in Seq(found) /\ Range(b) = found /\ d \in Seq(Lambdas(n)) /\ Range(d) = Lambdas(n)
    BY <2>1, SetToSeqFacts
  <2>3. b \in Seq(Nodes) /\ d \in Seq(Nodes)
    BY <1>5, <2>2, SeqMonotonic
  <2>4. a \in Seq(Nodes)
    BY <1>2
  <2>5. work' = a \o b \o d
    BY <1>6, <1>9
  <2> HIDE DEF a, b, d
  <2>6. work' \in Seq(Nodes) /\ Range(work') = Range(a) \cup Range(b) \cup Range(d)
    BY <2>3, <2>4, <2>5, RangeOfThree
  <2>7. work' \in Seq(Nodes) /\ Range(work') = Range(a) \cup found \cup Lambdas(n)
    BY <2>2, <2>6
  <2>8. Found' = Found \cup found \cup Lambdas(n)
    BY <1>4, <1>6, <2>7 DEF Found, a
  <2>9. ASSUME NEW m \in visited'
        PROVE  (\A c \in calls[m] : Candidates(m, c) \subseteq Found') /\ Lambdas(m) \subseteq Found'
    BY <1>5, <1>6, <2>8, <2>9 DEF GraphInv
  <2>10. GraphInv'
    BY <1>6, <1>7, <2>7, <2>9 DEF GraphInv, Candidates, Lambdas
  <2>11. \A m \in found : \E c \in calls[n] : m \in Candidates(n, c)
    OBVIOUS
  <2> QED
    BY <1>3, <1>4, <1>6, <2>8, <2>10, <2>11 DEF Found
<1> QED
  BY <1>8, <1>9

-----------------------------------------------------------------------------
(* The function a lambda is in, found by its first "lambda" component.     *)
FirstLambda(n) == Min({i \in DOMAIN n : n[i] = "lambda"})

LEMMA FirstLambdaFacts ==
    ASSUME NEW n \in Nodes, IsLambda(n)
    PROVE  /\ Len(n) \in Nat /\ FirstLambda(n) \in 1..(Len(n) - 1)
           /\ n[FirstLambda(n)] = "lambda"
           /\ \A i \in 1..(FirstLambda(n) - 1) : n[i] # "lambda"
<1> DEFINE D == {i \in DOMAIN n : n[i] = "lambda"}
<1>1. n \in Seq(Range(n)) /\ Len(n) \in Nat /\ DOMAIN n = 1..Len(n)
  BY GraphAssumption
<1>2. Len(n) > 2 /\ n[Len(n) - 1] = "lambda"
  BY DEF IsLambda
<1>3. Len(n) - 1 \in D /\ D \in SUBSET Nat
  BY <1>1, <1>2
<1>4. \E x \in D : \A y \in D : x <= y
  BY <1>3, Least
<1>5. Min(D) \in D /\ \A y \in D : Min(D) <= y
  BY <1>4 DEF Min
<1> PICK p : p = Min(D)
  OBVIOUS
<1>6. p \in 1..Len(n) /\ n[p] = "lambda" /\ p <= Len(n) - 1
  BY <1>1, <1>3, <1>5
<1>7. \A i \in 1..(p - 1) : n[i] # "lambda"
  <2> SUFFICES ASSUME NEW i \in 1..(p - 1), n[i] = "lambda" PROVE FALSE
    OBVIOUS
  <2>1. i \in DOMAIN n /\ i < p
    BY <1>1, <1>6
  <2>2. p <= i
    BY <1>5, <2>1
  <2> QED
    BY <1>6, <2>1, <2>2
<1> QED
  BY <1>1, <1>6, <1>7 DEF FirstLambda

(* The parts of a node's name.                                             *)
LEMMA PrefixFacts ==
    ASSUME NEW n \in Nodes, NEW k \in 0..Len(n)
    PROVE  /\ SubSeq(n, 1, k) \in Seq(Range(n)) /\ Len(SubSeq(n, 1, k)) = k
           /\ \A i \in 1..k : SubSeq(n, 1, k)[i] = n[i]
<1>1. n \in Seq(Range(n)) /\ Len(n) \in Nat /\ DOMAIN n = 1..Len(n)
  BY GraphAssumption
<1>2. \A i \in 1..k : n[i] \in Range(n)
  BY <1>1 DEF Range
<1> PICK S : S = Range(n)
  OBVIOUS
<1>3. k \in Nat /\ 1 \in Int /\ k \in Int
  BY <1>1
<1>4. SubSeq(n, 1, k) \in Seq(S) /\ Len(SubSeq(n, 1, k)) = (IF 1 <= k THEN k - 1 + 1 ELSE 0)
      /\ \A i \in 1..(k - 1 + 1) : SubSeq(n, 1, k)[i] = n[1 + i - 1]
  BY <1>2, <1>3, SubSeqProperties
<1> QED
  BY <1>3, <1>4

(* What a lambda is in is a lambda of the same function, or the function.  *)
LEMMA WithinFacts ==
    ASSUME NEW n \in Nodes, IsLambda(n)
    PROVE  /\ Within(n) \in Nodes /\ Len(Within(n)) = Len(n) - 2 /\ Len(n) \in Nat
           /\ IsLambda(Within(n)) => FunctionOf(Within(n)) = FunctionOf(n)
           /\ ~IsLambda(Within(n)) => Within(n) = FunctionOf(n)
<1> DEFINE q == Within(n)
           p == FirstLambda(n)
           r == FirstLambda(q)
<1>1. q \in Nodes /\ Len(n) \in Nat /\ Len(n) > 2
  BY GraphAssumption DEF IsLambda
<1>2. Len(n) - 2 \in 0..Len(n)
  BY <1>1
<1>3. Len(q) = Len(n) - 2 /\ \A i \in 1..(Len(n) - 2) : q[i] = n[i]
  BY <1>2, PrefixFacts DEF Within
<1>4. p \in 1..(Len(n) - 1) /\ n[p] = "lambda" /\ \A i \in 1..(p - 1) : n[i] # "lambda"
  BY FirstLambdaFacts
<1>5. FunctionOf(n) = SubSeq(n, 1, p - 1)
  BY DEF FunctionOf, FirstLambda
<1>6. ASSUME IsLambda(q) PROVE FunctionOf(q) = FunctionOf(n)
  <2>1. r \in 1..(Len(q) - 1) /\ q[r] = "lambda" /\ \A i \in 1..(r - 1) : q[i] # "lambda"
    BY <1>1, <1>6, FirstLambdaFacts
  <2>2. FunctionOf(q) = SubSeq(q, 1, r - 1)
    BY DEF FunctionOf, FirstLambda
  <2> HIDE DEF p, q, r
  <2>3. n[r] = "lambda" /\ r \in 1..(Len(n) - 3)
    BY <1>1, <1>3, <2>1
  <2>4. ~(r < p)
    BY <1>1, <1>4, <2>3
  <2>5. ~(p < r)
    BY <1>1, <1>3, <1>4, <2>1
  <2>6. r = p
    BY <1>1, <1>4, <2>3, <2>4, <2>5
  <2>7. p - 1 \in 0..Len(n) /\ p - 1 \in 0..Len(q) /\ p - 1 \in Nat
    BY <1>1, <1>3, <1>4, <2>1, <2>6
  <2> PICK k \in Nat : k = p - 1
    BY <2>7
  <2> PICK u, v : u = SubSeq(n, 1, k) /\ v = SubSeq(q, 1, k)
    OBVIOUS
  <2>8. u \in Seq(Range(n)) /\ Len(u) = k /\ \A i \in 1..k : u[i] = n[i]
    BY <2>7, PrefixFacts
  <2>9. v \in Seq(Range(q)) /\ Len(v) = k /\ \A i \in 1..k : v[i] = q[i]
    BY <1>1, <2>7, PrefixFacts
  <2>10. \A i \in 1..k : u[i] = v[i]
    BY <1>1, <1>3, <2>1, <2>6, <2>7, <2>8, <2>9
  <2>11. u = v
    BY <2>8, <2>9, <2>10
  <2> QED
    BY <1>5, <2>2, <2>6, <2>11
<1>7. ASSUME ~IsLambda(q) PROVE q = FunctionOf(n)
  <2>1. \A i \in 1..Len(q) : q[i] # "lambda"
    BY <1>1, <1>7, GraphAssumption
  <2> HIDE DEF p, q
  <2>2. ~(p <= Len(n) - 2)
    BY <1>1, <1>3, <1>4, <2>1
  <2>3. p - 1 = Len(n) - 2
    BY <1>1, <1>4, <2>2
  <2> QED
    BY <1>5, <2>3 DEF q, Within
<1> QED
  BY <1>1, <1>3, <1>6, <1>7

(* By its nesting: the function of a lambda is listed, and is a function.  *)
LEMMA FunctionListed ==
    ASSUME NEW n \in Nodes, IsLambda(n)
    PROVE  FunctionOf(n) \in Nodes /\ ~IsLambda(FunctionOf(n))
<1> DEFINE Wrong == {m \in Nodes : IsLambda(m) /\ ~(FunctionOf(m) \in Nodes /\ ~IsLambda(FunctionOf(m)))}
           T == {Len(m) : m \in Wrong}
<1> SUFFICES ASSUME Wrong # {} PROVE FALSE
  OBVIOUS
<1>1. T \in SUBSET Nat /\ T # {}
  <2>1. \A m \in Wrong : Len(m) \in Nat
    BY WithinFacts, Zenon
  <2> HIDE DEF Wrong
  <2> QED
    BY <2>1
<1>2. PICK l \in T : \A y \in T : l <= y
  BY <1>1, Least
<1>3. PICK m \in Wrong : Len(m) = l
  BY <1>2
<1>4. /\ Within(m) \in Nodes /\ Len(Within(m)) = Len(m) - 2 /\ Len(m) \in Nat
      /\ IsLambda(Within(m)) => FunctionOf(Within(m)) = FunctionOf(m)
      /\ ~IsLambda(Within(m)) => Within(m) = FunctionOf(m)
  BY WithinFacts
<1>5. CASE IsLambda(Within(m))
  <2>1. Within(m) \in Wrong
    BY <1>4, <1>5
  <2>2. Len(m) - 2 \in T
    BY <1>4, <2>1
  <2> QED
    BY <1>2, <1>3, <1>4, <2>2
<1>6. CASE ~IsLambda(Within(m))
  BY <1>4, <1>6
<1> QED
  BY <1>5, <1>6

(* At the end, what is visited is closed.                                  *)
Closed == /\ visited \subseteq Nodes
          /\ \A n \in visited : /\ \A c \in calls[n] : Candidates(n, c) \subseteq visited
                                /\ Lambdas(n) \subseteq visited

LEMMA NothingLeft == GraphInv /\ work = <<>> => Closed
BY DEF GraphInv, Closed, Found, Range

(* With a function, the lambdas in it are visited, however deep.           *)
LEMMA LambdasFollow ==
    ASSUME Closed, NEW n \in Nodes, IsLambda(n), FunctionOf(n) \in visited
    PROVE  n \in visited
<1> DEFINE Wrong == {m \in Nodes : IsLambda(m) /\ FunctionOf(m) \in visited /\ m \notin visited}
           T == {Len(m) : m \in Wrong}
<1> SUFFICES ASSUME Wrong # {} PROVE FALSE
  OBVIOUS
<1>1. T \in SUBSET Nat /\ T # {}
  <2>1. \A m \in Wrong : Len(m) \in Nat
    BY WithinFacts, Zenon
  <2> HIDE DEF Wrong
  <2> QED
    BY <2>1
<1>2. PICK l \in T : \A y \in T : l <= y
  BY <1>1, Least
<1>3. PICK m \in Wrong : Len(m) = l
  BY <1>2
<1>4. /\ Within(m) \in Nodes /\ Len(Within(m)) = Len(m) - 2 /\ Len(m) \in Nat
      /\ IsLambda(Within(m)) => FunctionOf(Within(m)) = FunctionOf(m)
      /\ ~IsLambda(Within(m)) => Within(m) = FunctionOf(m)
  BY WithinFacts
<1>5. Within(m) \notin visited
  <2>1. m \in Lambdas(Within(m))
    BY DEF Lambdas
  <2> QED
    BY <2>1 DEF Closed
<1>6. CASE IsLambda(Within(m))
  <2>1. Within(m) \in Wrong
    BY <1>4, <1>5, <1>6
  <2>2. Len(m) - 2 \in T
    BY <1>4, <2>1
  <2> QED
    BY <1>2, <1>3, <1>4, <2>2
<1>7. CASE ~IsLambda(Within(m))
  BY <1>4, <1>5, <1>7
<1> QED
  BY <1>6, <1>7

(* A callee is resolved as on the whole graph.                             *)
LEMMA ResolvedAlike ==
    ASSUME Closed, NEW n \in visited, NEW c \in calls[n]
    PROVE  Resolve(visited, c, n) = Resolve(Nodes, c, n)
<1>1. \A m \in Nodes : ~IsLambda(m) /\ Last(m) = c => m \in visited
  BY DEF Closed, Candidates
<1>2. {m \in visited : ~IsLambda(m) /\ Last(m) = c} = {m \in Nodes : ~IsLambda(m) /\ Last(m) = c}
  BY <1>1 DEF Closed
<1>3. <<c>> \in visited <=> <<c>> \in Nodes
  <2>1. Len(<<c>>) = 1 /\ <<c>>[1] = c
    OBVIOUS
  <2>2. ~IsLambda(<<c>>) /\ Last(<<c>>) = c
    BY <2>1 DEF IsLambda, Last
  <2> QED
    BY <1>1, <2>2 DEF Closed
<1> QED
  BY <1>2, <1>3 DEF Resolve

(* The restriction and the frontier.                                       *)
LEMMA FrontierKept ==
    ASSUME Closed, NEW reached
    PROVE  Frontier(visited, reached) = {e \in Frontier(Nodes, reached) : e[1] \in visited}
<1>1. visited \subseteq Nodes
  BY DEF Closed
<1>2. ASSUME NEW e \in Frontier(visited, reached) PROVE e \in Frontier(Nodes, reached) /\ e[1] \in visited
  <2>1. /\ e \in (visited \cap reached) \X Callees /\ e[2] \in calls[e[1]]
        /\ Resolve(visited, e[2], e[1]) # {} /\ Resolve(visited, e[2], e[1]) \cap reached = {}
    BY DEF Frontier
  <2>2. e[1] \in visited /\ e \in (Nodes \cap reached) \X Callees
    BY <1>1, <2>1
  <2>3. Resolve(visited, e[2], e[1]) = Resolve(Nodes, e[2], e[1])
    BY <2>1, <2>2, ResolvedAlike
  <2> QED
    BY <2>1, <2>2, <2>3 DEF Frontier
<1>3. ASSUME NEW e \in Frontier(Nodes, reached), e[1] \in visited PROVE e \in Frontier(visited, reached)
  <2>1. /\ e \in (Nodes \cap reached) \X Callees /\ e[2] \in calls[e[1]]
        /\ Resolve(Nodes, e[2], e[1]) # {} /\ Resolve(Nodes, e[2], e[1]) \cap reached = {}
    BY DEF Frontier
  <2>2. e \in (visited \cap reached) \X Callees
    BY <1>3, <2>1
  <2>3. Resolve(visited, e[2], e[1]) = Resolve(Nodes, e[2], e[1])
    BY <1>3, <2>1, ResolvedAlike
  <2> QED
    BY <2>1, <2>2, <2>3 DEF Frontier
<1> QED
  BY <1>2, <1>3

(* No step of a chain leaves what is visited.                              *)
LEMMA StepsStay ==
    ASSUME Closed, NEW n \in visited
    PROVE  Steps(visited, n) = Steps(Nodes, n) /\ Steps(Nodes, n) \subseteq visited
<1>1. ASSUME NEW m \in Adjacent(Nodes, n) PROVE m \in visited
  <2>1. m \in Nodes /\ (m \in Lambdas(n)
          \/ \E c \in calls[n] : Last(Home(m)) = c)
    BY DEF Adjacent
  <2>2. CASE m \in Lambdas(n)
    BY <2>2 DEF Closed
  <2>3. ASSUME NEW c \in calls[n], Last(Home(m)) = c
        PROVE  m \in visited
    <3>1. CASE IsLambda(m)
      <4>1. FunctionOf(m) \in Nodes /\ ~IsLambda(FunctionOf(m)) /\ Last(FunctionOf(m)) = c
        BY <2>1, <2>3, <3>1, FunctionListed DEF Home
      <4>2. FunctionOf(m) \in visited
        BY <4>1 DEF Closed, Candidates
      <4> QED
        BY <2>1, <3>1, <4>2, LambdasFollow
    <3>2. CASE ~IsLambda(m)
      BY <2>1, <2>3, <3>2 DEF Closed, Candidates, Home
    <3> QED
      BY <3>1, <3>2
  <2> QED
    BY <2>1, <2>2, <2>3
<1>2. visited \subseteq Nodes
  BY DEF Closed
<1>3. Adjacent(visited, n) = Adjacent(Nodes, n)
  <2>1. ASSUME NEW m PROVE m \in Adjacent(visited, n) <=> m \in Adjacent(Nodes, n)
    BY <1>1, <1>2 DEF Adjacent
  <2> QED
    BY <2>1 DEF Adjacent
<1> QED
  BY <1>1, <1>3 DEF Steps

(* Nor does a chain, by the first node of it that would.                   *)
LEMMA PathsStay ==
    ASSUME Closed, NEW k \in Nat \ {0}
    PROVE  Paths(visited, visited, k) = Paths(Nodes, visited, k)
<1>1. visited \subseteq Nodes
  BY DEF Closed
<1>2. ASSUME NEW p \in Paths(visited, visited, k) PROVE p \in Paths(Nodes, visited, k)
  <2>1. p \in [1..k -> visited] /\ p[1] \in visited /\ Normalise(p[1]) # <<>>
        /\ \A i \in 1..k - 1 : p[i + 1] \in Steps(visited, p[i])
    BY DEF Paths
  <2>2. p \in [1..k -> Nodes]
    BY <1>1, <2>1
  <2>3. \A i \in 1..k - 1 : p[i] \in visited
    BY <2>1
  <2>4. \A i \in 1..k - 1 : p[i + 1] \in Steps(Nodes, p[i])
    BY <2>1, <2>3, StepsStay
  <2> QED
    BY <2>1, <2>2, <2>4 DEF Paths
<1>3. ASSUME NEW p \in Paths(Nodes, visited, k) PROVE p \in Paths(visited, visited, k)
  <2>1. p \in [1..k -> Nodes] /\ p[1] \in visited /\ Normalise(p[1]) # <<>>
        /\ \A i \in 1..k - 1 : p[i + 1] \in Steps(Nodes, p[i])
    BY DEF Paths
  <2>2. \A i \in 1..k : p[i] \in visited
    <3> DEFINE T == {i \in 1..k : p[i] \notin visited}
    <3> SUFFICES ASSUME T # {} PROVE FALSE
      OBVIOUS
    <3>1. T \in SUBSET Nat
      OBVIOUS
    <3>2. PICK i \in T : \A y \in T : i <= y
      BY <3>1, Least
    <3>3. i \in 1..k /\ i # 1 /\ p[i] \notin visited
      BY <2>1, <3>2
    <3>4. i - 1 \in 1..k - 1 /\ i - 1 \in 1..k /\ ~(i <= i - 1) /\ i - 1 + 1 = i
      BY <3>3
    <3>5. p[i - 1] \in visited
      BY <3>2, <3>4
    <3>6. p[i] \in Steps(Nodes, p[i - 1])
      BY <2>1, <3>4
    <3>7. p[i] \in Steps(visited, p[i - 1])
      BY <3>5, <3>6, StepsStay
    <3> QED
      BY <3>3, <3>7 DEF Steps, Adjacent
  <2>3. p \in [1..k -> visited]
    BY <2>1, <2>2
  <2>4. \A i \in 1..k - 1 : p[i] \in visited
    BY <2>2
  <2>5. \A i \in 1..k - 1 : p[i + 1] \in Steps(visited, p[i])
    BY <2>1, <2>4, StepsStay
  <2> QED
    BY <2>1, <2>3, <2>5 DEF Paths
<1> QED
  BY <1>2, <1>3

(* A node is found in a root's function, or by the name it was called by:  *)
(* then all functions of that name are.                                    *)
Reached(n) ==
    \/ \E r \in roots : Home(n) = Home(r)
    \/ \E m \in visited : \E c \in calls[m] : Last(Home(n)) = c

AllReached == \A n \in Found : Reached(n)

LEMMA LambdaHome == ASSUME NEW n \in Nodes, NEW m \in Lambdas(n) PROVE Home(m) = Home(n)
BY WithinFacts DEF Lambdas, Home

LEMMA ReachedKept == ASSUME GraphInv, AllReached, Visit PROVE AllReached'
<1>1. visited' = visited \cup {Last(work)} /\ roots' = roots /\ calls' = calls
  BY VisitKeeps DEF Visit
<1>2. \A m : Reached(m) => Reached(m)'
  BY <1>1 DEF Reached
<1>3. ASSUME NEW m \in Lambdas(Last(work)) PROVE Reached(m)'
  <2>1. Home(m) = Home(Last(work)) /\ Reached(Last(work))
    BY VisitKeeps, LambdaHome DEF AllReached
  <2>2. Reached(m)
    BY <2>1 DEF Reached
  <2> QED
    BY <1>2, <2>2
<1>4. ASSUME NEW c \in calls[Last(work)], NEW m \in Candidates(Last(work), c) PROVE Reached(m)'
  <2>1. Last(Home(m)) = c
    BY <1>4 DEF Candidates, Home
  <2> QED
    BY <1>1, <1>4, <2>1 DEF Reached
<1>5. ASSUME NEW m \in Found' PROVE Reached(m)'
  <2>1. \/ m \in Found \/ m \in Lambdas(Last(work))
        \/ \E c \in calls[Last(work)] : m \in Candidates(Last(work), c)
    BY VisitKeeps
  <2> QED
    BY <1>2, <1>3, <1>4, <2>1 DEF AllReached
<1> QED
  BY <1>5 DEF AllReached

(* A lambda in what is written in a class of the pass is of the pass.      *)
LEMMA LambdaInPass ==
    ASSUME NEW n \in Nodes, InPass(n), NEW m \in Lambdas(n)
    PROVE  InPass(m)
<1>1. m \in Nodes /\ IsLambda(m) /\ n = SubSeq(m, 1, Len(m) - 2)
  BY DEF Lambdas, Within
<1>2. Len(m) \in Nat /\ Len(n) = Len(m) - 2 /\ Len(n) \in Nat /\ Len(n) > 1
  BY <1>1, WithinFacts DEF InPass, Within
<1>3. Len(m) - 2 \in 0..Len(m) /\ 1 \in 1..(Len(m) - 2)
  BY <1>2
<1>4. n[1] = m[1]
  BY <1>1, <1>3, PrefixFacts
<1> QED
  BY <1>2, <1>4 DEF InPass

(* What is visited, but in a root's function, is in the scope of the pass  *)
(* as on the whole graph.                                                  *)
LEMMA ScopeKept ==
    ASSUME Closed, AllReached, NEW n \in visited \ RootLambdas, n \in PassScope(Nodes)
    PROVE  n \in PassScope(visited)
<1>1. CASE InPass(n)
  BY <1>1 DEF PassScope
<1>2. CASE ~InPass(n)
  <2>1. PICK f \in Nodes : IsLambda(n) /\ ~IsLambda(f) /\ InPass(f) /\ Last(f) = Last(FunctionOf(n))
    BY <1>2 DEF PassScope
  <2>2. Home(n) = FunctionOf(n) /\ n \in Nodes /\ n \in Found
    BY <2>1 DEF Home, Closed, Found
  <2>3. ~ \E r \in roots : Home(n) = Home(r)
    BY <2>1, <2>2 DEF RootLambdas
  <2>4. PICK m \in visited : \E c \in calls[m] : Last(Home(n)) = c
    BY <2>2, <2>3 DEF AllReached, Reached
  <2>5. f \in visited
    BY <2>1, <2>2, <2>4 DEF Closed, Candidates
  <2> QED
    BY <2>1, <2>5 DEF PassScope
<1> QED
  BY <1>1, <1>2

(* No step in that scope leaves what is visited of it.                     *)
LEMMA ScopeSteps ==
    ASSUME Closed, NEW n \in PassScope(visited), NEW m \in Steps(PassScope(Nodes), n)
    PROVE  m \in PassScope(visited) /\ m \in Steps(PassScope(visited), n)
<1>1. n \in visited /\ visited \subseteq Nodes /\ n \in Nodes
  BY DEF PassScope, Closed
<1>2. m \in PassScope(Nodes) /\ m \in Nodes /\ m \in Steps(Nodes, n)
  BY DEF Steps, Adjacent, PassScope
<1>3. m \in visited
  BY <1>1, <1>2, StepsStay
<1>4. m \in PassScope(visited)
  <2>1. CASE InPass(m)
    BY <1>3, <2>1 DEF PassScope
  <2>2. CASE ~InPass(m)
    <3>1. PICK f \in Nodes : IsLambda(m) /\ ~IsLambda(f) /\ InPass(f) /\ Last(f) = Last(FunctionOf(m))
      BY <1>2, <2>2 DEF PassScope
    <3>2. CASE m \in Lambdas(n)
      <4>1. Home(m) = Home(n) /\ ~InPass(n)
        BY <1>1, <2>2, <3>2, LambdaHome, LambdaInPass
      <4>2. PICK g \in visited : IsLambda(n) /\ ~IsLambda(g) /\ InPass(g) /\ Last(g) = Last(FunctionOf(n))
        BY <4>1 DEF PassScope
      <4>3. FunctionOf(n) = FunctionOf(m)
        BY <3>1, <4>1, <4>2 DEF Home
      <4> QED
        BY <1>3, <3>1, <4>2, <4>3 DEF PassScope
    <3>3. ASSUME NEW c \in calls[n], Last(Home(m)) = c PROVE m \in PassScope(visited)
      <4>1. Last(f) = c
        BY <3>1, <3>3 DEF Home
      <4>2. f \in visited
        BY <1>1, <3>1, <3>3, <4>1 DEF Closed, Candidates
      <4> QED
        BY <1>3, <3>1, <4>2 DEF PassScope
    <3> QED
      BY <1>2, <3>2, <3>3 DEF Steps, Adjacent
  <2> QED
    BY <2>1, <2>2
<1> QED
  BY <1>4 DEF Steps, Adjacent

LEMMA ScopePaths ==
    ASSUME Closed, AllReached, NEW k \in Nat \ {0}
    PROVE  Paths(PassScope(visited), visited \ RootLambdas, k)
               = Paths(PassScope(Nodes), visited \ RootLambdas, k)
<1> DEFINE V == PassScope(visited)
           N == PassScope(Nodes)
           from == visited \ RootLambdas
<1>1. V \subseteq N
  BY DEF Closed, PassScope
<1>2. ASSUME NEW p \in Paths(V, from, k) PROVE p \in Paths(N, from, k)
  <2>1. /\ p \in [1..k -> V] /\ p[1] \in from /\ Normalise(p[1]) # <<>>
        /\ \A i \in 1..k - 1 : p[i + 1] \in Steps(V, p[i])
    BY DEF Paths
  <2>2. \A n : Steps(V, n) \subseteq Steps(N, n)
    BY <1>1 DEF Steps, Adjacent
  <2>3. p \in [1..k -> N] /\ \A i \in 1..k - 1 : p[i + 1] \in Steps(N, p[i])
    <3> HIDE DEF V, N, from
    <3> QED
      BY <1>1, <2>1, <2>2
  <2> HIDE DEF V, N, from
  <2> QED
    BY <2>1, <2>3 DEF Paths
<1>3. ASSUME NEW p \in Paths(N, from, k) PROVE p \in Paths(V, from, k)
  <2>1. /\ p \in [1..k -> N] /\ p[1] \in from /\ Normalise(p[1]) # <<>>
        /\ \A i \in 1..k - 1 : p[i + 1] \in Steps(N, p[i])
    BY DEF Paths
  <2>2. p[1] \in V
    <3>1. p[1] \in N
      <4> HIDE DEF N
      <4> QED
        BY <2>1
    <3> QED
      BY <2>1, <3>1, ScopeKept
  <2>3. \A n \in V : \A m \in Steps(N, n) : m \in V /\ m \in Steps(V, n)
    BY ScopeSteps
  <2> HIDE DEF V, N, from
  <2>4. \A i \in 1..k : p[i] \in V
    <3> DEFINE T == {i \in 1..k : p[i] \notin V}
    <3> SUFFICES ASSUME T # {} PROVE FALSE
      OBVIOUS
    <3>1. T \in SUBSET Nat
      OBVIOUS
    <3>2. PICK i \in T : \A y \in T : i <= y
      BY <3>1, Least
    <3>3. i \in 1..k /\ i # 1 /\ p[i] \notin V
      BY <2>2, <3>2
    <3>4. i - 1 \in 1..k - 1 /\ i - 1 \in 1..k /\ ~(i <= i - 1) /\ i - 1 + 1 = i
      BY <3>3
    <3>5. p[i - 1] \in V
      BY <3>2, <3>4
    <3>6. p[i] \in Steps(N, p[i - 1])
      BY <2>1, <3>4
    <3> QED
      BY <2>3, <3>3, <3>5, <3>6
  <2>5. p \in [1..k -> V]
    BY <2>1, <2>4
  <2>6. \A i \in 1..k - 1 : p[i] \in V
    BY <2>4
  <2>7. \A i \in 1..k - 1 : p[i + 1] \in Steps(V, p[i])
    BY <2>1, <2>3, <2>6
  <2> QED
    BY <2>1, <2>5, <2>7 DEF Paths
<1> QED
  BY <1>2, <1>3

(* Restricting the graph to what a root reaches changes neither the        *)
(* frontier of the functions it keeps nor the chains they start, for every *)
(* source file, every root and every set of reached functions; nor, in the *)
(* scope of the pass, the chains that do not start in a root's lambda.     *)
THEOREM RestrictionCorrect == GraphSpec => []RestrictionLosesNothing
<1>1. GraphInv /\ AllReached /\ [GraphNext]_graphVars => GraphInv' /\ AllReached'
  <2> SUFFICES ASSUME GraphInv, AllReached, [GraphNext]_graphVars PROVE GraphInv' /\ AllReached'
    OBVIOUS
  <2>1. CASE GraphNext
    BY <2>1, VisitKeeps, ReachedKept DEF GraphNext
  <2>2. CASE UNCHANGED graphVars
    <3>1. GraphInv'
      BY <2>2 DEF graphVars, GraphInv, Found, Candidates, Lambdas
    <3>2. AllReached'
      BY <2>2 DEF graphVars, AllReached, Reached, Found
    <3> QED
      BY <3>1, <3>2
  <2> QED
    BY <2>1, <2>2
<1>2. GraphInv /\ AllReached => RestrictionLosesNothing
  <2> SUFFICES ASSUME GraphInv, AllReached, work = <<>> PROVE RestrictionLosesNothing
    BY DEF RestrictionLosesNothing
  <2>1. Closed
    BY NothingLeft
  <2>2. \A reached \in SUBSET Nodes :
          Frontier(visited, reached) = {e \in Frontier(Nodes, reached) : e[1] \in visited}
    BY <2>1, FrontierKept
  <2>3. \A k \in ChainLengths : Chains(visited, visited, k) = Chains(Nodes, visited, k)
    <3> SUFFICES ASSUME NEW k \in ChainLengths PROVE Chains(visited, visited, k) = Chains(Nodes, visited, k)
      OBVIOUS
    <3>1. k \in Nat \ {0}
      BY GraphAssumption
    <3>2. Paths(visited, visited, k) = Paths(Nodes, visited, k)
      BY <2>1, <3>1, PathsStay
    <3> QED
      BY <3>2 DEF Chains
  <2>4. \A k \in ChainLengths :
           Chains(PassScope(visited), visited \ RootLambdas, k)
               = Chains(PassScope(Nodes), visited \ RootLambdas, k)
    <3> TAKE k \in ChainLengths
    <3>1. k \in Nat \ {0}
      BY GraphAssumption
    <3> QED
      BY <2>1, <3>1, ScopePaths DEF Chains
  <2> QED
    BY <2>2, <2>3, <2>4 DEF RestrictionLosesNothing
<1>3. GraphInit => GraphInv /\ AllReached
  <2> SUFFICES ASSUME GraphInit PROVE AllReached
    BY GraphInitInv
  <2>1. Found \subseteq roots
    BY GraphInitInv DEF GraphInit, Found
  <2> QED
    BY <2>1 DEF AllReached, Reached
<1> QED
  BY <1>1, <1>2, <1>3, PTL DEF GraphSpec

-----------------------------------------------------------------------------
(***************************************************************************)
(* The counters of the harness: a mutant is counted once on its way from   *)
(* the mutator to the outcome of its execution, for any registry, any      *)
(* number of processes and any order of calls.                             *)
(***************************************************************************)
Outcomes(row) ==
    row["success"] + row["parse_fail"] + row["verify_fail"] + row["too_large"]

(* A mutant whose mutator is in the slot, or is credited by the execution  *)
(* that runs, has no outcome yet: it is covered by what was applied.       *)
One(condition) == IF condition THEN 1 ELSE 0
Pending(p, m) == One(slot[p] = m) + One(credited[p] = m)
Covered(p, m) ==
    /\ counters[p][m]["applied"] <= counters[p][m]["attempted"]
    /\ Outcomes(counters[p][m]) + Pending(p, m) <= counters[p][m]["applied"]

(* An execution is under way exactly while there may be a credit.          *)
CreditInv ==
    \A p \in Pids : proc[p] \notin {"flushing", "closing", "running"}
                        => credited[p] = NoMutator

CountersCovered == \A p \in Pids, m \in Mutators : Covered(p, m)
HarnessInv == HarnessTypeOK /\ CreditInv /\ CountersCovered /\ RatesAreShares

-----------------------------------------------------------------------------
(* Zeros are rows.                                                         *)
LEMMA Zeros == NoStats \in StatRows /\ NoFallbacks \in SiteRows
  BY DEF NoStats, NoFallbacks, StatRows, SiteRows

(* Nothing is counted in the beginning.                                    *)
LEMMA HarnessInitEstablishes == HarnessInit => HarnessInv
<1> SUFFICES ASSUME HarnessInit PROVE HarnessInv
  OBVIOUS
<1> USE HarnessAssumption DEF HarnessInit
<1>1. HarnessTypeOK
  BY Zeros DEF HarnessTypeOK, Places
<1>2. CreditInv
  BY DEF CreditInv
<1>3. CountersCovered
  BY DEF CountersCovered, Covered, Outcomes, Pending, One, NoStats, Stats
<1>4. RatesAreShares
  BY DEF RatesAreShares, Fit, NoStats, Stats
<1> QED
  BY <1>1, <1>2, <1>3, <1>4 DEF HarnessInv

(* What BumpStats and BumpFallback do to the counters of a process.        *)
LEMMA Bumped ==
  ASSUME HarnessTypeOK, NEW p \in Pids, NEW m \in Mutators, NEW fields, BumpStats(p, m, fields)
  PROVE  /\ counters' \in [Pids -> StatRows]
         /\ \A q \in Pids, n \in Mutators :
               (q # p \/ n # m) => counters'[q][n] = counters[q][n]
         /\ \A k \in Stats :
               counters'[p][m][k] = IF k \in fields THEN counters[p][m][k] + 1
                                                   ELSE counters[p][m][k]
<1>1. counters \in [Pids -> [Mutators -> [Stats -> Nat]]]
  BY DEF HarnessTypeOK, StatRows
<1>2. [k \in Stats |-> IF k \in fields THEN counters[p][m][k] + 1
                                       ELSE counters[p][m][k]] \in [Stats -> Nat]
  BY <1>1
<1> QED
  BY <1>1, <1>2 DEF BumpStats, StatRows

LEMMA BumpedFallback ==
  ASSUME HarnessTypeOK, NEW p \in Pids, NEW where \in Sites, BumpFallback(p, where)
  PROVE  fallbacks' \in [Pids -> SiteRows]
  BY DEF HarnessTypeOK, BumpFallback, SiteRows

(* A step of a process, and a call.                                        *)
LEMMA Moved ==
  ASSUME HarnessTypeOK, NEW p \in Pids, NEW from, NEW to \in Places, Move(p, from, to)
  PROVE  proc' \in [Pids -> Places]
  BY DEF HarnessTypeOK, Move

LEMMA CalledOnce ==
  ASSUME HarnessTypeOK, Called PROVE harnessCalls' \in 0..MaxCalls
  BY HarnessAssumption DEF HarnessTypeOK, Called

(* Every step keeps the types.                                             *)
LEMMA MutatorKeepsTypes ==
  ASSUME HarnessTypeOK, NEW p \in Pids, CustomMutator(p)
  PROVE  HarnessTypeOK'
<1>1. ASSUME NEW m \in Mutators, ApplyFails(p, m)
      PROVE  counters' \in [Pids -> StatRows] /\ fallbacks' \in [Pids -> SiteRows]
                                              /\ slot' = slot
  <2>1. BumpStats(p, m, {"attempted"}) /\ BumpFallback(p, "apply_failed") /\ slot' = slot
    BY <1>1 DEF ApplyFails
  <2>2. "apply_failed" \in Sites
    BY DEF Sites
  <2> QED
    BY <2>1, <2>2, Bumped, BumpedFallback
<1>2. ASSUME NEW m \in Mutators, Unusable(p, m)
      PROVE  counters' \in [Pids -> StatRows] /\ fallbacks' \in [Pids -> SiteRows]
                                              /\ slot' = slot
  <2>1. PICK why \in {"verify_fail", "too_large"} :
           BumpStats(p, m, {"attempted", "applied", why}) /\ BumpFallback(p, why)
    BY <1>2 DEF Unusable
  <2>2. why \in Sites /\ slot' = slot
    BY <1>2 DEF Sites, Unusable
  <2> QED
    BY <2>1, <2>2, Bumped, BumpedFallback
<1>3. ASSUME NEW m \in Mutators, Mutates(p, m)
      PROVE  counters' \in [Pids -> StatRows] /\ fallbacks' = fallbacks
                                              /\ slot' = [slot EXCEPT ![p] = m]
  <2>1. BumpStats(p, m, {"attempted", "applied"})
    BY <1>3 DEF Mutates
  <2> QED
    BY <1>3, <2>1, Bumped DEF Mutates
<1>. /\ proc' \in [Pids -> Places] /\ harnessCalls' \in 0..MaxCalls
     /\ UNCHANGED <<credited, sinceFlush, statsFile, fallbackFile>>
  BY Moved, CalledOnce DEF CustomMutator, Places, statFiles
<1>4. CASE NoMutation(p)
  <2>1. PICK where \in {"empty_input", "parse_fail", "none_applicable"} : BumpFallback(p, where)
    BY <1>4 DEF NoMutation
  <2>2. where \in Sites /\ counters' = counters /\ slot' = slot
    BY <1>4 DEF Sites, NoMutation
  <2>3. fallbacks' \in [Pids -> SiteRows]
    BY <2>1, <2>2, BumpedFallback
  <2> QED
    BY <2>2, <2>3 DEF HarnessTypeOK
<1>5. ASSUME NEW m \in Mutators, ApplyFails(p, m) \/ Unusable(p, m) \/ Mutates(p, m)
      PROVE  HarnessTypeOK'
  <2>1. /\ counters' \in [Pids -> StatRows] /\ fallbacks' \in [Pids -> SiteRows]
        /\ slot' = slot \/ slot' = [slot EXCEPT ![p] = m]
    BY <1>1, <1>2, <1>3, <1>5 DEF HarnessTypeOK
  <2> QED
    BY <2>1 DEF HarnessTypeOK
<1> QED
  BY <1>4, <1>5 DEF CustomMutator

LEMMA HarnessKeepsTypes == HarnessTypeOK /\ [HarnessNext]_harnessVars => HarnessTypeOK'
<1> SUFFICES ASSUME HarnessTypeOK, [HarnessNext]_harnessVars PROVE HarnessTypeOK'
  OBVIOUS
<1> USE HarnessAssumption DEF HarnessTypeOK, harness, statFiles, Move, Places
<1>1. CASE UNCHANGED harnessVars
  BY <1>1 DEF harnessVars
<1>2. ASSUME NEW p \in Pids, StartHarness(p) \/ OpenFallbackFile(p) PROVE HarnessTypeOK'
  BY <1>2, Zeros DEF StartHarness, OpenFallbackFile
<1>3. ASSUME NEW p \in Pids, CustomMutator(p) PROVE HarnessTypeOK'
  BY <1>3, MutatorKeepsTypes
<1>4. ASSUME NEW p \in Pids, TestOneInput(p) PROVE HarnessTypeOK'
  BY <1>4 DEF TestOneInput, TakeSlot, Called
<1>5. ASSUME NEW p \in Pids, FlushStats(p) \/ FlushFallbacks(p) PROVE HarnessTypeOK'
  BY <1>5 DEF FlushStats, FlushFallbacks, FallbackRows
<1>6. ASSUME NEW p \in Pids, Execute(p) PROVE HarnessTypeOK'
  <2>1. counters' \in [Pids -> StatRows]
    <3>1. CASE counters' = counters
      BY <3>1
    <3>2. ASSUME credited[p] # NoMutator, NEW k, BumpStats(p, credited[p], {k})
          PROVE  counters' \in [Pids -> StatRows]
      <4>1. credited[p] \in Mutators
        BY <3>2
      <4> QED
        BY <3>2, <4>1, Bumped
    <3> QED
      BY <1>6, <3>1, <3>2 DEF Execute
  <2> QED
    BY <1>6, <2>1 DEF Execute
<1>7. ASSUME NEW p \in Pids, Exit(p) PROVE HarnessTypeOK'
  BY <1>7, Zeros DEF Exit
<1> QED
  BY <1>1, <1>2, <1>3, <1>4, <1>5, <1>6, <1>7 DEF HarnessNext

(* A credit ends with its execution or its process.                        *)
LEMMA HarnessKeepsCredit == HarnessInv /\ [HarnessNext]_harnessVars => CreditInv'
  BY HarnessAssumption
  DEF HarnessInv, HarnessTypeOK, CreditInv, HarnessNext, harnessVars, harness, statFiles, Move,
      StartHarness, OpenFallbackFile, CustomMutator, TestOneInput, FlushStats,
      FlushFallbacks, Execute, Exit

-----------------------------------------------------------------------------
(* Calling the mutator: every new outcome, and the new mutant in the slot, *)
(* comes with one more applied.  The mutant that was in the slot is lost   *)
(* to the count.                                                           *)
LEMMA MutatorKeepsCovered ==
  ASSUME HarnessInv, NEW p \in Pids, CustomMutator(p)
  PROVE  CountersCovered'
<1> SUFFICES ASSUME NEW q \in Pids, NEW n \in Mutators PROVE Covered(q, n)'
  BY DEF CountersCovered
<1> USE HarnessAssumption DEF HarnessInv, HarnessTypeOK, Covered, Outcomes, Pending, One
<1>1. /\ Covered(q, n)
      /\ counters[q][n] \in [Stats -> Nat]
      /\ credited' = credited
  BY DEF CountersCovered, CustomMutator, StatRows
<1>2. CASE NoMutation(p)
  BY <1>1, <1>2 DEF NoMutation
<1>3. ASSUME NEW m \in Mutators, ApplyFails(p, m) \/ Unusable(p, m) \/ Mutates(p, m)
      PROVE  Covered(q, n)'
  <2>1. CASE q # p \/ n # m
    <3>1. counters'[q][n] = counters[q][n]
      BY <1>3, <2>1, Bumped DEF ApplyFails, Unusable, Mutates
    <3>2. slot'[q] = n => slot[q] = n
      BY <1>3, <2>1 DEF ApplyFails, Unusable, Mutates
    <3> QED
      BY <1>1, <3>1, <3>2 DEF Stats
  <2>2. CASE q = p /\ n = m
    <3>1. CASE ApplyFails(p, m)
      BY <1>1, <2>2, <3>1, Bumped DEF ApplyFails, Stats
    <3>2. CASE Unusable(p, m)
      BY <1>1, <2>2, <3>2, Bumped, SMTT(20) DEF Unusable, Stats
    <3>3. CASE Mutates(p, m)
      BY <1>1, <2>2, <3>3, Bumped DEF Mutates, Stats
    <3> QED
      BY <1>3, <3>1, <3>2, <3>3
  <2> QED
    BY <2>1, <2>2
<1> QED
  BY <1>2, <1>3 DEF CustomMutator

(* Executing: the credit moves from the slot to the execution, and from    *)
(* the execution to one outcome at most.                                   *)
LEMMA ExecutionKeepsCovered ==
  ASSUME HarnessInv, NEW p \in Pids, TestOneInput(p) \/ Execute(p)
  PROVE  CountersCovered'
<1> SUFFICES ASSUME NEW q \in Pids, NEW n \in Mutators PROVE Covered(q, n)'
  BY DEF CountersCovered
<1> USE HarnessAssumption DEF HarnessInv, HarnessTypeOK, Covered, Outcomes, Pending, One
<1>1. /\ Covered(q, n)
      /\ counters[q][n] \in [Stats -> Nat]
  BY DEF CountersCovered, StatRows
<1>2. CASE TestOneInput(p)
  <2>1. credited[p] = NoMutator
    BY <1>2 DEF TestOneInput, Move, CreditInv
  <2>2. counters' = counters /\ credited' = [credited EXCEPT ![p] = slot[p]]
                             /\ slot' = [slot EXCEPT ![p] = NoMutator]
    BY <1>2 DEF TestOneInput, TakeSlot
  <2> QED
    BY <1>1, <2>1, <2>2 DEF Stats
<1>3. CASE Execute(p)
  <2>1. slot' = slot /\ credited' = [credited EXCEPT ![p] = NoMutator]
    BY <1>3 DEF Execute
  <2>2. CASE counters' = counters
    BY <1>1, <2>1, <2>2 DEF Stats
  <2>3. ASSUME credited[p] \in Mutators,
               NEW k \in {"parse_fail", "verify_fail", "success"},
               BumpStats(p, credited[p], {k})
        PROVE  Covered(q, n)'
    <3>1. CASE q # p \/ n # credited[p]
      <4>1. counters'[q][n] = counters[q][n]
        BY <2>3, <3>1, Bumped
      <4> QED
        BY <1>1, <2>1, <4>1 DEF Stats
    <3>2. CASE q = p /\ n = credited[p]
      <4>1. \A j \in Stats :
               counters'[q][n][j] = IF j \in {k} THEN counters[q][n][j] + 1
                                                ELSE counters[q][n][j]
        BY <2>3, <3>2, Bumped
      <4> QED
        BY <1>1, <2>1, <2>3, <3>2, <4>1 DEF Stats
    <3> QED
      BY <3>1, <3>2
  <2> QED
    BY <1>3, <2>2, <2>3 DEF Execute
<1> QED
  BY <1>2, <1>3

(* The other steps count nothing; a process that ends loses everything.    *)
LEMMA HarnessKeepsCovered == HarnessInv /\ [HarnessNext]_harnessVars => CountersCovered'
<1> SUFFICES ASSUME HarnessInv, [HarnessNext]_harnessVars PROVE CountersCovered'
  OBVIOUS
<1>1. CASE UNCHANGED harness
  BY <1>1 DEF HarnessInv, harness, CountersCovered, Covered, Pending
<1>2. ASSUME NEW p \in Pids, CustomMutator(p) PROVE CountersCovered'
  BY <1>2, MutatorKeepsCovered
<1>3. ASSUME NEW p \in Pids, TestOneInput(p) \/ Execute(p) PROVE CountersCovered'
  BY <1>3, ExecutionKeepsCovered
<1>4. ASSUME NEW p \in Pids, Exit(p) PROVE CountersCovered'
  <2> SUFFICES ASSUME NEW q \in Pids, NEW n \in Mutators PROVE Covered(q, n)'
    BY DEF CountersCovered
  <2> USE HarnessAssumption DEF HarnessInv, HarnessTypeOK, Covered, Outcomes, Pending, One
  <2>1. Covered(q, n)
    BY DEF CountersCovered
  <2>2. CASE q # p
    BY <1>4, <2>1, <2>2 DEF Exit
  <2>3. CASE q = p
    BY <1>4, <2>3 DEF Exit, NoStats, Stats
  <2> QED
    BY <2>2, <2>3
<1> QED
  BY <1>1, <1>2, <1>3, <1>4
  DEF HarnessNext, harnessVars, StartHarness, OpenFallbackFile, FlushStats, FlushFallbacks

(* A row that is flushed is a row of the counters.                         *)
LEMMA HarnessKeepsRates == HarnessInv /\ [HarnessNext]_harnessVars => RatesAreShares'
<1> SUFFICES ASSUME HarnessInv, [HarnessNext]_harnessVars, NEW q \in Pids, NEW n \in Mutators
             PROVE  Fit(statsFile'[q][n])
  BY DEF RatesAreShares, Fit
<1> USE DEF HarnessInv, HarnessTypeOK, Fit
<1>1. CASE statsFile'[q][n] = statsFile[q][n]
  BY <1>1 DEF RatesAreShares
<1>2. CASE FlushStats(q)
  <2>1. statsFile'[q][n] = counters[q][n] /\ counters[q][n] \in [Stats -> Nat]
    BY <1>2 DEF FlushStats, StatRows
  <2>2. Covered(q, n)
    BY DEF CountersCovered
  <2> QED
    BY <2>1, <2>2 DEF Covered, Outcomes, Pending, One, Stats
<1>3. CASE StartHarness(q)
  BY <1>3 DEF StartHarness, NoStats, Stats
<1> QED
  BY <1>1, <1>2, <1>3
  DEF HarnessNext, harnessVars, statFiles, StartHarness, OpenFallbackFile, CustomMutator,
      TestOneInput, FlushStats, FlushFallbacks, Execute, Exit

(* The invariant holds in every reachable state.                           *)
LEMMA HarnessInvHolds == HarnessSpec => []HarnessInv
<1>1. HarnessInv /\ [HarnessNext]_harnessVars => HarnessInv'
  BY HarnessKeepsTypes, HarnessKeepsCredit, HarnessKeepsCovered, HarnessKeepsRates DEF HarnessInv
<1> QED
  BY HarnessInitEstablishes, <1>1, PTL DEF HarnessSpec

-----------------------------------------------------------------------------
(* Types of the counters and of the rows.                                  *)
THEOREM HarnessTypeCorrect == HarnessSpec => []HarnessTypeOK
  BY HarnessInvHolds, PTL DEF HarnessInv

(* No rate of the dashboard exceeds what was attempted, although one slot  *)
(* carries the credit between calls whose order Centipede chooses.         *)
THEOREM RatesCorrect == HarnessSpec => []RatesAreShares
  BY HarnessInvHolds, PTL DEF HarnessInv

-----------------------------------------------------------------------------
(* A sum adds the summands up one by one, in the order of CHOOSE: f[S] is  *)
(* what those of S come to.                                                *)
First(S) == CHOOSE x \in S : TRUE
Sums(w, f) ==
    /\ SumFunction(w) = f[DOMAIN w]
    /\ f[{}] = 0
    /\ \A S \in SUBSET DOMAIN w : S # {} => f[S] = w[First(S)] + f[S \ {First(S)}]

LEMMA SumsExist == ASSUME NEW w, IsFiniteSet(DOMAIN w) PROVE \E f : Sums(w, f)
<1> DEFINE D == DOMAIN w
           Def(g, S) == IF S = {} THEN 0 ELSE w[First(S)] + g[S \ {First(S)}]
           f == CHOOSE g : g = [S \in SUBSET D |-> Def(g, S)]
           R == StrictSubsetOrdering(D)
<1>1. IsWellFoundedOn(R, SUBSET D)
  BY FS_StrictSubsetOrderingWellFounded, FS_FiniteSubsetsOfFinite
<1>2. WFDefOn(R, SUBSET D, Def)
  <2> SUFFICES ASSUME NEW g, NEW h, NEW S \in SUBSET D,
                      \A y \in SetLessThan(S, R, SUBSET D) : g[y] = h[y]
               PROVE  Def(g, S) = Def(h, S)
    BY DEF WFDefOn
  <2>1. CASE S = {}
    BY <2>1
  <2>2. CASE S # {}
    <3>1. First(S) \in S
      BY <2>2 DEF First
    <3>2. S \ {First(S)} \in SetLessThan(S, R, SUBSET D)
      BY <3>1 DEF SetLessThan, StrictSubsetOrdering
    <3> QED
      BY <3>2
  <2> QED
    BY <2>1, <2>2
<1>3. OpDefinesFcn(f, SUBSET D, Def)
  BY DEF OpDefinesFcn
<1>4. WFInductiveDefines(f, SUBSET D, Def)
  <2> HIDE DEF f, Def, R
  <2> QED
    BY <1>1, <1>2, <1>3, WFInductiveDef, Zenon
<1>5. SumFunction(w) = f[D]
  BY DEF SumFunction, SumFunctionOnSet, FoldFunctionOnSet, MapThenFoldSet, First
<1>6. f = [S \in SUBSET D |-> Def(f, S)]
  BY <1>4 DEF WFInductiveDefines
<1> HIDE DEF f
<1>7. Sums(w, f)
  BY <1>5, <1>6 DEF Sums
<1> QED
  BY <1>7

(* A sum of integers changes by as much as the one summand that changes.   *)
LEMMA SumMoves ==
    ASSUME NEW D, IsFiniteSet(D), NEW w \in [D -> Int], NEW v \in [D -> Int],
           NEW m \in D, \A n \in D : n # m => v[n] = w[n]
    PROVE  SumFunction(w) \in Int /\ SumFunction(v) = SumFunction(w) + (v[m] - w[m])
<1>1. PICK f : Sums(w, f)
  BY SumsExist
<1>2. PICK g : Sums(v, g)
  BY SumsExist
<1> DEFINE d == v[m] - w[m]
           Right(S) == f[S] \in Int /\ g[S] = f[S] + (IF m \in S THEN d ELSE 0)
<1>3. \A S \in SUBSET D : Right(S)
  <2> SUFFICES ASSUME NEW S0 \in SUBSET D, ~Right(S0) PROVE FALSE
    OBVIOUS
  <2> DEFINE Wrong(k) == \E S \in SUBSET D : Cardinality(S) = k /\ ~Right(S)
             T == {k \in Nat : Wrong(k)}
  <2>1. \A S \in SUBSET D : IsFiniteSet(S) /\ Cardinality(S) \in Nat
    BY FS_Subset, FS_CardinalityType
  <2>2. T \in SUBSET Nat /\ T # {}
    BY <2>1
  <2>3. PICK k \in T : \A y \in T : k <= y
    BY <2>2, Least
  <2>4. PICK S \in SUBSET D : Cardinality(S) = k /\ ~Right(S)
    BY <2>3
  <2>5. S # {}
    <3>1. f[{}] = 0 /\ g[{}] = 0
      BY <1>1, <1>2 DEF Sums
    <3>2. m \notin {}
      OBVIOUS
    <3>3. Right({})
      BY <3>1, <3>2
    <3> QED
      BY <2>4, <3>3
  <2> DEFINE x == First(S)
             U == S \ {x}
  <2>6. x \in S
    BY <2>5 DEF First
  <2>7. U \in SUBSET D /\ Cardinality(U) = k - 1
    BY <2>1, <2>4, <2>6, FS_RemoveElement
  <2>8. Right(U)
    <3> SUFFICES ASSUME ~Right(U) PROVE FALSE
      OBVIOUS
    <3>1. k - 1 \in T
      BY <2>1, <2>7
    <3> QED
      BY <2>3, <3>1
  <2>9. f[S] = w[x] + f[U] /\ g[S] = v[x] + g[U]
    BY <1>1, <1>2, <2>5 DEF Sums
  <2>10. w[x] \in Int /\ v[x] \in Int /\ w[m] \in Int /\ v[m] \in Int
    BY <2>6
  <2>11. CASE x = m
    <3>1. m \in S /\ m \notin U
      BY <2>6, <2>11
    <3> QED
      BY <2>4, <2>8, <2>9, <2>10, <2>11, <3>1
  <2>12. CASE x # m
    <3>1. (m \in S <=> m \in U) /\ v[x] = w[x]
      BY <2>6, <2>12
    <3> HIDE DEF U, x, d
    <3> d \in Int
      BY <2>10 DEF d
    <3> QED
      BY <2>4, <2>8, <2>9, <2>10, <3>1
  <2> QED
    BY <2>11, <2>12
<1>4. Right(D)
  BY <1>3
<1> QED
  BY <1>1, <1>2, <1>4 DEF Sums

(* The sum of zeros is zero.                                               *)
LEMMA SumOfZeros ==
    ASSUME NEW D, IsFiniteSet(D), NEW w \in [D -> Int], \A m \in D : w[m] = 0
    PROVE  SumFunction(w) = 0
<1>1. PICK f : Sums(w, f)
  BY SumsExist
<1>2. \A S \in SUBSET D : f[S] = 0
  <2> SUFFICES ASSUME NEW S0 \in SUBSET D, f[S0] # 0 PROVE FALSE
    OBVIOUS
  <2> DEFINE T == {k \in Nat : \E S \in SUBSET D : Cardinality(S) = k /\ f[S] # 0}
  <2>1. \A S \in SUBSET D : IsFiniteSet(S) /\ Cardinality(S) \in Nat
    BY FS_Subset, FS_CardinalityType
  <2>2. T \in SUBSET Nat /\ T # {}
    BY <2>1
  <2>3. PICK k \in T : \A y \in T : k <= y
    BY <2>2, Least
  <2>4. PICK S \in SUBSET D : Cardinality(S) = k /\ f[S] # 0
    BY <2>3
  <2>5. S # {}
    BY <1>1, <2>4 DEF Sums
  <2>6. First(S) \in S
    BY <2>5 DEF First
  <2>7. S \ {First(S)} \in SUBSET D /\ Cardinality(S \ {First(S)}) = k - 1
    BY <2>1, <2>4, <2>6, FS_RemoveElement
  <2>8. f[S \ {First(S)}] # 0
    BY <1>1, <2>4, <2>5, <2>6 DEF Sums
  <2>9. k - 1 \in T
    BY <2>1, <2>7, <2>8
  <2> QED
    BY <2>3, <2>9
<1> QED
  BY <1>1, <1>2 DEF Sums

-----------------------------------------------------------------------------
(* In the memory of a process the two tables agree all the time.  Between  *)
(* the two files the first one is empty, or holds what the second will.    *)
FilesFollow(p) ==
    /\ Agree(counters[p], fallbacks[p])
    /\ proc[p] \notin {"opening", "closing", "torn"} => Agree(statsFile[p], fallbackFile[p])
    /\ proc[p] = "opening" => statsFile[p] = NoStats
    /\ proc[p] = "closing" => statsFile[p] = counters[p]
FilesInv == \A p \in Pids : FilesFollow(p)

(* Empty tables agree.                                                     *)
LEMMA NothingAgrees == Agree(NoStats, NoFallbacks)
<1>1. SumFunction(NotApplied(NoStats)) = 0
  <2> DEFINE w == NotApplied(NoStats)
  <2>1. w \in [Mutators -> Int] /\ \A m \in Mutators : w[m] = 0
    BY DEF NotApplied, NoStats, Stats
  <2> HIDE DEF w
  <2>2. SumFunction(w) = 0
    BY <2>1, SumOfZeros, HarnessAssumption
  <2> QED
    BY <2>2 DEF w
<1>2. \A k \in Stats : SumFunction(Column(NoStats, k)) = 0
  <2> TAKE k \in Stats
  <2> DEFINE w == Column(NoStats, k)
  <2>1. w \in [Mutators -> Int] /\ \A m \in Mutators : w[m] = 0
    BY DEF Column, NoStats
  <2> HIDE DEF w
  <2>2. SumFunction(w) = 0
    BY <2>1, SumOfZeros, HarnessAssumption
  <2> QED
    BY <2>2 DEF w
<1> QED
  BY <1>1, <1>2 DEF Agree, NoFallbacks, Sites, Stats

(* The sums move with the one row that does.                               *)
LEMMA TotalsMove ==
    ASSUME NEW t \in StatRows, NEW u \in StatRows, NEW m \in Mutators,
           \A n \in Mutators : n # m => u[n] = t[n]
    PROVE  /\ SumFunction(NotApplied(t)) \in Int
           /\ SumFunction(NotApplied(u)) = SumFunction(NotApplied(t))
                 + ((u[m]["attempted"] - u[m]["applied"])
                       - (t[m]["attempted"] - t[m]["applied"]))
           /\ \A k \in Stats :
                 /\ SumFunction(Column(t, k)) \in Int
                 /\ SumFunction(Column(u, k)) = SumFunction(Column(t, k))
                                                   + (u[m][k] - t[m][k])
<1>1. \A n \in Mutators, k \in Stats : t[n][k] \in Nat /\ u[n][k] \in Nat
  BY DEF StatRows
<1>2. /\ SumFunction(NotApplied(t)) \in Int
      /\ SumFunction(NotApplied(u)) = SumFunction(NotApplied(t))
                                        + (NotApplied(u)[m] - NotApplied(t)[m])
  <2>1. /\ NotApplied(t) \in [Mutators -> Int] /\ NotApplied(u) \in [Mutators -> Int]
        /\ \A n \in Mutators : n # m => NotApplied(u)[n] = NotApplied(t)[n]
    BY <1>1 DEF NotApplied, Stats
  <2> QED
    BY <2>1, SumMoves, HarnessAssumption
<1>3. ASSUME NEW k \in Stats
      PROVE  /\ SumFunction(Column(t, k)) \in Int
             /\ SumFunction(Column(u, k)) = SumFunction(Column(t, k))
                                               + (Column(u, k)[m] - Column(t, k)[m])
  <2>1. /\ Column(t, k) \in [Mutators -> Int] /\ Column(u, k) \in [Mutators -> Int]
        /\ \A n \in Mutators : n # m => Column(u, k)[n] = Column(t, k)[n]
    BY <1>1 DEF Column
  <2> QED
    BY <2>1, SumMoves, HarnessAssumption
<1>4. /\ NotApplied(u)[m] = u[m]["attempted"] - u[m]["applied"]
      /\ NotApplied(t)[m] = t[m]["attempted"] - t[m]["applied"]
      /\ \A k \in Stats : Column(u, k)[m] = u[m][k] /\ Column(t, k)[m] = t[m][k]
  BY DEF NotApplied, Column
<1> QED
  BY <1>2, <1>3, <1>4

(* What BumpStats adds to the sums.                                        *)
LEMMA BumpTotals ==
  ASSUME HarnessTypeOK, NEW p \in Pids, NEW m \in Mutators, NEW fields,
         BumpStats(p, m, fields)
  PROVE  /\ \A k \in Stats :
               /\ SumFunction(Column(counters[p], k)) \in Int
               /\ SumFunction(Column(counters'[p], k)) =
                     SumFunction(Column(counters[p], k)) + (IF k \in fields THEN 1 ELSE 0)
         /\ SumFunction(NotApplied(counters[p])) \in Int
         /\ SumFunction(NotApplied(counters'[p])) = SumFunction(NotApplied(counters[p]))
               + ((IF "attempted" \in fields THEN 1 ELSE 0)
                     - (IF "applied" \in fields THEN 1 ELSE 0))
<1> DEFINE t == counters[p]
           u == counters'[p]
<1>1. t \in StatRows /\ u \in StatRows /\ \A n \in Mutators : n # m => u[n] = t[n]
  BY Bumped DEF HarnessTypeOK
<1>2. \A k \in Stats :
         /\ t[m][k] \in Nat
         /\ u[m][k] = IF k \in fields THEN t[m][k] + 1 ELSE t[m][k]
  BY <1>1, Bumped DEF StatRows
<1> HIDE DEF t, u
<1>3. /\ SumFunction(NotApplied(t)) \in Int
      /\ SumFunction(NotApplied(u)) = SumFunction(NotApplied(t))
            + ((u[m]["attempted"] - u[m]["applied"])
                  - (t[m]["attempted"] - t[m]["applied"]))
      /\ \A k \in Stats :
            /\ SumFunction(Column(t, k)) \in Int
            /\ SumFunction(Column(u, k)) = SumFunction(Column(t, k)) + (u[m][k] - t[m][k])
  BY <1>1, TotalsMove
<1>4. \A k \in Stats : u[m][k] - t[m][k] = IF k \in fields THEN 1 ELSE 0
  BY <1>2
<1>5. (u[m]["attempted"] - u[m]["applied"]) - (t[m]["attempted"] - t[m]["applied"])
         = (IF "attempted" \in fields THEN 1 ELSE 0)
               - (IF "applied" \in fields THEN 1 ELSE 0)
  <2>1. "attempted" \in Stats /\ "applied" \in Stats
    BY DEF Stats
  <2> DEFINE a == t[m]["attempted"]
             b == t[m]["applied"]
             i == IF "attempted" \in fields THEN 1 ELSE 0
             j == IF "applied" \in fields THEN 1 ELSE 0
  <2>2. a \in Nat /\ b \in Nat /\ i \in 0..1 /\ j \in 0..1
        /\ u[m]["attempted"] = a + i /\ u[m]["applied"] = b + j
    BY <1>2, <2>1
  <2> HIDE DEF a, b, i, j
  <2>3. ((a + i) - (b + j)) - (a - b) = i - j
    BY <2>2
  <2> QED
    BY <2>2, <2>3 DEF a, b, i, j
<1> QED
  BY <1>3, <1>4, <1>5 DEF t, u

(* A call of the mutator moves both tables alike.                          *)
LEMMA MutatorKeepsAgree ==
  ASSUME HarnessTypeOK, NEW p \in Pids, Agree(counters[p], fallbacks[p]), CustomMutator(p)
  PROVE  Agree(counters'[p], fallbacks'[p])
<1>0. /\ counters[p] \in StatRows /\ fallbacks[p] \in SiteRows
      /\ fallbacks \in [Pids -> [Sites -> Nat]]
  BY DEF HarnessTypeOK, SiteRows
<1>1. CASE NoMutation(p)
  <2>1. PICK where \in {"empty_input", "parse_fail", "none_applicable"} :
           BumpFallback(p, where)
    BY <1>1 DEF NoMutation
  <2>2. \A s \in {"apply_failed", "too_large", "verify_fail"} :
           fallbacks'[p][s] = fallbacks[p][s]
    BY <1>0, <2>1 DEF BumpFallback, Sites
  <2>3. counters' = counters
    BY <1>1 DEF NoMutation
  <2> QED
    BY <2>2, <2>3 DEF Agree
<1>3. ASSUME NEW m \in Mutators, ApplyFails(p, m)
      PROVE  Agree(counters'[p], fallbacks'[p])
  <2> USE <1>3 DEF ApplyFails
  <2>1. BumpStats(p, m, {"attempted"})
    OBVIOUS
  <2>2. /\ fallbacks'[p]["apply_failed"] = fallbacks[p]["apply_failed"] + 1
        /\ fallbacks'[p]["too_large"] = fallbacks[p]["too_large"]
        /\ fallbacks'[p]["verify_fail"] = fallbacks[p]["verify_fail"]
    BY <1>0 DEF BumpFallback, Sites
  <2>3. /\ SumFunction(NotApplied(counters'[p])) = SumFunction(NotApplied(counters[p])) + 1
        /\ \A k \in {"too_large", "verify_fail"} :
              SumFunction(Column(counters'[p], k)) = SumFunction(Column(counters[p], k))
    BY <2>1, BumpTotals DEF Stats
  <2> QED
    BY <2>2, <2>3 DEF Agree
<1>4. ASSUME NEW m \in Mutators, Unusable(p, m)
      PROVE  Agree(counters'[p], fallbacks'[p])
  <2>1. PICK why \in {"verify_fail", "too_large"} :
           BumpStats(p, m, {"attempted", "applied", why}) /\ BumpFallback(p, why)
    BY <1>4 DEF Unusable
  <2>2. \A s \in {"apply_failed", "too_large", "verify_fail"} :
           fallbacks'[p][s] = fallbacks[p][s] + (IF s = why THEN 1 ELSE 0)
    BY <1>0, <2>1 DEF BumpFallback, Sites
  <2>3. /\ SumFunction(NotApplied(counters'[p])) = SumFunction(NotApplied(counters[p]))
        /\ \A k \in {"too_large", "verify_fail"} :
              /\ SumFunction(Column(counters[p], k)) \in Int
              /\ SumFunction(Column(counters'[p], k)) =
                    SumFunction(Column(counters[p], k)) + (IF k = why THEN 1 ELSE 0)
    BY <2>1, BumpTotals DEF Stats
  <2>4. \A s \in Sites : fallbacks[p][s] \in Nat
    BY <1>0
  <2>5. CASE why = "verify_fail"
    BY <2>2, <2>3, <2>4, <2>5 DEF Agree, Sites
  <2>6. CASE why = "too_large"
    BY <2>2, <2>3, <2>4, <2>6 DEF Agree, Sites
  <2> QED
    BY <2>5, <2>6
<1>5. ASSUME NEW m \in Mutators, Mutates(p, m)
      PROVE  Agree(counters'[p], fallbacks'[p])
  <2>1. BumpStats(p, m, {"attempted", "applied"}) /\ fallbacks' = fallbacks
    BY <1>5 DEF Mutates
  <2>2. /\ SumFunction(NotApplied(counters'[p])) = SumFunction(NotApplied(counters[p]))
        /\ \A k \in {"too_large", "verify_fail"} :
              SumFunction(Column(counters'[p], k)) = SumFunction(Column(counters[p], k))
    BY <2>1, BumpTotals DEF Stats
  <2> QED
    BY <2>1, <2>2 DEF Agree
<1> QED
  BY <1>1, <1>3, <1>4, <1>5 DEF CustomMutator

(* An execution may add to "verify_fail" of the statistics only.           *)
LEMMA ExecuteKeepsAgree ==
  ASSUME HarnessTypeOK, NEW p \in Pids, Agree(counters[p], fallbacks[p]), Execute(p)
  PROVE  Agree(counters'[p], fallbacks'[p])
<1>1. fallbacks' = fallbacks /\ fallbacks[p]["verify_fail"] \in Nat
  BY DEF Execute, HarnessTypeOK, SiteRows, Sites
<1>2. CASE counters' = counters
  BY <1>1, <1>2
<1>3. ASSUME NEW m \in Mutators, NEW k \in {"parse_fail", "verify_fail", "success"},
             BumpStats(p, m, {k})
      PROVE  Agree(counters'[p], fallbacks'[p])
  <2>3. /\ SumFunction(NotApplied(counters'[p])) = SumFunction(NotApplied(counters[p]))
        /\ SumFunction(Column(counters'[p], "too_large"))
              = SumFunction(Column(counters[p], "too_large"))
        /\ SumFunction(Column(counters[p], "verify_fail")) \in Int
        /\ SumFunction(Column(counters'[p], "verify_fail"))
              >= SumFunction(Column(counters[p], "verify_fail"))
    BY <1>3, BumpTotals DEF Stats
  <2>4. SumFunction(Column(counters'[p], "verify_fail")) \in Int
    BY <1>3, <2>3, BumpTotals DEF Stats
  <2> QED
    BY <1>1, <2>3, <2>4 DEF Agree
<1>4. credited[p] # NoMutator => credited[p] \in Mutators
  BY DEF HarnessTypeOK
<1> QED
  BY <1>2, <1>3, <1>4 DEF Execute

(* Every step of a process keeps its files in line with its memory.        *)
LEMMA NextKeepsFiles == HarnessTypeOK /\ FilesInv /\ [HarnessNext]_harnessVars => FilesInv'
<1> SUFFICES ASSUME HarnessTypeOK, FilesInv, [HarnessNext]_harnessVars, NEW q \in Pids
             PROVE  FilesFollow(q)'
  BY DEF FilesInv
<1>1. FilesFollow(q)
  BY DEF FilesInv
<1> USE <1>1 DEF FilesFollow, HarnessTypeOK, harness, statFiles, Move
<1>2. CASE UNCHANGED harnessVars
  BY <1>2 DEF harnessVars
<1>3. ASSUME NEW p \in Pids, StartHarness(p) PROVE FilesFollow(q)'
  BY <1>3 DEF StartHarness
<1>4. ASSUME NEW p \in Pids, OpenFallbackFile(p) PROVE FilesFollow(q)'
  BY <1>4, NothingAgrees DEF OpenFallbackFile
<1>5. ASSUME NEW p \in Pids, CustomMutator(p) PROVE FilesFollow(q)'
  <2>1. proc' = proc /\ UNCHANGED statFiles
    BY <1>5 DEF CustomMutator
  <2>2. CASE q = p
    <3>1. Agree(counters'[p], fallbacks'[p])
      BY <1>5, <2>2, MutatorKeepsAgree
    <3>2. proc[p] = "idle"
      BY <1>5 DEF CustomMutator
    <3> QED
      BY <2>1, <2>2, <3>1, <3>2
  <2>3. CASE q # p
    <3>1. counters'[q] = counters[q] /\ fallbacks'[q] = fallbacks[q]
      BY <1>5, <2>3
      DEF CustomMutator, NoMutation, ApplyFails, Unusable, Mutates, BumpStats, BumpFallback
    <3> QED
      BY <2>1, <2>3, <3>1
  <2> QED
    BY <2>2, <2>3
<1>6. ASSUME NEW p \in Pids, TestOneInput(p) PROVE FilesFollow(q)'
  BY <1>6 DEF TestOneInput
<1>7. ASSUME NEW p \in Pids, FlushStats(p) PROVE FilesFollow(q)'
  BY <1>7 DEF FlushStats
<1>8. ASSUME NEW p \in Pids, FlushFallbacks(p) PROVE FilesFollow(q)'
  BY <1>8 DEF FlushFallbacks, FallbackRows
<1>9. ASSUME NEW p \in Pids, Execute(p) PROVE FilesFollow(q)'
  <2>1. proc[p] = "running" /\ proc' = [proc EXCEPT ![p] = "idle"] /\ UNCHANGED statFiles
    BY <1>9 DEF Execute
  <2>2. CASE q = p
    <3>1. Agree(counters'[p], fallbacks'[p])
      BY <1>9, <2>2, ExecuteKeepsAgree
    <3> QED
      BY <2>1, <2>2, <3>1
  <2>3. CASE q # p
    <3>1. counters'[q] = counters[q] /\ fallbacks'[q] = fallbacks[q]
      BY <1>9, <2>3 DEF Execute, BumpStats
    <3> QED
      BY <2>1, <2>3, <3>1
  <2> QED
    BY <2>2, <2>3
<1>10. ASSUME NEW p \in Pids, Exit(p) PROVE FilesFollow(q)'
  BY <1>10, NothingAgrees DEF Exit
<1> QED
  BY <1>2, <1>3, <1>4, <1>5, <1>6, <1>7, <1>8, <1>9, <1>10 DEF HarnessNext

(* The two tables of the dashboard tell the same, whenever a process was   *)
(* killed, however often, and whatever mutator an execution was credited   *)
(* to: unless it died between its two files.                               *)
THEOREM TablesCorrect == HarnessSpec => []TablesAgree
<1>1. HarnessInit => FilesInv
  BY NothingAgrees DEF HarnessInit, FilesInv, FilesFollow
<1>2. FilesInv => TablesAgree
  BY DEF FilesInv, FilesFollow, TablesAgree
<1> QED
  BY <1>1, <1>2, NextKeepsFiles, HarnessTypeCorrect, PTL DEF HarnessSpec

-----------------------------------------------------------------------------
(***************************************************************************)
(* Processes that upgrade an old database at once.  A fold is followed     *)
(* finding by finding, bucket by bucket; what makes an outdated list of    *)
(* NULL buckets harmless is that the id of a bucket that was folded lies   *)
(* below one that stays, and so is never handed out again.                 *)
(***************************************************************************)

(* A finite set of naturals that is not empty has a largest element: the   *)
(* one above which the fewest are.                                         *)
LEMMA MaxFacts ==
    ASSUME NEW S, IsFiniteSet(S), S \subseteq Nat, S # {}
    PROVE  Max(S) \in S /\ \A i \in S : i <= Max(S)
<1> DEFINE Above(x) == {y \in S : y > x}
           Segments == {Above(x) : x \in S}
           R == StrictSubsetOrdering(S)
<1>1. Segments \subseteq FiniteSubsetsOf(S)
  <2>1. \A x \in S : Above(x) \in SUBSET S
    OBVIOUS
  <2>2. \A x \in S : IsFiniteSet(Above(x))
    BY <2>1, FS_Subset
  <2> QED
    BY <2>1, <2>2 DEF FiniteSubsetsOf
<1>2. Segments # {}
  OBVIOUS
<1>3. IsWellFoundedOn(R, FiniteSubsetsOf(S))
  BY FS_StrictSubsetOrderingWellFounded
<1>4. PICK T \in Segments : \A U \in Segments : <<U, T>> \notin R
  <2> HIDE DEF R, Segments
  <2> QED
    BY <1>1, <1>2, <1>3, WFMin
<1>5. PICK x \in S : T = Above(x)
  OBVIOUS
<1>6. \A y \in S : ~(y > x)
  <2> SUFFICES ASSUME NEW y \in S, y > x PROVE FALSE
    OBVIOUS
  <2>1. y \in Nat /\ x \in Nat
    OBVIOUS
  <2>2. Above(y) \subseteq Above(x) /\ y \in Above(x) /\ y \notin Above(y)
    <3>1. \A z \in Above(y) : z \in S /\ z \in Nat /\ z > y
      OBVIOUS
    <3>2. \A z \in Above(y) : z \in S /\ z > x
      BY <2>1, <3>1
    <3>3. Above(y) \subseteq Above(x)
      BY <3>2
    <3>4. y \in Above(x)
      OBVIOUS
    <3>5. y \notin Above(y)
      BY <2>1
    <3> QED
      BY <3>3, <3>4, <3>5
  <2>3. <<Above(y), Above(x)>> \in R
    <3>1. Above(y) \in SUBSET S /\ Above(x) \in SUBSET S
      OBVIOUS
    <3> HIDE DEF Above
    <3> QED
      BY <2>2, <3>1 DEF StrictSubsetOrdering
  <2> QED
    BY <1>4, <1>5, <2>3
<1>7. \E n \in S : \A i \in S : n >= i
  BY <1>6
<1>8. Max(S) \in S /\ \A i \in S : Max(S) >= i
  BY <1>7, Zenon DEF Max
<1> QED
  BY <1>8

LEMMA MinFacts ==
    ASSUME NEW S, S \subseteq Nat, S # {}
    PROVE  Min(S) \in S
<1>1. \E x \in S : \A y \in S : x <= y
  BY Least
<1> QED
  BY <1>1, Zenon DEF Min

Sentinels == {Sentinel(o) : o \in Oracles}

(* The tables: a finding is in a bucket that exists; only NULL keys        *)
(* repeat, and a NULL bucket is older than any sentinel.                   *)
Finding == [oracle : Oracles, bucket : Nat]
BucketRow == [key : {"NULL"} \cup Passes \cup Sentinels, count : Nat, rep : Nat]
IsDB(db) ==
    /\ db = [buckets |-> db.buckets, findings |-> db.findings]
    /\ db.findings \in Seq(Finding)
    /\ IsFiniteSet(DOMAIN db.buckets) /\ DOMAIN db.buckets \subseteq Nat
    /\ db.buckets \in [DOMAIN db.buckets -> BucketRow]
    /\ \A f \in DOMAIN db.findings : db.findings[f].bucket \in DOMAIN db.buckets
Keyed(bs) ==
    \A b, c \in DOMAIN bs :
        /\ bs[b].key = bs[c].key => b = c \/ bs[b].key = "NULL"
        /\ bs[b].key = "NULL" /\ bs[c].key \in Sentinels => b < c

(* A bucket's row tells of its members.                                    *)
Tells(bs, fs, b) ==
    /\ bs[b].count = Cardinality(MembersIn(fs, b))
    /\ bs[b].rep \in MembersIn(fs, b)

(* An id that is no longer in use and will not be again.                   *)
Spent(bs, b) == b \notin DOMAIN bs /\ \E c \in DOMAIN bs : bs[c].key # "NULL" /\ b < c
Listed(bs, b) == (b \in DOMAIN bs /\ bs[b].key = "NULL") \/ Spent(bs, b)

SoundDB(db) == /\ IsDB(db) /\ Keyed(db.buckets)
               /\ \A b \in DOMAIN db.buckets : Tells(db.buckets, db.findings, b)

(* The id of a key: that of its bucket, or one above all others.           *)
LEMMA IdForFacts ==
    ASSUME NEW bs, IsFiniteSet(DOMAIN bs), DOMAIN bs \subseteq Nat, NEW key
    PROVE  /\ IdFor(bs, key) \in Nat
           /\ IF \E b \in DOMAIN bs : bs[b].key = key
              THEN IdFor(bs, key) \in DOMAIN bs /\ bs[IdFor(bs, key)].key = key
              ELSE IdFor(bs, key) \notin DOMAIN bs /\ \A b \in DOMAIN bs : b < IdFor(bs, key)
<1>1. CASE \E b \in DOMAIN bs : bs[b].key = key
  <2>1. IdFor(bs, key) = CHOOSE b \in DOMAIN bs : bs[b].key = key
    BY <1>1 DEF IdFor
  <2>2. IdFor(bs, key) \in DOMAIN bs /\ bs[IdFor(bs, key)].key = key
    BY <1>1, <2>1, Zenon
  <2> QED
    BY <1>1, <2>2
<1>2. CASE ~ \E b \in DOMAIN bs : bs[b].key = key
  <2>1. IdFor(bs, key) = FreshId(DOMAIN bs)
    BY <1>2 DEF IdFor
  <2>2. CASE DOMAIN bs = {}
    BY <1>2, <2>1, <2>2 DEF FreshId
  <2>3. CASE DOMAIN bs # {}
    <3>1. Max(DOMAIN bs) \in DOMAIN bs /\ \A b \in DOMAIN bs : b <= Max(DOMAIN bs)
      BY <2>3, MaxFacts
    <3>2. FreshId(DOMAIN bs) = 1 + Max(DOMAIN bs)
      BY <2>3 DEF FreshId
    <3> HIDE DEF FreshId
    <3> QED
      BY <1>2, <2>1, <3>1, <3>2
  <2> QED
    BY <2>2, <2>3
<1> QED
  BY <1>1, <1>2

(* Counting a finding in: it is member f of bucket b, which has a key that *)
(* is not NULL, and nothing else changes.                                  *)
CountsIn(bs, key, f, b, cs) ==
    /\ DOMAIN cs = DOMAIN bs \cup {b} /\ IsFiniteSet(DOMAIN cs) /\ b \in Nat
    /\ cs \in [DOMAIN cs -> BucketRow]
    /\ \A c \in DOMAIN bs : cs[c].key = bs[c].key
    /\ \A c \in DOMAIN bs \ {b} : cs[c] = bs[c]
    /\ cs[b].key = key
    /\ IF b \in DOMAIN bs THEN cs[b].count = bs[b].count + 1 /\ cs[b].rep = bs[b].rep
                           ELSE cs[b].count = 1 /\ cs[b].rep = f
    /\ Keyed(cs)
    /\ \A c : Spent(bs, c) => Spent(cs, c)

LEMMA WithFindingFacts ==
    ASSUME NEW bs, IsFiniteSet(DOMAIN bs), DOMAIN bs \subseteq Nat,
           bs \in [DOMAIN bs -> BucketRow], Keyed(bs),
           NEW key \in Passes \cup Sentinels, NEW f \in Nat
    PROVE  CountsIn(bs, key, f, IdFor(bs, key), WithFinding(bs, key, f))
<1> DEFINE b == IdFor(bs, key)
           cs == WithFinding(bs, key, f)
<1>1. key # "NULL" /\ Row(key, 1, f) \in BucketRow
  <2>1. "NULL" \notin Passes
    BY UpgradeAssumption
  <2> QED
    BY <2>1 DEF BucketRow, Row, Sentinels, Sentinel
<1>2. /\ b \in Nat
      /\ IF \E c \in DOMAIN bs : bs[c].key = key
         THEN b \in DOMAIN bs /\ bs[b].key = key
         ELSE b \notin DOMAIN bs /\ \A c \in DOMAIN bs : c < b
  BY IdForFacts
<1>3. cs = [c \in DOMAIN bs \cup {b} |->
              IF c # b THEN bs[c]
              ELSE IF b \in DOMAIN bs THEN CountedRow(bs[b]) ELSE Row(key, 1, f)]
  BY DEF WithFinding
<1> HIDE DEF b, cs
<1>4. \A r \in BucketRow : /\ CountedRow(r) \in BucketRow /\ CountedRow(r).key = r.key
                           /\ CountedRow(r).count = r.count + 1 /\ CountedRow(r).rep = r.rep
  BY DEF CountedRow, BucketRow
<1>5. IsFiniteSet(DOMAIN bs \cup {b})
  BY FS_AddElement
<1>6. /\ DOMAIN cs = DOMAIN bs \cup {b} /\ IsFiniteSet(DOMAIN cs)
      /\ cs \in [DOMAIN cs -> BucketRow]
      /\ \A c \in DOMAIN bs \ {b} : cs[c] = bs[c]
      /\ b \in DOMAIN bs => cs[b] = CountedRow(bs[b])
      /\ b \notin DOMAIN bs => cs[b] = Row(key, 1, f)
  BY <1>1, <1>3, <1>4, <1>5
<1>7. /\ \A c \in DOMAIN bs : cs[c].key = bs[c].key
      /\ cs[b].key = key
      /\ IF b \in DOMAIN bs THEN cs[b].count = bs[b].count + 1 /\ cs[b].rep = bs[b].rep
                            ELSE cs[b].count = 1 /\ cs[b].rep = f
  BY <1>2, <1>4, <1>6 DEF Row
<1>8. Keyed(cs)
  BY <1>1, <1>2, <1>6, <1>7 DEF Keyed
<1>9. \A c : Spent(bs, c) => Spent(cs, c)
  BY <1>2, <1>6, <1>7 DEF Spent
<1> QED
  BY <1>2, <1>6, <1>7, <1>8, <1>9 DEF CountsIn, b, cs

(* The members of a bucket are finitely many.                              *)
LEMMA MembersFacts ==
    ASSUME NEW fs \in Seq(Finding), NEW b
    PROVE  /\ DOMAIN fs = 1..Len(fs) /\ Len(fs) \in Nat
           /\ MembersIn(fs, b) \subseteq 1..Len(fs) /\ MembersIn(fs, b) \subseteq Nat
           /\ IsFiniteSet(MembersIn(fs, b)) /\ Cardinality(MembersIn(fs, b)) \in Nat
<1>1. DOMAIN fs = 1..Len(fs) /\ Len(fs) \in Nat
  OBVIOUS
<1>2. MembersIn(fs, b) \subseteq 1..Len(fs)
  BY <1>1 DEF MembersIn
<1>3. IsFiniteSet(1..Len(fs))
  BY <1>1, FS_Interval
<1>4. IsFiniteSet(MembersIn(fs, b)) /\ Cardinality(MembersIn(fs, b)) \in Nat
  BY <1>2, <1>3, FS_Subset, FS_CardinalityType
<1> QED
  BY <1>1, <1>2, <1>4

(* ... and its row tells of its members, as do the rows of the others.     *)
LEMMA CountedTells ==
    ASSUME NEW bs, NEW fs \in Seq(Finding), \A g \in DOMAIN fs : fs[g].bucket \in DOMAIN bs,
           bs \in [DOMAIN bs -> BucketRow],
           NEW key, NEW f, NEW n, NEW cs, CountsIn(bs, key, f, n, cs),
           NEW gs, f \notin MembersIn(fs, n), MembersIn(gs, n) = MembersIn(fs, n) \cup {f},
           NEW c \in DOMAIN cs, c # n => MembersIn(gs, c) = MembersIn(fs, c),
           c \in DOMAIN bs => Tells(bs, fs, c)
    PROVE  Tells(cs, gs, c)
<1>1. /\ DOMAIN cs = DOMAIN bs \cup {n}
      /\ \A a \in DOMAIN bs \ {n} : cs[a] = bs[a]
      /\ IF n \in DOMAIN bs THEN cs[n].count = bs[n].count + 1 /\ cs[n].rep = bs[n].rep
                             ELSE cs[n].count = 1 /\ cs[n].rep = f
  BY DEF CountsIn
<1>2. CASE c # n
  BY <1>1, <1>2 DEF Tells
<1>3. CASE c = n /\ n \in DOMAIN bs
  <2>1. bs[n].count = Cardinality(MembersIn(fs, n)) /\ bs[n].rep \in MembersIn(fs, n)
    BY <1>3 DEF Tells
  <2>2. IsFiniteSet(MembersIn(fs, n))
    BY MembersFacts
  <2>3. Cardinality(MembersIn(gs, n)) = Cardinality(MembersIn(fs, n)) + 1
    BY <2>2, FS_AddElement
  <2>4. cs[n].count = Cardinality(MembersIn(gs, n)) /\ cs[n].rep \in MembersIn(gs, n)
    BY <1>1, <1>3, <2>1, <2>3
  <2> QED
    BY <1>3, <2>4 DEF Tells
<1>4. CASE c = n /\ n \notin DOMAIN bs
  <2>1. MembersIn(fs, n) = {}
    BY <1>4 DEF MembersIn
  <2>2. MembersIn(gs, n) = {f} /\ Cardinality({f}) = 1
    BY <2>1, FS_Singleton
  <2>3. cs[n].count = Cardinality(MembersIn(gs, n)) /\ cs[n].rep \in MembersIn(gs, n)
    BY <1>1, <1>4, <2>2
  <2> QED
    BY <1>4, <2>3 DEF Tells
<1> QED
  BY <1>2, <1>3, <1>4

(* Moving one finding of a NULL bucket to the sentinel of its oracle.      *)
MovesOne(db, f, d) ==
    /\ IsDB(d) /\ Keyed(d.buckets)
    /\ DOMAIN d.findings = DOMAIN db.findings
    /\ \A g \in DOMAIN db.findings : g # f => d.findings[g] = db.findings[g]
    /\ d.findings[f].oracle = db.findings[f].oracle
    /\ d.buckets[d.findings[f].bucket].key = Sentinel(db.findings[f].oracle)
    /\ DOMAIN db.buckets \subseteq DOMAIN d.buckets
    /\ \A c \in DOMAIN db.buckets : d.buckets[c].key = db.buckets[c].key
    /\ \A c \in DOMAIN d.buckets \ DOMAIN db.buckets : d.buckets[c].key \in Sentinels
    /\ \A c \in DOMAIN d.buckets : c # db.findings[f].bucket => Tells(d.buckets, d.findings, c)
    /\ \A c : Spent(db.buckets, c) => Spent(d.buckets, c)

LEMMA MoveFindingFacts ==
    ASSUME NEW db, IsDB(db), Keyed(db.buckets), NEW f \in DOMAIN db.findings,
           db.buckets[db.findings[f].bucket].key = "NULL",
           \A c \in DOMAIN db.buckets : c # db.findings[f].bucket => Tells(db.buckets, db.findings, c)
    PROVE  MovesOne(db, f, MoveFinding(db, f))
<1>1. PICK d : d = MoveFinding(db, f)
  OBVIOUS
<1>2. PICK b : b = db.findings[f].bucket
  OBVIOUS
<1>3. PICK o : o = db.findings[f].oracle
  OBVIOUS
<1> DEFINE bs == db.buckets
           fs == db.findings
<1>4. PICK n : n = IdFor(bs, Sentinel(o))
  OBVIOUS
<1>5. PICK cs : cs = WithFinding(bs, Sentinel(o), f)
  OBVIOUS
<1>6. PICK gs : gs = [fs EXCEPT ![f].bucket = n]
  OBVIOUS
<1>7. d = [buckets |-> cs, findings |-> gs]
  BY <1>1, <1>3, <1>4, <1>5, <1>6 DEF MoveFinding
<1>8. /\ fs \in Seq(Finding) /\ DOMAIN fs = 1..Len(fs) /\ f \in Nat /\ f \in DOMAIN fs
      /\ fs[f] \in Finding /\ o \in Oracles /\ b \in DOMAIN bs
      /\ \A g \in DOMAIN fs : fs[g].bucket \in DOMAIN bs
      /\ IsFiniteSet(DOMAIN bs) /\ DOMAIN bs \subseteq Nat /\ bs \in [DOMAIN bs -> BucketRow]
  <2>1. fs \in Seq(Finding) /\ \A g \in DOMAIN fs : fs[g].bucket \in DOMAIN bs
    BY DEF IsDB
  <2>2. IsFiniteSet(DOMAIN bs) /\ DOMAIN bs \subseteq Nat /\ bs \in [DOMAIN bs -> BucketRow]
    BY DEF IsDB
  <2>3. f \in DOMAIN fs /\ b = fs[f].bucket /\ o = fs[f].oracle
    BY <1>2, <1>3
  <2> HIDE DEF fs, bs
  <2>4. DOMAIN fs = 1..Len(fs) /\ f \in Nat /\ fs[f] \in Finding
    BY <2>1, <2>3
  <2> QED
    BY <2>1, <2>2, <2>3, <2>4 DEF Finding
<1>9. Sentinel(o) \in Sentinels /\ Sentinel(o) # "NULL"
  BY <1>8 DEF Sentinels, Sentinel
<1> HIDE DEF bs, fs
<1>10. CountsIn(bs, Sentinel(o), f, n, cs)
  <2>1. Keyed(bs)
    BY DEF bs
  <2>2. Sentinel(o) \in Passes \cup Sentinels
    BY <1>9
  <2> QED
    BY <1>4, <1>5, <1>8, <2>1, <2>2, WithFindingFacts
<1>11. /\ DOMAIN cs = DOMAIN bs \cup {n} /\ IsFiniteSet(DOMAIN cs) /\ n \in Nat
       /\ cs \in [DOMAIN cs -> BucketRow]
       /\ \A c \in DOMAIN bs : cs[c].key = bs[c].key
       /\ \A c \in DOMAIN bs \ {n} : cs[c] = bs[c]
       /\ cs[n].key = Sentinel(o)
       /\ IF n \in DOMAIN bs THEN cs[n].count = bs[n].count + 1 /\ cs[n].rep = bs[n].rep
                              ELSE cs[n].count = 1 /\ cs[n].rep = f
       /\ Keyed(cs)
       /\ \A c : Spent(bs, c) => Spent(cs, c)
  BY <1>10 DEF CountsIn
<1>12. n # b
  BY <1>2, <1>8, <1>9, <1>11 DEF bs
<1>13. /\ gs \in Seq(Finding) /\ DOMAIN gs = DOMAIN fs
       /\ \A g \in DOMAIN fs : g # f => gs[g] = fs[g]
       /\ gs[f].oracle = o /\ gs[f].bucket = n
  <2>1. [fs[f] EXCEPT !.bucket = n] \in Finding
    BY <1>8, <1>11 DEF Finding
  <2>2. [fs[f] EXCEPT !.bucket = n].oracle = o /\ [fs[f] EXCEPT !.bucket = n].bucket = n
    BY <1>3, <1>8 DEF Finding, fs
  <2>3. gs = [fs EXCEPT ![f] = [fs[f] EXCEPT !.bucket = n]]
    BY <1>6
  <2> QED
    BY <1>8, <2>1, <2>2, <2>3
<1>14. IsDB(d)
  <2>1. \A g \in DOMAIN gs : gs[g].bucket \in DOMAIN cs
    BY <1>8, <1>13, <1>11
  <2>2. DOMAIN cs \subseteq Nat
    BY <1>8, <1>11
  <2> QED
    BY <1>7, <1>13, <1>11, <2>1, <2>2 DEF IsDB
<1>15. /\ f \notin MembersIn(fs, n) /\ MembersIn(gs, n) = MembersIn(fs, n) \cup {f}
       /\ \A c : c # b /\ c # n => MembersIn(gs, c) = MembersIn(fs, c)
  <2>1. fs[f].bucket = b /\ f \in DOMAIN fs
    BY <1>2 DEF fs
  <2> QED
    BY <1>8, <1>12, <1>13, <2>1 DEF MembersIn
<1>16. ASSUME NEW c \in DOMAIN cs, c # b PROVE Tells(cs, gs, c)
  <2>1. c \in DOMAIN bs => Tells(bs, fs, c)
    BY <1>2, <1>16 DEF bs, fs
  <2>2. c # n => MembersIn(gs, c) = MembersIn(fs, c)
    BY <1>15, <1>16
  <2> QED
    BY <1>8, <1>10, <1>15, <1>16, <2>1, <2>2, CountedTells
<1>17. d.buckets = cs /\ d.findings = gs
  BY <1>7
<1>18. \A c \in DOMAIN cs \ DOMAIN bs : cs[c].key \in Sentinels
  BY <1>9, <1>11
<1> QED
  <2>1. IsDB(d) /\ Keyed(d.buckets)
    BY <1>14, <1>17, <1>11
  <2>2. /\ DOMAIN d.findings = DOMAIN fs
        /\ \A g \in DOMAIN fs : g # f => d.findings[g] = fs[g]
        /\ d.findings[f].oracle = o
        /\ d.buckets[d.findings[f].bucket].key = Sentinel(o)
    BY <1>13, <1>17, <1>11
  <2>3. /\ DOMAIN bs \subseteq DOMAIN d.buckets
        /\ \A c \in DOMAIN bs : d.buckets[c].key = bs[c].key
        /\ \A c \in DOMAIN d.buckets \ DOMAIN bs : d.buckets[c].key \in Sentinels
        /\ \A c \in DOMAIN d.buckets : c # b => Tells(d.buckets, d.findings, c)
        /\ \A c : Spent(bs, c) => Spent(d.buckets, c)
    BY <1>16, <1>17, <1>11, <1>18
  <2> QED
    BY <1>1, <1>2, <1>3, <2>1, <2>2, <2>3 DEF bs, fs, MovesOne

-----------------------------------------------------------------------------
(* Below the smallest counterexample: what holds of a finite set whenever  *)
(* it holds of the set without its largest element, holds of every one.    *)
(* Bad is a set of sets.                                                   *)
LEMMA SmallestBad ==
    ASSUME NEW M, IsFiniteSet(M), M \subseteq Nat, NEW Bad \in SUBSET (SUBSET M),
           {} \notin Bad,
           \A S \in SUBSET M : S # {} /\ S \ {Max(S)} \notin Bad => S \notin Bad
    PROVE  Bad = {}
<1> SUFFICES ASSUME Bad # {} PROVE FALSE
  OBVIOUS
<1>1. \A S \in SUBSET M : IsFiniteSet(S) /\ Cardinality(S) \in Nat
  BY FS_Subset, FS_CardinalityType
<1> DEFINE T == {Cardinality(S) : S \in Bad}
<1>2. T \in SUBSET Nat /\ T # {}
  BY <1>1
<1>3. PICK k \in T : \A y \in T : k <= y
  BY <1>2, Least
<1>4. PICK S \in Bad : k = Cardinality(S)
  BY <1>3
<1>5. S # {} /\ Max(S) \in S
  BY <1>1, <1>4, MaxFacts
<1>6. S \ {Max(S)} \in Bad
  BY <1>5
<1>7. Cardinality(S \ {Max(S)}) = k - 1 /\ k \in Nat
  BY <1>1, <1>4, <1>5, FS_RemoveElement
<1>8. k - 1 \in T
  BY <1>6, <1>7
<1> HIDE DEF T
<1> QED
  BY <1>3, <1>7, <1>8

(* The findings of a set are moved one by one, in order.                   *)
MovesInOrder(db, M, f) ==
    /\ f[M] = MoveAll(db, M) /\ f[{}] = db
    /\ \A S \in SUBSET M : S # {} => f[S] = MoveFinding(f[S \ {Max(S)}], Max(S))

LEMMA MoveAllSteps ==
    ASSUME NEW db, NEW M, IsFiniteSet(M), M \subseteq Nat
    PROVE  \E f : MovesInOrder(db, M, f)
<1> DEFINE Def(g, S) == IF S = {} THEN db ELSE MoveFinding(g[S \ {Max(S)}], Max(S))
           f == CHOOSE g : g = [S \in SUBSET M |-> Def(g, S)]
           R == StrictSubsetOrdering(M)
<1>1. IsWellFoundedOn(R, SUBSET M)
  BY FS_StrictSubsetOrderingWellFounded, FS_FiniteSubsetsOfFinite
<1>2. WFDefOn(R, SUBSET M, Def)
  <2> SUFFICES ASSUME NEW g, NEW h, NEW S \in SUBSET M,
                      \A y \in SetLessThan(S, R, SUBSET M) : g[y] = h[y]
               PROVE  Def(g, S) = Def(h, S)
    BY DEF WFDefOn
  <2>1. CASE S = {}
    BY <2>1
  <2>2. CASE S # {}
    <3>1. Max(S) \in S
      BY <2>2, FS_Subset, MaxFacts
    <3>2. S \ {Max(S)} \in SetLessThan(S, R, SUBSET M)
      BY <3>1 DEF SetLessThan, StrictSubsetOrdering
    <3> QED
      BY <3>2
  <2> QED
    BY <2>1, <2>2
<1>3. OpDefinesFcn(f, SUBSET M, Def)
  BY DEF OpDefinesFcn
<1>4. WFInductiveDefines(f, SUBSET M, Def)
  <2> HIDE DEF f, Def, R
  <2> QED
    BY <1>1, <1>2, <1>3, WFInductiveDef, Zenon
<1>5. MoveAll(db, M) = f[M]
  BY DEF MoveAll, MapThenFoldSet
<1>6. f = [S \in SUBSET M |-> Def(f, S)]
  BY <1>4 DEF WFInductiveDefines
<1> HIDE DEF f
<1>7. MovesInOrder(db, M, f)
  BY <1>5, <1>6 DEF MovesInOrder
<1> QED
  BY <1>7

(* What the first findings S of bucket b have become when they are moved.  *)
Moving(db, b, S, d) ==
    /\ IsDB(d) /\ Keyed(d.buckets)
    /\ DOMAIN d.findings = DOMAIN db.findings
    /\ \A g \in DOMAIN db.findings \ S : d.findings[g] = db.findings[g]
    /\ \A g \in S : /\ d.findings[g].oracle = db.findings[g].oracle
                    /\ d.buckets[d.findings[g].bucket].key = Sentinel(db.findings[g].oracle)
    /\ DOMAIN db.buckets \subseteq DOMAIN d.buckets
    /\ \A c \in DOMAIN db.buckets : d.buckets[c].key = db.buckets[c].key
    /\ \A c \in DOMAIN d.buckets \ DOMAIN db.buckets : d.buckets[c].key \in Sentinels
    /\ \A c \in DOMAIN d.buckets : c # b => Tells(d.buckets, d.findings, c)
    /\ \A c : Spent(db.buckets, c) => Spent(d.buckets, c)

LEMMA MoveAllFacts ==
    ASSUME NEW db, SoundDB(db), NEW b \in DOMAIN db.buckets, db.buckets[b].key = "NULL"
    PROVE  Moving(db, b, MembersIn(db.findings, b), MoveAll(db, MembersIn(db.findings, b)))
<1>1. PICK M : M = MembersIn(db.findings, b)
  OBVIOUS
<1>2. IsDB(db) /\ db.findings \in Seq(Finding)
  BY DEF SoundDB, IsDB
<1>3. IsFiniteSet(M) /\ M \subseteq Nat
  BY <1>1, <1>2, MembersFacts
<1>4. PICK f : MovesInOrder(db, M, f)
  BY <1>3, MoveAllSteps
<1>5. /\ f[M] = MoveAll(db, M) /\ f[{}] = db
      /\ \A S \in SUBSET M : S # {} => f[S] = MoveFinding(f[S \ {Max(S)}], Max(S))
  BY <1>4 DEF MovesInOrder
<1> DEFINE Bad == {S \in SUBSET M : ~Moving(db, b, S, f[S])}
<1>6. {} \notin Bad
  BY <1>2, <1>5 DEF SoundDB, Moving
<1>7. ASSUME NEW S \in SUBSET M, S # {}, S \ {Max(S)} \notin Bad PROVE S \notin Bad
  <2>1. PICK x : x = Max(S)
    OBVIOUS
  <2>2. PICK U : U = S \ {x}
    OBVIOUS
  <2>3. x \in S
    BY <1>3, <1>7, <2>1, FS_Subset, MaxFacts
  <2>4. PICK e : e = f[U]
    OBVIOUS
  <2>5. Moving(db, b, U, e)
    BY <1>7, <2>1, <2>2, <2>4
  <2>6. PICK d : d = MoveFinding(e, x)
    OBVIOUS
  <2>7. f[S] = d
    BY <1>5, <1>7, <2>1, <2>2, <2>4, <2>6
  <2>8. x \in DOMAIN db.findings /\ db.findings[x].bucket = b
    BY <1>1, <2>3 DEF MembersIn
  <2>9. /\ x \in DOMAIN e.findings /\ e.findings[x] = db.findings[x]
        /\ IsDB(e) /\ Keyed(e.buckets) /\ e.buckets[b].key = "NULL"
        /\ \A c \in DOMAIN e.buckets : c # b => Tells(e.buckets, e.findings, c)
    BY <2>2, <2>5, <2>8 DEF Moving
  <2>10. MovesOne(e, x, d)
    BY <2>6, <2>8, <2>9, MoveFindingFacts
  <2>11. \A g \in DOMAIN e.findings : e.findings[g].bucket \in DOMAIN e.buckets
    BY <2>9 DEF IsDB
  <2>12. M \subseteq DOMAIN db.findings
    BY <1>1 DEF MembersIn
  <2>13. \A g \in S : /\ d.findings[g].oracle = db.findings[g].oracle
                     /\ d.buckets[d.findings[g].bucket].key
                           = Sentinel(db.findings[g].oracle)
    <3> TAKE g \in S
    <3>1. CASE g = x
      BY <2>9, <2>10, <3>1 DEF MovesOne
    <3>2. CASE g # x
      <4>1. g \in U /\ g \in DOMAIN e.findings
        BY <2>2, <2>5, <2>12, <3>2 DEF Moving
      <4>2. /\ e.findings[g].oracle = db.findings[g].oracle
            /\ e.buckets[e.findings[g].bucket].key = Sentinel(db.findings[g].oracle)
        BY <2>5, <4>1 DEF Moving
      <4> QED
        BY <2>10, <2>11, <3>2, <4>1, <4>2 DEF MovesOne
    <3> QED
      BY <3>1, <3>2
  <2>14. \A g \in DOMAIN db.findings \ S : d.findings[g] = db.findings[g]
    BY <2>2, <2>3, <2>5, <2>10 DEF Moving, MovesOne
  <2>15. \A c \in DOMAIN d.buckets \ DOMAIN db.buckets : d.buckets[c].key \in Sentinels
    BY <2>5, <2>10 DEF Moving, MovesOne
  <2>16. Moving(db, b, S, d)
    BY <2>5, <2>8, <2>9, <2>10, <2>13, <2>14, <2>15 DEF Moving, MovesOne
  <2> QED
    BY <2>7, <2>16
<1>8. Bad = {}
  <2>1. Bad \in SUBSET (SUBSET M)
    OBVIOUS
  <2> HIDE DEF Bad
  <2> QED
    BY <1>3, <1>6, <1>7, <2>1, SmallestBad
<1> QED
  BY <1>1, <1>5, <1>8

(* What has become of the database when the NULL buckets of S, which may   *)
(* be gone already, have been folded.                                      *)
FoldedInto(db, S, e) ==
    /\ SoundDB(e)
    /\ DOMAIN e.findings = DOMAIN db.findings
    /\ \A g \in DOMAIN db.findings :
          \/ e.findings[g] = db.findings[g]
          \/ /\ db.buckets[db.findings[g].bucket].key = "NULL"
             /\ e.findings[g].oracle = db.findings[g].oracle
             /\ e.buckets[e.findings[g].bucket].key = Sentinel(db.findings[g].oracle)
    /\ \A c \in DOMAIN db.buckets \ S : c \in DOMAIN e.buckets /\ e.buckets[c].key = db.buckets[c].key
    /\ \A c \in DOMAIN e.buckets \ DOMAIN db.buckets : e.buckets[c].key \in Sentinels
    /\ \A c : Spent(db.buckets, c) => Spent(e.buckets, c)
    /\ \A c \in S : Spent(e.buckets, c)

(* One bucket: its findings leave, and its id is not used again.  If it is *)
(* gone, nothing happens.                                                  *)
LEMMA MoveThenDropFacts ==
    ASSUME NEW db, SoundDB(db), NEW b, Listed(db.buckets, b)
    PROVE  FoldedInto(db, {b}, MoveThenDrop(db, b))
<1>1. PICK M : M = MembersIn(db.findings, b)
  OBVIOUS
<1>2. PICK d : d = MoveAll(db, M)
  OBVIOUS
<1>3. PICK cs : cs = Dropped(d.buckets, {b})
  OBVIOUS
<1>4. PICK e : e = MoveThenDrop(db, b)
  OBVIOUS
<1>5. IsDB(db) /\ Keyed(db.buckets) /\ Sentinels \cap {"NULL"} = {}
  BY DEF SoundDB, Sentinels, Sentinel
<1>6. /\ db.findings \in Seq(Finding)
      /\ \A f \in DOMAIN db.findings : db.findings[f].bucket \in DOMAIN db.buckets
  BY <1>5 DEF IsDB
<1>7. e = [d EXCEPT !.buckets = cs]
  BY <1>1, <1>2, <1>3, <1>4 DEF MoveThenDrop
<1>8. /\ DOMAIN cs = DOMAIN d.buckets \ {b}
      /\ \A c \in DOMAIN d.buckets \ {b} : cs[c] = d.buckets[c]
      /\ cs = [c \in DOMAIN d.buckets \ {b} |-> d.buckets[c]]
  BY <1>3 DEF Dropped, Restrict
<1>9. CASE b \notin DOMAIN db.buckets
  <2>1. M = {} /\ IsFiniteSet({}) /\ {} \subseteq Nat
    BY <1>1, <1>6, <1>9, FS_EmptySet DEF MembersIn
  <2>2. PICK f : MovesInOrder(db, {}, f)
    BY <2>1, MoveAllSteps
  <2>3. d = db
    BY <1>2, <2>1, <2>2 DEF MovesInOrder
  <2>4. cs = db.buckets
    BY <1>5, <1>8, <1>9, <2>3 DEF IsDB
  <2>5. e = db
    BY <1>5, <1>7, <2>3, <2>4 DEF IsDB
  <2>6. Spent(db.buckets, b)
    BY <1>9 DEF Listed
  <2> QED
    BY <1>4, <1>9, <2>5, <2>6 DEF FoldedInto
<1>10. CASE b \in DOMAIN db.buckets
  <2>1. db.buckets[b].key = "NULL"
    BY <1>10 DEF Listed, Spent
  <2>2. Moving(db, b, M, d)
    BY <1>1, <1>2, <1>10, <2>1, MoveAllFacts
  <2>3. IsDB(d) /\ Keyed(d.buckets) /\ b \in DOMAIN d.buckets /\ d.buckets[b].key = "NULL"
    BY <1>10, <2>1, <2>2 DEF Moving
  <2>4. e.buckets = cs /\ e.findings = d.findings /\ e = [buckets |-> cs, findings |-> d.findings]
    BY <1>7, <2>3 DEF IsDB
  <2>5. \A g \in DOMAIN d.findings : d.findings[g].bucket \in DOMAIN d.buckets \ {b}
    <3>1. \A g \in DOMAIN d.findings : d.findings[g].bucket \in DOMAIN d.buckets
      BY <2>3 DEF IsDB
    <3>2. \A g \in M : d.buckets[d.findings[g].bucket].key # "NULL"
      BY <2>2 DEF Moving, Sentinel
    <3>3. \A g \in DOMAIN d.findings \ M : d.findings[g].bucket # b
      BY <1>1, <2>2 DEF Moving, MembersIn
    <3> QED
      BY <2>3, <3>1, <3>2, <3>3
  <2>6. IsDB(e)
    <3>1. d.findings \in Seq(Finding) /\ IsFiniteSet(DOMAIN d.buckets) /\ DOMAIN d.buckets \subseteq Nat
      BY <2>3 DEF IsDB
    <3>2. cs \in [DOMAIN cs -> BucketRow]
      BY <1>8, <2>3 DEF IsDB
    <3>3. IsFiniteSet(DOMAIN cs) /\ DOMAIN cs \subseteq Nat
      BY <1>8, <3>1, FS_Subset
    <3>4. \A g \in DOMAIN d.findings : d.findings[g].bucket \in DOMAIN cs
      BY <1>8, <2>5
    <3> QED
      BY <2>4, <3>1, <3>2, <3>3, <3>4 DEF IsDB
  <2>7. Keyed(cs)
    BY <1>8, <2>3 DEF Keyed
  <2>8. \A c \in DOMAIN cs : Tells(cs, d.findings, c)
    BY <1>8, <2>2 DEF Moving, Tells
  <2>9. \A c : Spent(d.buckets, c) => Spent(cs, c)
    BY <1>8, <2>3 DEF Spent
  <2>10. Spent(cs, b)
    <3>1. PICK f \in M : TRUE
      BY <1>1, <1>10 DEF SoundDB, Tells
    <3>2. f \in DOMAIN db.findings /\ db.findings[f].oracle \in Oracles
      <4>1. f \in DOMAIN db.findings
        BY <1>1 DEF MembersIn
      <4>2. db.findings[f] \in Finding
        BY <1>6, <4>1
      <4> QED
        BY <4>1, <4>2 DEF Finding
    <3>3. d.buckets[d.findings[f].bucket].key \in Sentinels
      BY <2>2, <3>1, <3>2 DEF Moving, Sentinels
    <3>4. PICK a \in DOMAIN d.buckets \ {b} : d.buckets[a].key \in Sentinels
      BY <2>2, <2>5, <3>2, <3>3 DEF Moving
    <3>5. b < a
      BY <2>3, <3>4 DEF Keyed
    <3> QED
      BY <1>5, <1>8, <3>4, <3>5 DEF Spent
  <2>11. SoundDB(e)
    BY <2>4, <2>6, <2>7, <2>8 DEF SoundDB
  <2>12. \A g \in DOMAIN db.findings :
            \/ e.findings[g] = db.findings[g]
            \/ /\ db.buckets[db.findings[g].bucket].key = "NULL"
               /\ e.findings[g].oracle = db.findings[g].oracle
               /\ e.buckets[e.findings[g].bucket].key = Sentinel(db.findings[g].oracle)
    <3> TAKE g \in DOMAIN db.findings
    <3>1. CASE g \notin M
      BY <2>2, <2>4, <3>1 DEF Moving
    <3>2. CASE g \in M
      <4>1. db.findings[g].bucket = b /\ g \in DOMAIN d.findings
        BY <1>1, <2>2, <3>2 DEF MembersIn, Moving
      <4>2. cs[d.findings[g].bucket] = d.buckets[d.findings[g].bucket]
        BY <1>8, <2>5, <4>1
      <4> QED
        BY <2>1, <2>2, <2>4, <3>2, <4>1, <4>2 DEF Moving
    <3> QED
      BY <3>1, <3>2
  <2>13. /\ DOMAIN e.findings = DOMAIN db.findings
         /\ \A c \in DOMAIN db.buckets \ {b} :
               c \in DOMAIN e.buckets /\ e.buckets[c].key = db.buckets[c].key
         /\ \A c \in DOMAIN e.buckets \ DOMAIN db.buckets : e.buckets[c].key \in Sentinels
         /\ \A c : Spent(db.buckets, c) => Spent(e.buckets, c)
    BY <1>8, <2>2, <2>4, <2>9 DEF Moving
  <2> QED
    BY <1>4, <2>4, <2>10, <2>11, <2>12, <2>13 DEF FoldedInto
<1> QED
  BY <1>9, <1>10

(* One bucket after others.                                                *)
LEMMA OneMoreFolded ==
    ASSUME NEW db, SoundDB(db), NEW S, NEW e, FoldedInto(db, S, e),
           NEW b, b \notin S, Listed(db.buckets, b)
    PROVE  FoldedInto(db, S \cup {b}, MoveThenDrop(e, b))
<1>1. PICK h : h = MoveThenDrop(e, b)
  OBVIOUS
<1>2. SoundDB(e) /\ Listed(e.buckets, b)
  BY DEF FoldedInto, Listed
<1>3. FoldedInto(e, {b}, h)
  BY <1>1, <1>2, MoveThenDropFacts
<1>4. /\ \A g \in DOMAIN e.findings : e.findings[g].bucket \in DOMAIN e.buckets
      /\ \A g \in DOMAIN db.findings : db.findings[g].bucket \in DOMAIN db.buckets
  BY <1>2 DEF SoundDB, IsDB
<1>5. \A c \in S \cup {b} : Spent(h.buckets, c) /\ c \notin DOMAIN h.buckets
  BY <1>3 DEF FoldedInto, Spent
<1>6. \A c \in DOMAIN db.buckets \ (S \cup {b}) :
         c \in DOMAIN h.buckets /\ h.buckets[c].key = db.buckets[c].key
  BY <1>3 DEF FoldedInto
<1>7. \A c \in DOMAIN h.buckets \ DOMAIN db.buckets : h.buckets[c].key \in Sentinels
  <2> TAKE c \in DOMAIN h.buckets \ DOMAIN db.buckets
  <2>1. CASE c \in DOMAIN e.buckets
    <3>1. c # b
      BY <1>5
    <3> QED
      BY <1>3, <2>1, <3>1 DEF FoldedInto
  <2>2. CASE c \notin DOMAIN e.buckets
    BY <1>3, <2>2 DEF FoldedInto
  <2> QED
    BY <2>1, <2>2
<1>8. \A g \in DOMAIN db.findings :
         \/ h.findings[g] = db.findings[g]
         \/ /\ db.buckets[db.findings[g].bucket].key = "NULL"
            /\ h.findings[g].oracle = db.findings[g].oracle
            /\ h.buckets[h.findings[g].bucket].key = Sentinel(db.findings[g].oracle)
  <2> TAKE g \in DOMAIN db.findings
  <2>1. g \in DOMAIN e.findings /\ e.findings[g].bucket \in DOMAIN e.buckets
    BY <1>4 DEF FoldedInto
  <2>2. CASE e.findings[g] = db.findings[g]
    <3>1. db.findings[g].bucket \in DOMAIN db.buckets /\ db.findings[g].bucket \in DOMAIN e.buckets
      BY <1>4, <2>1, <2>2
    <3>2. db.findings[g].bucket \notin S
      BY <3>1 DEF FoldedInto, Spent
    <3>3. e.buckets[db.findings[g].bucket].key = db.buckets[db.findings[g].bucket].key
      BY <3>1, <3>2 DEF FoldedInto
    <3> QED
      BY <1>3, <2>1, <2>2, <3>3 DEF FoldedInto
  <2>3. CASE /\ db.buckets[db.findings[g].bucket].key = "NULL"
             /\ e.findings[g].oracle = db.findings[g].oracle
             /\ e.buckets[e.findings[g].bucket].key = Sentinel(db.findings[g].oracle)
    <3>1. e.buckets[e.findings[g].bucket].key # "NULL"
      BY <2>3 DEF Sentinel
    <3>2. h.findings[g] = e.findings[g]
      BY <1>3, <2>1, <3>1 DEF FoldedInto
    <3>3. e.findings[g].bucket # b
      BY <1>2, <2>1, <3>1 DEF Listed, Spent
    <3>4. h.buckets[e.findings[g].bucket].key = e.buckets[e.findings[g].bucket].key
      BY <1>3, <2>1, <3>3 DEF FoldedInto
    <3> QED
      BY <2>3, <3>2, <3>4
  <2> QED
    BY <2>2, <2>3 DEF FoldedInto
<1>9. /\ SoundDB(h) /\ DOMAIN h.findings = DOMAIN db.findings
      /\ \A c : Spent(db.buckets, c) => Spent(h.buckets, c)
  BY <1>3 DEF FoldedInto
<1> QED
  BY <1>1, <1>5, <1>6, <1>7, <1>8, <1>9 DEF FoldedInto

(* The buckets of a list are folded one by one, in order.                  *)
FoldsInOrder(db, nulls, f) ==
    /\ f[nulls] = MapThenFoldSet(LAMBDA b, e : MoveThenDrop(e, b), db, LAMBDA b : b, Max, nulls)
    /\ f[{}] = db
    /\ \A S \in SUBSET nulls : S # {} => f[S] = MoveThenDrop(f[S \ {Max(S)}], Max(S))

LEMMA FoldSteps ==
    ASSUME NEW db, NEW nulls, IsFiniteSet(nulls), nulls \subseteq Nat
    PROVE  \E f : FoldsInOrder(db, nulls, f)
<1> DEFINE Def(g, S) == IF S = {} THEN db ELSE MoveThenDrop(g[S \ {Max(S)}], Max(S))
           f == CHOOSE g : g = [S \in SUBSET nulls |-> Def(g, S)]
           R == StrictSubsetOrdering(nulls)
<1>1. IsWellFoundedOn(R, SUBSET nulls)
  BY FS_StrictSubsetOrderingWellFounded, FS_FiniteSubsetsOfFinite
<1>2. WFDefOn(R, SUBSET nulls, Def)
  <2> SUFFICES ASSUME NEW g, NEW h, NEW S \in SUBSET nulls,
                      \A y \in SetLessThan(S, R, SUBSET nulls) : g[y] = h[y]
               PROVE  Def(g, S) = Def(h, S)
    BY DEF WFDefOn
  <2>1. CASE S = {}
    BY <2>1
  <2>2. CASE S # {}
    <3>1. Max(S) \in S
      BY <2>2, FS_Subset, MaxFacts
    <3>2. S \ {Max(S)} \in SetLessThan(S, R, SUBSET nulls)
      BY <3>1 DEF SetLessThan, StrictSubsetOrdering
    <3> QED
      BY <3>2
  <2> QED
    BY <2>1, <2>2
<1>3. OpDefinesFcn(f, SUBSET nulls, Def)
  BY DEF OpDefinesFcn
<1>4. WFInductiveDefines(f, SUBSET nulls, Def)
  <2> HIDE DEF f, Def, R
  <2> QED
    BY <1>1, <1>2, <1>3, WFInductiveDef, Zenon
<1>5. MapThenFoldSet(LAMBDA b, e : MoveThenDrop(e, b), db, LAMBDA b : b, Max, nulls) = f[nulls]
  BY DEF MapThenFoldSet
<1>6. f = [S \in SUBSET nulls |-> Def(f, S)]
  BY <1>4 DEF WFInductiveDefines
<1> HIDE DEF f
<1>7. FoldsInOrder(db, nulls, f)
  BY <1>5, <1>6 DEF FoldsInOrder
<1> QED
  BY <1>7

LEMMA FoldedFacts ==
    ASSUME NEW db, db = [buckets |-> bucketRows, findings |-> foundIn], SoundDB(db),
           NEW nulls, IsFiniteSet(nulls), nulls \subseteq Nat,
           \A b \in nulls : Listed(bucketRows, b)
    PROVE  FoldedInto(db, nulls, Folded(nulls))
<1>1. PICK f : FoldsInOrder(db, nulls, f)
  BY FoldSteps
<1>2. f[nulls] = Folded(nulls)
  BY <1>1 DEF FoldsInOrder, Folded
<1> DEFINE Bad == {S \in SUBSET nulls : ~FoldedInto(db, S, f[S])}
<1>3. {} \notin Bad
  BY <1>1 DEF FoldsInOrder, FoldedInto
<1>4. ASSUME NEW S \in SUBSET nulls, S # {}, S \ {Max(S)} \notin Bad PROVE S \notin Bad
  <2>1. PICK b : b = Max(S)
    OBVIOUS
  <2>2. PICK U : U = S \ {b}
    OBVIOUS
  <2>3. b \in S /\ S = U \cup {b} /\ b \notin U
    <3>1. IsFiniteSet(S) /\ S \subseteq Nat
      BY FS_Subset
    <3>2. Max(S) \in S
      BY <1>4, <3>1, MaxFacts
    <3> QED
      BY <2>1, <2>2, <3>2
  <2>4. f[S] = MoveThenDrop(f[U], b)
    BY <1>1, <1>4, <2>1, <2>2 DEF FoldsInOrder
  <2>5. FoldedInto(db, U, f[U])
    BY <1>4, <2>1, <2>2
  <2>6. Listed(db.buckets, b)
    BY <2>3
  <2>7. FoldedInto(db, U \cup {b}, MoveThenDrop(f[U], b))
    BY <2>3, <2>5, <2>6, OneMoreFolded
  <2> QED
    BY <2>3, <2>4, <2>7
<1>5. Bad = {}
  <2>1. Bad \in SUBSET (SUBSET nulls)
    OBVIOUS
  <2> HIDE DEF Bad
  <2> QED
    BY <1>3, <1>4, <2>1, SmallestBad
<1> QED
  BY <1>2, <1>5

-----------------------------------------------------------------------------
(* Why connect() can be run by several processes at once: the database is  *)
(* sound at every step; a process that is to fold has all NULL buckets on  *)
(* its list, and what else is on it is gone for good.                      *)
OpenSteps == {"start", "adding", "columns", "rebuilding", "nullable", "folding", "open", "registered",
          "failed"}
Database == [buckets |-> bucketRows, findings |-> foundIn]
NoNulls == \A b \in DOMAIN bucketRows : bucketRows[b].key # "NULL"

OpeningOK(p) ==
    /\ opening[p].at \in OpenSteps /\ opening[p].nulls \in SUBSET Nat
    /\ opening[p].at \notin {"start", "adding", "failed"} => hasRunId
    /\ opening[p].at \in {"nullable", "folding", "open", "registered"} => ~notNull
    /\ opening[p].at = "folding" =>
          /\ IsFiniteSet(opening[p].nulls)
          /\ \A b \in opening[p].nulls : Listed(bucketRows, b)
          /\ \A b \in DOMAIN bucketRows : bucketRows[b].key = "NULL" => b \in opening[p].nulls
    /\ opening[p].at \in {"open", "registered"} => NoNulls

UpgradeInv ==
    /\ hasRunId \in BOOLEAN /\ notNull \in BOOLEAN
    /\ SoundDB(Database)
    /\ opening \in [Openers -> [at : OpenSteps, nulls : SUBSET Nat]]
    /\ \A p \in Openers : OpeningOK(p)

LEMMA UpgradeInitOK == UpgradeInit => UpgradeInv
<1> SUFFICES ASSUME UpgradeInit PROVE UpgradeInv
  OBVIOUS
<1>1. PICK old \in OldDatabases :
         /\ notNull \in {FALSE, \A b \in DOMAIN old.keys : old.keys[b] # "NULL"}
         /\ foundIn = old.findings
         /\ bucketRows = [b \in DOMAIN old.keys |->
                             Row(old.keys[b], Cardinality(MembersIn(old.findings, b)),
                                 Min(MembersIn(old.findings, b)))]
  BY DEF UpgradeInit
<1>2. PICK n : n = Len(old.keys)
  OBVIOUS
<1>3. /\ old.keys \in Seq({"NULL"} \cup Passes) /\ n \in Nat /\ DOMAIN old.keys = 1..n
      /\ foundIn \in Seq([oracle : Oracles, bucket : 1..n])
      /\ \A b \in 1..n :
            /\ MembersIn(foundIn, b) # {} /\ old.keys[b] \in {"NULL"} \cup Passes
            /\ \A c \in 1..n : old.keys[b] = old.keys[c] => b = c \/ old.keys[b] = "NULL"
  <2>1. old.keys \in Seq({"NULL"} \cup Passes)
    BY UpgradeAssumption
  <2>2. n \in Nat /\ DOMAIN old.keys = 1..n
    BY <1>2, <2>1
  <2>3. \A b \in 1..n : old.keys[b] \in {"NULL"} \cup Passes
    BY <2>1, <2>2
  <2> QED
    BY <1>1, <2>1, <2>2, <2>3, UpgradeAssumption
<1>4. foundIn \in Seq(Finding)
  <2> DEFINE Old == [oracle : Oracles, bucket : 1..n]
  <2>1. Old \subseteq Finding
    BY <1>3 DEF Finding
  <2>2. foundIn \in Seq(Old)
    BY <1>3
  <2> HIDE DEF Old
  <2> QED
    BY <2>1, <2>2
<1>5. ASSUME NEW b \in 1..n
      PROVE  bucketRows[b] \in BucketRow /\ bucketRows[b].key = old.keys[b] /\ Tells(bucketRows, foundIn, b)
  <2>1. MembersIn(foundIn, b) \subseteq Nat /\ Cardinality(MembersIn(foundIn, b)) \in Nat
    BY <1>4, MembersFacts
  <2>2. Min(MembersIn(foundIn, b)) \in MembersIn(foundIn, b)
    BY <1>3, <2>1, MinFacts
  <2>3. bucketRows[b] = Row(old.keys[b], Cardinality(MembersIn(foundIn, b)), Min(MembersIn(foundIn, b)))
    BY <1>1, <1>3
  <2>4. old.keys[b] \in {"NULL"} \cup Passes
    BY <1>3
  <2> QED
    BY <2>1, <2>2, <2>3, <2>4 DEF Row, BucketRow, Tells
<1>6. DOMAIN bucketRows = 1..n /\ bucketRows \in [1..n -> BucketRow]
  BY <1>1, <1>3, <1>5
<1>7. IsDB(Database)
  <2>1. IsFiniteSet(1..n) /\ 1..n \subseteq Nat
    BY <1>3, FS_Interval
  <2>2. \A f \in DOMAIN foundIn : foundIn[f].bucket \in 1..n
    <3> DEFINE Old == [oracle : Oracles, bucket : 1..n]
    <3>1. foundIn \in Seq(Old)
      BY <1>3
    <3>2. \A r \in Old : r.bucket \in 1..n
      OBVIOUS
    <3> HIDE DEF Old
    <3>3. \A f \in DOMAIN foundIn : foundIn[f] \in Old
      BY <3>1
    <3> QED
      BY <3>2, <3>3
  <2> QED
    BY <1>4, <1>6, <2>1, <2>2 DEF IsDB, Database
<1>8. Keyed(bucketRows)
  <2>1. Sentinels \cap ({"NULL"} \cup Passes) = {}
    <3>1. Sentinels \cap Passes = {}
      BY UpgradeAssumption DEF Sentinels
    <3>2. "NULL" \notin Sentinels
      BY DEF Sentinels, Sentinel
    <3> QED
      BY <3>1, <3>2
  <2> QED
    BY <1>3, <1>5, <1>6, <2>1 DEF Keyed
<1>9. SoundDB(Database)
  BY <1>5, <1>6, <1>7, <1>8 DEF SoundDB, Database
<1>10. opening = [p \in Openers |-> [at |-> "start", nulls |-> {}]] /\ hasRunId \in BOOLEAN
  BY DEF UpgradeInit
<1>11. notNull \in BOOLEAN
  BY <1>1
<1> QED
  BY <1>9, <1>10, <1>11 DEF UpgradeInv, OpeningOK, OpenSteps

(* Moving on leaves the other processes where they are.                    *)
LEMMA GoToFacts ==
    ASSUME UpgradeInv, NEW p \in Openers, NEW s \in OpenSteps, GoTo(p, s)
    PROVE  /\ opening' \in [Openers -> [at : OpenSteps, nulls : SUBSET Nat]]
           /\ opening'[p].at = s /\ opening'[p].nulls = opening[p].nulls
           /\ \A q \in Openers : q # p => opening'[q] = opening[q]
<1>1. opening \in [Openers -> [at : OpenSteps, nulls : SUBSET Nat]]
  BY DEF UpgradeInv
<1>2. opening' = [opening EXCEPT ![p].at = s]
  BY DEF GoTo
<1>3. PICK o : o = opening[p]
  OBVIOUS
<1>4. [o EXCEPT !.at = s] \in [at : OpenSteps, nulls : SUBSET Nat]
  BY <1>1, <1>3
<1>5. [o EXCEPT !.at = s].at = s /\ [o EXCEPT !.at = s].nulls = o.nulls
  BY <1>1, <1>3
<1>6. opening' = [opening EXCEPT ![p] = [o EXCEPT !.at = s]]
  BY <1>2, <1>3
<1> QED
  BY <1>1, <1>3, <1>4, <1>5, <1>6

(* The steps that look, or change the layout: the rows stay.               *)
LEMMA LayoutStepKeeps ==
    ASSUME UpgradeInv, NEW p \in Openers,
           ReadColumns(p) \/ AddColumn(p) \/ ReadNotNull(p) \/ Rebuild(p) \/ FoldFails(p)
    PROVE  UpgradeInv'
<1>1. /\ UNCHANGED <<bucketRows, foundIn>>
      /\ hasRunId' \in BOOLEAN /\ notNull' \in BOOLEAN
      /\ hasRunId => hasRunId'
      /\ ~notNull => ~notNull'
  <2>1. hasRunId \in BOOLEAN /\ notNull \in BOOLEAN
    BY DEF UpgradeInv
  <2>2. CASE UNCHANGED tables
    BY <2>1, <2>2 DEF tables
  <2>3. CASE AddColumn(p)
    <3>1. hasRunId' = TRUE /\ UNCHANGED <<notNull, bucketRows, foundIn>>
      BY <2>3 DEF AddColumn
    <3> QED
      BY <2>1, <3>1
  <2>4. CASE Rebuild(p)
    <3>1. notNull' = FALSE /\ UNCHANGED <<hasRunId, bucketRows, foundIn>>
      BY <2>4 DEF Rebuild
    <3> QED
      BY <2>1, <3>1
  <2> QED
    BY <2>2, <2>3, <2>4 DEF ReadColumns, ReadNotNull, FoldFails
<1>2. PICK s \in {"adding", "columns", "rebuilding", "nullable", "failed"} : 
         /\ GoTo(p, s)
         /\ s \notin {"adding", "failed"} => hasRunId'
         /\ s = "nullable" => ~notNull'
  <2>1. OpeningOK(p) /\ hasRunId \in BOOLEAN
    BY DEF UpgradeInv
  <2>2. CASE ReadColumns(p)
    BY <2>2 DEF ReadColumns, tables
  <2>3. CASE AddColumn(p)
    BY <2>3 DEF AddColumn
  <2>4. CASE ReadNotNull(p)
    BY <2>1, <2>4 DEF ReadNotNull, tables, Opening, OpeningOK
  <2>5. CASE Rebuild(p)
    BY <2>1, <2>5 DEF Rebuild, tables, Opening, OpeningOK
  <2>6. CASE FoldFails(p)
    BY <2>6 DEF FoldFails
  <2> QED
    BY <2>2, <2>3, <2>4, <2>5, <2>6
<1>3. /\ opening' \in [Openers -> [at : OpenSteps, nulls : SUBSET Nat]]
      /\ opening'[p].at = s
      /\ \A q \in Openers : q # p => opening'[q] = opening[q]
  BY <1>2, GoToFacts DEF OpenSteps
<1>4. SoundDB(Database)'
  BY <1>1 DEF UpgradeInv, Database
<1>5. ASSUME NEW q \in Openers PROVE OpeningOK(q)'
  <2>1. opening'[q].at \in OpenSteps /\ opening'[q].nulls \in SUBSET Nat
    BY <1>3
  <2>2. CASE q = p
    BY <1>2, <1>3, <2>1, <2>2 DEF OpeningOK
  <2>3. CASE q # p
    BY <1>1, <1>3, <2>3 DEF UpgradeInv, OpeningOK, NoNulls
  <2> QED
    BY <2>2, <2>3
<1> QED
  BY <1>1, <1>3, <1>4, <1>5 DEF UpgradeInv

LEMMA ListNullsKeeps == ASSUME UpgradeInv, NEW p \in Openers, ListNulls(p) PROVE UpgradeInv'
<1> DEFINE nulls == {b \in DOMAIN bucketRows : bucketRows[b].key = "NULL"}
           step == IF nulls = {} THEN "open" ELSE "folding"
<1>1. /\ opening' = [opening EXCEPT ![p] = [at |-> step, nulls |-> nulls]]
      /\ UNCHANGED tables /\ opening[p].at = "nullable"
  BY DEF ListNulls, Opening
<1>2. IsFiniteSet(nulls) /\ nulls \subseteq Nat
  <2>1. IsFiniteSet(DOMAIN bucketRows) /\ DOMAIN bucketRows \subseteq Nat
    BY DEF UpgradeInv, SoundDB, IsDB, Database
  <2> QED
    BY <2>1, FS_Subset
<1>3. opening' \in [Openers -> [at : OpenSteps, nulls : SUBSET Nat]]
  <2>1. step \in OpenSteps
    BY DEF OpenSteps
  <2> QED
    BY <1>1, <1>2, <2>1 DEF UpgradeInv
<1>4. opening'[p].at = step /\ opening'[p].nulls = nulls
  BY <1>1 DEF UpgradeInv
<1>5. OpeningOK(p)'
  <2>1. hasRunId /\ ~notNull
    BY <1>1 DEF UpgradeInv, OpeningOK
  <2>2. nulls = {} => NoNulls
    BY DEF NoNulls
  <2>3. \A b \in nulls : Listed(bucketRows, b)
    BY DEF Listed
  <2>4. (step = "open" /\ nulls = {}) \/ step = "folding"
    OBVIOUS
  <2>5. \A b \in DOMAIN bucketRows : bucketRows[b].key = "NULL" => b \in nulls
    OBVIOUS
  <2>6. UNCHANGED <<hasRunId, notNull, bucketRows>>
    BY <1>1 DEF tables
  <2> HIDE DEF nulls, step
  <2> QED
    BY <1>2, <1>4, <2>1, <2>2, <2>3, <2>4, <2>5, <2>6 DEF OpeningOK, OpenSteps, NoNulls
<1>6. ASSUME NEW q \in Openers, q # p PROVE OpeningOK(q)'
  <2>1. opening'[q] = opening[q]
    BY <1>1, <1>6 DEF UpgradeInv
  <2> QED
    BY <1>1, <2>1 DEF UpgradeInv, OpeningOK, NoNulls, tables
<1>7. SoundDB(Database)' /\ hasRunId' \in BOOLEAN /\ notNull' \in BOOLEAN
  BY <1>1 DEF UpgradeInv, Database, tables
<1> QED
  BY <1>3, <1>5, <1>6, <1>7 DEF UpgradeInv

LEMMA FoldKeeps == ASSUME UpgradeInv, NEW p \in Openers, Fold(p) PROVE UpgradeInv'
<1>1. PICK nulls : nulls = opening[p].nulls
  OBVIOUS
<1>2. PICK e : e = Folded(nulls)
  OBVIOUS
<1>3. /\ bucketRows' = e.buckets /\ foundIn' = e.findings
      /\ GoTo(p, "open") /\ UNCHANGED <<hasRunId, notNull>>
      /\ opening[p].at = "folding"
  BY <1>1, <1>2 DEF Fold, Opening
<1>4. /\ IsFiniteSet(nulls) /\ nulls \subseteq Nat /\ hasRunId /\ ~notNull
      /\ \A b \in nulls : Listed(bucketRows, b)
      /\ \A b \in DOMAIN bucketRows : bucketRows[b].key = "NULL" => b \in nulls
  BY <1>1, <1>3 DEF UpgradeInv, OpeningOK
<1>5. FoldedInto(Database, nulls, e)
  BY <1>2, <1>4, FoldedFacts DEF UpgradeInv, Database
<1>6. Database.buckets = bucketRows /\ Database' = e
  BY <1>3, <1>5 DEF Database, FoldedInto, SoundDB, IsDB
<1>7. NoNulls'
  <2> SUFFICES ASSUME NEW b \in DOMAIN e.buckets PROVE e.buckets[b].key # "NULL"
    BY <1>3 DEF NoNulls
  <2>1. CASE b \in DOMAIN bucketRows
    <3>1. b \notin nulls
      BY <1>5 DEF FoldedInto, Spent
    <3> QED
      BY <1>4, <1>5, <1>6, <2>1, <3>1 DEF FoldedInto
  <2>2. CASE b \notin DOMAIN bucketRows
    BY <1>5, <1>6, <2>2 DEF FoldedInto, Sentinels, Sentinel
  <2> QED
    BY <2>1, <2>2
<1>8. \A b : Listed(bucketRows, b) => Listed(bucketRows', b)
  <2> SUFFICES ASSUME NEW b, Listed(bucketRows, b) PROVE Spent(e.buckets, b)
    BY <1>3 DEF Listed
  <2>1. CASE b \in DOMAIN bucketRows
    BY <1>4, <1>5, <2>1 DEF Listed, Spent, FoldedInto
  <2>2. CASE b \notin DOMAIN bucketRows
    BY <1>5, <1>6, <2>2 DEF Listed, FoldedInto
  <2> QED
    BY <2>1, <2>2
<1>9. /\ opening' \in [Openers -> [at : OpenSteps, nulls : SUBSET Nat]]
      /\ opening'[p].at = "open"
      /\ \A q \in Openers : q # p => opening'[q] = opening[q]
  BY <1>3, GoToFacts DEF OpenSteps
<1>10. ASSUME NEW q \in Openers PROVE OpeningOK(q)'
  <2>1. opening'[q].at \in OpenSteps /\ opening'[q].nulls \in SUBSET Nat
    BY <1>9
  <2>2. CASE q = p
    BY <1>3, <1>4, <1>7, <1>9, <2>1, <2>2 DEF OpeningOK
  <2>3. CASE q # p
    <3>1. opening'[q] = opening[q] /\ OpeningOK(q)
      BY <1>9, <2>3 DEF UpgradeInv
    <3> QED
      BY <1>3, <1>7, <1>8, <2>1, <3>1 DEF OpeningOK, NoNulls
  <2> QED
    BY <2>2, <2>3
<1>11. SoundDB(Database)' /\ hasRunId' \in BOOLEAN /\ notNull' \in BOOLEAN
  BY <1>3, <1>5, <1>6 DEF FoldedInto, UpgradeInv
<1> QED
  BY <1>9, <1>10, <1>11 DEF UpgradeInv

LEMMA RegisterOneKeeps == ASSUME UpgradeInv, NEW p \in Openers, RegisterOne(p) PROVE UpgradeInv'
<1>1. PICK oracle \in Oracles : \E key \in Passes \cup {Sentinel(oracle)} :
         /\ foundIn' = Append(foundIn, [oracle |-> oracle, bucket |-> IdFor(bucketRows, key)])
         /\ bucketRows' = WithFinding(bucketRows, key, Len(foundIn) + 1)
  BY DEF RegisterOne
<1>2. PICK key \in Passes \cup {Sentinel(oracle)} :
         /\ foundIn' = Append(foundIn, [oracle |-> oracle, bucket |-> IdFor(bucketRows, key)])
         /\ bucketRows' = WithFinding(bucketRows, key, Len(foundIn) + 1)
  BY <1>1
<1>3. GoTo(p, "registered") /\ UNCHANGED <<hasRunId, notNull>> /\ opening[p].at = "open"
  BY DEF RegisterOne, Opening
<1>4. PICK n : n = IdFor(bucketRows, key)
  OBVIOUS
<1>5. PICK cs : cs = bucketRows'
  OBVIOUS
<1>6. PICK gs : gs = foundIn'
  OBVIOUS
<1>7. PICK f : f = Len(foundIn) + 1
  OBVIOUS
<1>8. /\ foundIn \in Seq(Finding) /\ DOMAIN foundIn = 1..Len(foundIn) /\ f \in Nat
      /\ IsFiniteSet(DOMAIN bucketRows) /\ DOMAIN bucketRows \subseteq Nat
      /\ bucketRows \in [DOMAIN bucketRows -> BucketRow] /\ Keyed(bucketRows)
      /\ \A g \in DOMAIN foundIn : foundIn[g].bucket \in DOMAIN bucketRows
      /\ \A b \in DOMAIN bucketRows : Tells(bucketRows, foundIn, b)
  <2>1. SoundDB(Database)
    BY DEF UpgradeInv
  <2>2. Database.buckets = bucketRows /\ Database.findings = foundIn
    BY DEF Database
  <2>3. foundIn \in Seq(Finding)
    BY <2>1, <2>2 DEF SoundDB, IsDB
  <2>4. DOMAIN foundIn = 1..Len(foundIn) /\ f \in Nat
    BY <1>7, <2>3
  <2> QED
    BY <2>1, <2>2, <2>3, <2>4 DEF SoundDB, IsDB
<1>9. key \in Passes \cup Sentinels /\ key # "NULL"
  <2>1. "NULL" \notin Passes
    BY UpgradeAssumption
  <2> QED
    BY <2>1 DEF Sentinels, Sentinel
<1>10. CountsIn(bucketRows, key, f, n, cs)
  BY <1>2, <1>4, <1>5, <1>7, <1>8, <1>9, WithFindingFacts
<1>11. /\ DOMAIN cs = DOMAIN bucketRows \cup {n} /\ IsFiniteSet(DOMAIN cs) /\ n \in Nat
       /\ cs \in [DOMAIN cs -> BucketRow]
       /\ \A c \in DOMAIN bucketRows : cs[c].key = bucketRows[c].key
       /\ cs[n].key = key /\ Keyed(cs)
       /\ \A c : Spent(bucketRows, c) => Spent(cs, c)
  BY <1>10 DEF CountsIn
<1>12. /\ gs \in Seq(Finding) /\ DOMAIN gs = DOMAIN foundIn \cup {f} /\ f \notin DOMAIN foundIn
       /\ \A g \in DOMAIN foundIn : gs[g] = foundIn[g]
       /\ gs[f].bucket = n
  <2>1. PICK r : r = [oracle |-> oracle, bucket |-> n]
    OBVIOUS
  <2>2. r \in Finding /\ r.bucket = n
    BY <1>11, <2>1 DEF Finding
  <2>3. gs = Append(foundIn, r)
    BY <1>2, <1>4, <1>6, <2>1
  <2> QED
    BY <1>7, <1>8, <2>2, <2>3
<1>13. /\ f \notin MembersIn(foundIn, n) /\ MembersIn(gs, n) = MembersIn(foundIn, n) \cup {f}
       /\ \A c : c # n => MembersIn(gs, c) = MembersIn(foundIn, c)
  BY <1>12 DEF MembersIn
<1>14. \A c \in DOMAIN cs : Tells(cs, gs, c)
  BY <1>8, <1>10, <1>13, CountedTells
<1>15. IsDB(Database)'
  <2>1. \A g \in DOMAIN gs : gs[g].bucket \in DOMAIN cs
    BY <1>8, <1>11, <1>12
  <2>2. DOMAIN cs \subseteq Nat
    BY <1>8, <1>11
  <2> QED
    BY <1>5, <1>6, <1>11, <1>12, <2>1, <2>2 DEF IsDB, Database
<1>16. SoundDB(Database)'
  BY <1>5, <1>6, <1>11, <1>14, <1>15 DEF SoundDB, Database
<1>17. \A b \in DOMAIN cs : cs[b].key = "NULL" => b \in DOMAIN bucketRows /\ bucketRows[b].key = "NULL"
  BY <1>9, <1>11
<1>18. \A b : Listed(bucketRows, b) => Listed(cs, b)
  BY <1>11 DEF Listed
<1>19. /\ opening' \in [Openers -> [at : OpenSteps, nulls : SUBSET Nat]]
       /\ opening'[p].at = "registered"
       /\ \A q \in Openers : q # p => opening'[q] = opening[q]
  BY <1>3, GoToFacts DEF OpenSteps
<1>20. ASSUME NEW q \in Openers PROVE OpeningOK(q)'
  <2>1. opening'[q].at \in OpenSteps /\ opening'[q].nulls \in SUBSET Nat
    BY <1>19
  <2>2. NoNulls => NoNulls'
    BY <1>5, <1>17 DEF NoNulls
  <2>3. CASE q = p
    <3>1. OpeningOK(p)
      BY DEF UpgradeInv
    <3> QED
      BY <1>3, <1>19, <2>1, <2>2, <2>3, <3>1 DEF OpeningOK
  <2>4. CASE q # p
    <3>1. opening'[q] = opening[q] /\ OpeningOK(q)
      BY <1>19, <2>4 DEF UpgradeInv
    <3> QED
      BY <1>3, <1>5, <1>17, <1>18, <2>1, <2>2, <3>1 DEF OpeningOK
  <2> QED
    BY <2>3, <2>4
<1> QED
  BY <1>3, <1>16, <1>19, <1>20 DEF UpgradeInv

LEMMA UpgradeKeepsInv == UpgradeInv /\ [UpgradeNext]_upgradeVars => UpgradeInv'
<1> SUFFICES ASSUME UpgradeInv, [UpgradeNext]_upgradeVars PROVE UpgradeInv'
  OBVIOUS
<1>1. CASE UNCHANGED upgradeVars
  BY <1>1 DEF UpgradeInv, OpeningOK, NoNulls, Database, upgradeVars, tables
<1>2. CASE \E p \in Openers : Connect(p)
  BY <1>2, LayoutStepKeeps, ListNullsKeeps, FoldKeeps, RegisterOneKeeps DEF Connect
<1> QED
  BY <1>1, <1>2 DEF UpgradeNext

(* Rows that tell of their findings, and nobody through before the upgrade.*)
LEMMA UpgradeInvSound == UpgradeInv => UpgradedIsSound
<1> SUFFICES ASSUME UpgradeInv PROVE UpgradedIsSound
  OBVIOUS
<1>1. Database.buckets = bucketRows /\ Database.findings = foundIn
  BY DEF Database
<1>2. \A b \in DOMAIN bucketRows : Tells(bucketRows, foundIn, b)
  BY <1>1 DEF UpgradeInv, SoundDB
<1>3. Keyed(bucketRows)
  BY <1>1 DEF UpgradeInv, SoundDB
<1>4. ASSUME NEW p \in Openers, opening[p].at \in {"open", "registered"}
      PROVE  hasRunId /\ ~notNull /\ NoNulls
  BY <1>4 DEF UpgradeInv, OpeningOK
<1> QED
  BY <1>2, <1>3, <1>4 DEF UpgradedIsSound, Tells, Keyed, NoNulls

(* However many processes connect() to an old database at once, its rows   *)
(* tell of its findings at every step, and who got through finds the       *)
(* layout and no NULL bucket.                                              *)
THEOREM UpgradeCorrect == UpgradeSpec => []UpgradedIsSound
BY UpgradeInvSound, UpgradeInitOK, UpgradeKeepsInv, PTL DEF UpgradeSpec

(* No finding is moved out of a bucket that has a key, though the lists of *)
(* NULL buckets are made outside the transaction that folds them.          *)
THEOREM FoldingCorrect == UpgradeSpec => OnlyNullsAreFolded
<1> DEFINE FoldStep ==
              \A f \in DOMAIN foundIn :
                 foundIn'[f] # foundIn[f] =>
                    /\ bucketRows[foundIn[f].bucket].key = "NULL"
                    /\ foundIn'[f].bucket \in DOMAIN bucketRows'
                    /\ bucketRows'[foundIn'[f].bucket].key = Sentinel(foundIn[f].oracle)
<1>1. UpgradeInv /\ [UpgradeNext]_upgradeVars => [FoldStep]_upgradeVars
  <2> SUFFICES ASSUME UpgradeInv, UpgradeNext PROVE FoldStep
    BY DEF FoldStep
  <2>1. PICK p \in Openers : Connect(p)
    BY DEF UpgradeNext
  <2>2. CASE UNCHANGED foundIn
    BY <2>2
  <2>3. CASE RegisterOne(p)
    <3>1. PICK r : foundIn' = Append(foundIn, r)
      BY <2>3 DEF RegisterOne
    <3>2. foundIn \in Seq(Finding)
      BY DEF UpgradeInv, SoundDB, IsDB, Database
    <3>3. \A f \in DOMAIN foundIn : foundIn'[f] = foundIn[f]
      BY <3>1, <3>2
    <3> QED
      BY <3>3
  <2>4. CASE Fold(p)
    <3>1. PICK nulls : nulls = opening[p].nulls
      OBVIOUS
    <3>2. PICK e : e = Folded(nulls)
      OBVIOUS
    <3>3. bucketRows' = e.buckets /\ foundIn' = e.findings /\ opening[p].at = "folding"
      BY <2>4, <3>1, <3>2 DEF Fold, Opening
    <3>4. IsFiniteSet(nulls) /\ nulls \subseteq Nat /\ \A b \in nulls : Listed(bucketRows, b)
      BY <3>1, <3>3 DEF UpgradeInv, OpeningOK
    <3>5. FoldedInto(Database, nulls, e)
      BY <3>2, <3>4, FoldedFacts DEF UpgradeInv, Database
    <3>6. Database.buckets = bucketRows /\ Database.findings = foundIn
      BY DEF Database
    <3>7. /\ DOMAIN foundIn' = DOMAIN foundIn
          /\ \A f \in DOMAIN foundIn' : foundIn'[f].bucket \in DOMAIN bucketRows'
      BY <3>3, <3>5, <3>6 DEF FoldedInto, SoundDB, IsDB
    <3> QED
      BY <3>3, <3>5, <3>6, <3>7 DEF FoldedInto
  <2> QED
    BY <2>1, <2>2, <2>3, <2>4
       DEF Connect, ReadColumns, AddColumn, ReadNotNull, Rebuild, ListNulls, FoldFails, tables
<1> QED
  BY <1>1, UpgradeInitOK, UpgradeKeepsInv, PTL DEF UpgradeSpec, OnlyNullsAreFolded

-----------------------------------------------------------------------------
(***************************************************************************)
(* Two renderers that publish a run.  What a page may link to grows with   *)
(* the findings; what a pass has still to write, and what must be there by *)
(* the time it gets to a stage, is followed through its stages.            *)
(***************************************************************************)

(* What a sequence of sequences holds when it is flattened.                *)
Holds(q, x) == \E i \in DOMAIN q : q[i] = x

(* Two sequences end to end hold what either of them holds.                *)
LEMMA ConcatHolds ==
    ASSUME NEW X, NEW q \in Seq(X), NEW r \in Seq(X)
    PROVE  q \o r \in Seq(X) /\ \A x : Holds(q \o r, x) <=> Holds(q, x) \/ Holds(r, x)
<1> SUFFICES ASSUME NEW x PROVE Holds(q \o r, x) <=> Holds(q, x) \/ Holds(r, x)
  OBVIOUS
<1>1. /\ DOMAIN (q \o r) = 1..(Len(q) + Len(r)) /\ Len(q) \in Nat /\ Len(r) \in Nat
      /\ DOMAIN q = 1..Len(q) /\ DOMAIN r = 1..Len(r)
      /\ \A i \in 1..(Len(q) + Len(r)) :
            (q \o r)[i] = IF i <= Len(q) THEN q[i] ELSE r[i - Len(q)]
  OBVIOUS
<1>2. ASSUME Holds(q \o r, x) PROVE Holds(q, x) \/ Holds(r, x)
  <2>1. PICK i \in 1..(Len(q) + Len(r)) : (q \o r)[i] = x
    BY <1>1, <1>2 DEF Holds
  <2>2. CASE i <= Len(q)
    BY <1>1, <2>1, <2>2 DEF Holds
  <2>3. CASE i > Len(q)
    <3>1. i - Len(q) \in DOMAIN r /\ r[i - Len(q)] = x
      BY <1>1, <2>1, <2>3
    <3> QED
      BY <3>1 DEF Holds
  <2> QED
    BY <1>1, <2>2, <2>3
<1>3. ASSUME Holds(q, x) PROVE Holds(q \o r, x)
  <2>1. PICK i \in 1..Len(q) : q[i] = x
    BY <1>1, <1>3 DEF Holds
  <2>2. i \in 1..(Len(q) + Len(r)) /\ (q \o r)[i] = x
    BY <1>1, <2>1
  <2> QED
    BY <1>1, <2>2 DEF Holds
<1>4. ASSUME Holds(r, x) PROVE Holds(q \o r, x)
  <2>1. PICK i \in 1..Len(r) : r[i] = x
    BY <1>1, <1>4 DEF Holds
  <2>2. i + Len(q) \in 1..(Len(q) + Len(r)) /\ (i + Len(q)) - Len(q) = i /\ ~(i + Len(q) <= Len(q))
    BY <1>1
  <2>3. (q \o r)[i + Len(q)] = x
    BY <1>1, <2>1, <2>2
  <2> QED
    BY <1>1, <2>2, <2>3 DEF Holds
<1> QED
  BY <1>2, <1>3, <1>4

(* Its recursive function takes the sequences one by one.                  *)
Flattens(q, f) ==
    /\ Len(q) # 0 => FlattenSeq(q) = f[Len(q)]
    /\ \A i \in 1..Len(q) : f[i] = IF i = 1 THEN q[1] ELSE f[i - 1] \o q[i]

LEMMA FlattenSteps == ASSUME NEW q, Len(q) \in Nat PROVE \E f : Flattens(q, f)
<1> DEFINE Def(g, i) == IF i = 1 THEN q[i] ELSE g[i - 1] \o q[i]
           D == 1..Len(q)
           f == CHOOSE g : g = [i \in D |-> Def(g, i)]
           R == OpToRel(<, Nat)
<1>1. IsWellFoundedOn(R, D)
  <2>1. D \in SUBSET Nat
    OBVIOUS
  <2> HIDE DEF D
  <2> QED
    BY <2>1, NatLessThanWellFounded, IsWellFoundedOnSubset
<1>2. WFDefOn(R, D, Def)
  <2> SUFFICES ASSUME NEW g, NEW h, NEW i \in D, \A y \in SetLessThan(i, R, D) : g[y] = h[y]
               PROVE  Def(g, i) = Def(h, i)
    BY DEF WFDefOn
  <2>1. CASE i = 1
    BY <2>1
  <2>2. CASE i # 1
    <3>1. i - 1 \in SetLessThan(i, R, D)
      BY <2>2 DEF SetLessThan, OpToRel
    <3> QED
      BY <3>1
  <2> QED
    BY <2>1, <2>2
<1>3. OpDefinesFcn(f, D, Def)
  BY DEF OpDefinesFcn
<1>4. WFInductiveDefines(f, D, Def)
  <2> HIDE DEF f, Def, R, D
  <2> QED
    BY <1>1, <1>2, <1>3, WFInductiveDef, Zenon
<1>5. Len(q) # 0 => FlattenSeq(q) = f[Len(q)]
  BY DEF FlattenSeq
<1>6. f = [i \in D |-> Def(f, i)]
  BY <1>4 DEF WFInductiveDefines
<1> HIDE DEF f
<1>7. Flattens(q, f)
  BY <1>5, <1>6 DEF Flattens
<1> QED
  BY <1>7

(* Flattened, they hold what any of them holds.                            *)
LEMMA FlattenHolds ==
    ASSUME NEW X, NEW q \in Seq(Seq(X))
    PROVE  /\ FlattenSeq(q) \in Seq(X)
           /\ \A x : Holds(FlattenSeq(q), x) <=> \E i \in DOMAIN q : Holds(q[i], x)
<1>1. DOMAIN q = 1..Len(q) /\ Len(q) \in Nat /\ \A i \in 1..Len(q) : q[i] \in Seq(X)
  OBVIOUS
<1>2. CASE Len(q) = 0
  <2>1. FlattenSeq(q) = q /\ DOMAIN q = {} /\ q \in Seq(X)
    BY <1>1, <1>2 DEF FlattenSeq
  <2> QED
    BY <2>1 DEF Holds
<1>3. CASE Len(q) # 0
  <2>1. PICK f : Flattens(q, f)
    BY <1>1, FlattenSteps
  <2> DEFINE Good(n) == /\ f[n] \in Seq(X)
                        /\ \A x : Holds(f[n], x) <=> \E i \in 1..n : Holds(q[i], x)
             Bad == {n \in 1..Len(q) : ~Good(n)}
  <2>2. Good(1)
    <3>1. f[1] = q[1] /\ q[1] \in Seq(X) /\ 1..1 = {1}
      BY <1>1, <1>3, <2>1 DEF Flattens
    <3> QED
      BY <3>1
  <2>3. ASSUME NEW n \in 2..Len(q), Good(n - 1) PROVE Good(n)
    <3>1. f[n] = f[n - 1] \o q[n] /\ q[n] \in Seq(X) /\ 1..n = 1..(n - 1) \cup {n}
      <4>1. n \in 1..Len(q) /\ n # 1 /\ 1..n = 1..(n - 1) \cup {n}
        BY <1>1
      <4>2. f[n] = f[n - 1] \o q[n]
        BY <2>1, <4>1 DEF Flattens
      <4> QED
        BY <1>1, <4>1, <4>2
    <3>2. \A x : Holds(f[n], x) <=> Holds(f[n - 1], x) \/ Holds(q[n], x)
      BY <2>3, <3>1, ConcatHolds
    <3>3. f[n] \in Seq(X)
      BY <2>3, <3>1, ConcatHolds
    <3> QED
      BY <2>3, <3>1, <3>2, <3>3
  <2>4. Bad = {}
    <3> SUFFICES ASSUME Bad # {} PROVE FALSE
      OBVIOUS
    <3>1. Bad \in SUBSET Nat
      BY <1>1
    <3>2. PICK n \in Bad : \A m \in Bad : n <= m
      BY <3>1, Least
    <3>3. n \in 2..Len(q) /\ n - 1 \in 1..Len(q) /\ n - 1 \notin Bad
      <4>1. n \in 1..Len(q) /\ ~Good(n)
        OBVIOUS
      <4> HIDE DEF Good
      <4>2. n # 1
        BY <2>2, <4>1
      <4>3. n \in 2..Len(q) /\ n - 1 \in 1..Len(q) /\ ~(n <= n - 1)
        BY <1>1, <4>1, <4>2
      <4> HIDE DEF Bad
      <4> QED
        BY <3>2, <4>3
    <3> HIDE DEF Good
    <3> QED
      BY <2>3, <3>3
  <2>5. Good(Len(q)) /\ FlattenSeq(q) = f[Len(q)]
    <3>1. Len(q) \in 1..Len(q) /\ Len(q) \notin Bad
      <4> HIDE DEF Bad
      <4> QED
        BY <1>1, <1>3, <2>4
    <3>2. Good(Len(q))
      <4> HIDE DEF Good
      <4> QED
        BY <3>1
    <3> QED
      BY <1>3, <2>1, <3>2 DEF Flattens
  <2> QED
    BY <1>1, <2>5
<1> QED
  BY <1>2, <1>3

-----------------------------------------------------------------------------
Finds == [run : Runs, bucket : PageBuckets]
PageNames ==
    {Out, Dashboard, Index} \cup {RunPage(r) : r \in Runs}
        \cup {FindingPage(f) : f \in Nat} \cup {FindingIR(f) : f \in Nat}
        \cup {BucketPage(b) : b \in PageBuckets}
Contents == [links : SUBSET PageNames, final : BOOLEAN]
Files == [page : PageNames, content : Contents]
Stages == {"rest", "done", "failed", "forked", "plain", "dashboard", "index", "snapshot",
           "findings", "buckets"}
Jobs == [stage : Stages, todo : Seq(Files), written : BOOLEAN, plain : BOOLEAN, seen : BOOLEAN]

PublishTypeOK ==
    /\ rows \in Seq(Finds) /\ shown \in 0..Len(rows)
    /\ run \in {"live", "killed", "stopped", "trapped"}
    /\ job \in [Renderers -> Jobs]
    /\ overlapped \in BOOLEAN /\ clean \in BOOLEAN /\ saw \in BOOLEAN

(* Pages are told apart by their directory, and by what they are about.    *)
LEMMA PageFacts ==
    /\ Out[1] = "out" /\ Dashboard[1] = "dashboard" /\ Index[1] = "index"
    /\ \A r : RunPage(r)[1] = "runs" /\ RunPage(r)[2] = r
    /\ \A f : FindingPage(f)[1] = "findings" /\ FindingPage(f)[2] = f
    /\ \A f : FindingIR(f)[1] = "findings_ll" /\ FindingIR(f)[2] = f
    /\ \A b : BucketPage(b)[1] = "buckets" /\ BucketPage(b)[2] = b
BY DEF Out, Dashboard, Index, RunPage, FindingPage, FindingIR, BucketPage

(* What a page may link to; every run is linked from the index only.       *)
Fine(p, c) ==
    \/ /\ p \in {Out} \cup {RunPage(r) : r \in Runs} \cup {FindingIR(f) : f \in Nat}
       /\ c.links = {}
    \/ /\ p = Index
       /\ c.links \subseteq {Dashboard} \cup {RunPage(r) : r \in Runs}
    \/ /\ p = Dashboard
       /\ c.links \subseteq {FindingPage(f) : f \in Own}
                              \cup {BucketPage(b) : b \in Touched \cup {AsanBucket}}
    \/ \E f \in Own :
          /\ f <= shown /\ p = FindingPage(f)
          /\ c.links \subseteq {BucketPage(rows[f].bucket), RunPage("this"), Dashboard}
                                 \cup {FindingIR(g) : g \in {f} \cap Readable}
    \/ \E b \in Touched :
          /\ p = BucketPage(b)
          /\ c.links \subseteq {RunPage("this"), Dashboard, FindingPage(Representative(b))}
                                 \cup {FindingPage(f) : f \in Own}
                                 \cup {RunPage(r) : r \in {q \in Runs : RunPage(q) \in DOMAIN site}}

FilesFine ==
    /\ \A p \in DOMAIN site : Fine(p, site[p])
    /\ \A p \in DOMAIN tmps : Fine(p, tmps[p])
    /\ \A d \in Renderers : \A x : Holds(job[d].todo, x) => Fine(x.page, x.content)

(* The findings of the last finding pages, their pages and buckets.        *)
ShownFindings == {f \in Own : f <= shown}
ShownPages ==
    {FindingPage(f) : f \in ShownFindings} \cup {FindingIR(f) : f \in ShownFindings \cap Readable}
ShownBuckets == {BucketPage(rows[f].bucket) : f \in ShownFindings}

(* The dashboard links to nothing that came up after those.                *)
DashboardShown ==
    Dashboard \in DOMAIN site =>
        site[Dashboard].links \subseteq {FindingPage(f) : f \in ShownFindings}
                                          \cup ShownBuckets \cup {BucketPage(AsanBucket)}

(* What is there, or will be when the pass has written what it rendered.   *)
Owes(d, pages) ==
    \A p \in pages : p \in DOMAIN site \/ \E x : Holds(job[d].todo, x) /\ x.page = p

PassOK(d) ==
    /\ ~Passing(d) \/ job[d].stage = "forked" => job[d].todo = <<>>
    /\ job[d].written => job[d].todo # <<>>
    /\ job[d].stage \in {"findings", "buckets"} =>
          \A x : Holds(job[d].todo, x) => x.page[1] \in {"findings", "findings_ll", "buckets"}
    /\ job[d].stage = "dashboard" => Owes(d, {Dashboard})
    /\ job[d].stage \in {"index", "snapshot", "findings", "buckets"} => Dashboard \in DOMAIN site
    /\ job[d].stage = "snapshot" /\ job[d].seen => Owes(d, {RunPage("this")})
    /\ job[d].stage \in {"findings", "buckets"} /\ job[d].seen => RunPage("this") \in DOMAIN site

AloneOK(d) ==
    /\ job[d].written => Page(d) \in DOMAIN tmps /\ tmps[Page(d)] = Content(d)
    /\ d \notin lost =>
          /\ job[d].stage = "findings" => Owes(d, ShownPages)
          /\ job[d].stage = "buckets" => ShownPages \subseteq DOMAIN site /\ Owes(d, ShownBuckets)
          /\ job[d].stage \in {"findings", "buckets"} => DashboardShown

Settled ==
    /\ Dashboard \in DOMAIN site
    /\ ShownPages \cup ShownBuckets \subseteq DOMAIN site
    /\ DashboardShown
    /\ saw => RunPage("this") \in DOMAIN site
    /\ \A d \in Renderers : ~Passing(d)

FinalSnapshot ==
    /\ RunPage("this") \in DOMAIN site
    /\ overlapped \/ site[RunPage("this")] = Plain(TRUE)

StopOK ==
    LET stop == job["stop"] IN
    /\ stop.stage # "rest" => run = "stopped"
    /\ stop.stage # "rest" /\ ~overlapped => ~Passing("daemon")
    /\ stop.stage \in {"plain", "dashboard", "index", "snapshot", "findings", "buckets"} => stop.plain
    /\ stop.stage \in {"dashboard", "index", "snapshot", "findings", "buckets"} => stop.seen
    /\ stop.stage = "snapshot" =>
          \A x : Holds(stop.todo, x) => x = File(RunPage("this"), Plain(TRUE))
    /\ stop.stage = "snapshot" /\ stop.todo = <<>> => FinalSnapshot
    /\ stop.stage \in {"findings", "buckets", "done"} => FinalSnapshot

PublishInv ==
    /\ PublishTypeOK
    /\ FilesFine
    /\ \A d \in Renderers : PassOK(d)
    /\ ~overlapped => \A d \in Renderers :
          Passing(d) => ~clean /\ AloneOK(d) /\ \A e \in Renderers \ {d} : ~Passing(e)
    /\ clean /\ ~overlapped => Settled
    /\ StopOK

(* ... which is what the runs check.                                       *)
LEMMA PublishInvLinks == PublishInv => LinksResolve
<1> SUFFICES ASSUME PublishInv, clean, ~overlapped, NEW p \in DOMAIN site,
                    NEW x \in site[p].links, x \notin DOMAIN site
             PROVE  x \in MayBeDead(p)
  BY DEF LinksResolve
<1>1. Settled /\ Fine(p, site[p])
  BY DEF PublishInv, FilesFine
<1>2. x \in {RunPage("this")} => x \in MayBeDead(p)
  BY <1>1 DEF MayBeDead, Settled
<1>3. \A f \in Own : f \in Nat
  BY DEF PublishInv, PublishTypeOK, Own
<1>4. shown \in Nat
  BY DEF PublishInv, PublishTypeOK
<1>5. CASE site[p].links = {}
  BY <1>5
<1>6. CASE p = Index /\ site[p].links \subseteq {Dashboard} \cup {RunPage(r) : r \in Runs}
  <2>1. x = RunPage("this") \/ x = RunPage("old")
    BY <1>1, <1>6 DEF Settled, Runs
  <2>2. p # Dashboard /\ p[1] # "buckets"
    BY <1>6, PageFacts
  <2>3. RunPage("old") \in MayBeDead(p)
    BY <1>6, <2>2 DEF MayBeDead
  <2> QED
    BY <1>2, <2>1, <2>3
<1>7. CASE p = Dashboard
  <2>1. x = BucketPage(AsanBucket) /\ x \notin ShownBuckets
    BY <1>1, <1>7 DEF Settled, DashboardShown, ShownPages
  <2>2. ~ \E f \in Own : f <= shown /\ rows[f].bucket = AsanBucket
    BY <2>1 DEF ShownBuckets, ShownFindings
  <2>3. p # Index /\ p[1] # "buckets"
    BY <1>7, PageFacts
  <2>4. BucketPage(AsanBucket) \in MayBeDead(p)
    BY <1>7, <2>2, <2>3 DEF MayBeDead
  <2> QED
    BY <2>1, <2>4
<1>8. CASE \E f \in Own :
              /\ f <= shown /\ p = FindingPage(f)
              /\ site[p].links \subseteq {BucketPage(rows[f].bucket), RunPage("this"), Dashboard}
                                           \cup {FindingIR(g) : g \in {f} \cap Readable}
  <2>1. x = RunPage("this")
    BY <1>1, <1>8 DEF Settled, ShownPages, ShownBuckets, ShownFindings
  <2> QED
    BY <1>2, <2>1
<1>9. CASE \E b \in Touched :
              /\ p = BucketPage(b)
              /\ site[p].links \subseteq {RunPage("this"), Dashboard, FindingPage(Representative(b))}
                                           \cup {FindingPage(f) : f \in Own}
                                           \cup {RunPage(r) : r \in {q \in Runs : RunPage(q) \in DOMAIN site}}
  <2>1. PICK b \in Touched :
              /\ p = BucketPage(b)
              /\ site[p].links \subseteq {RunPage("this"), Dashboard, FindingPage(Representative(b))}
                                           \cup {FindingPage(f) : f \in Own}
                                           \cup {RunPage(r) : r \in {q \in Runs : RunPage(q) \in DOMAIN site}}
    BY <1>9
  <2>2. \A f \in Own : FindingPage(f) \notin DOMAIN site => f > shown
    BY <1>1, <1>3, <1>4 DEF Settled, ShownPages, ShownFindings
  <2>3. \/ x = RunPage("this")
        \/ \E f \in ({Representative(b)} \ Own) \cup {g \in Own : g > shown} : x = FindingPage(f)
    BY <1>1, <2>1, <2>2 DEF Settled
  <2>4. p[1] = "buckets" /\ p[2] = b /\ p # Index /\ p # Dashboard
    BY <2>1, PageFacts
  <2>5. {FindingPage(f) : f \in ({Representative(p[2])} \ Own) \cup {g \in Own : g > shown}}
            \subseteq MayBeDead(p)
    BY <2>4 DEF MayBeDead
  <2> QED
    BY <1>2, <2>3, <2>4, <2>5
<1> QED
  BY <1>1, <1>5, <1>6, <1>7, <1>8, <1>9 DEF Fine

LEMMA PublishInvFinal == PublishInv => SnapshotIsFinal
BY DEF PublishInv, StopOK, FinalSnapshot, SnapshotIsFinal

(* With nothing to write there is nothing that could go wrong yet.         *)
LEMMA NothingPublished ==
    ASSUME rows \in Seq(Finds), run \in {"live", "trapped"},
           job = [d \in Renderers |-> Idle("rest")], tmps = <<>>,
           site \in {<<>>, [p \in {RunPage("old")} |-> Plain(TRUE)]},
           overlapped = FALSE, clean = FALSE, saw = FALSE, shown = 0
    PROVE  PublishInv
<1>1. \A d \in Renderers : /\ job[d] \in Jobs /\ job[d].stage = "rest" /\ job[d].todo = <<>>
                           /\ job[d].written = FALSE
  BY DEF Idle, Jobs, Stages
<1>2. PublishTypeOK
  <2>1. 0 \in 0..Len(rows)
    OBVIOUS
  <2>2. job \in [Renderers -> Jobs]
    BY <1>1
  <2> QED
    BY <2>1, <2>2 DEF PublishTypeOK
<1>3. FilesFine
  <2>1. \A p \in DOMAIN site : p = RunPage("old") /\ site[p] = Plain(TRUE)
    <3>1. DOMAIN <<>> = {}
      OBVIOUS
    <3>2. site = <<>> \/ site = [p \in {RunPage("old")} |-> Plain(TRUE)]
      OBVIOUS
    <3>3. PICK page : page = RunPage("old")
      OBVIOUS
    <3>4. PICK content : content = Plain(TRUE)
      OBVIOUS
    <3>5. site = <<>> \/ site = [p \in {page} |-> content]
      BY <3>2, <3>3, <3>4
    <3>6. \A p \in DOMAIN site : p = page /\ site[p] = content
      BY <3>1, <3>5
    <3> QED
      BY <3>3, <3>4, <3>6
  <2>2. Fine(RunPage("old"), Plain(TRUE))
    BY DEF Fine, Plain, Runs
  <2>3. DOMAIN tmps = {} /\ \A d \in Renderers : DOMAIN job[d].todo = {}
    BY <1>1
  <2> QED
    BY <2>1, <2>2, <2>3 DEF FilesFine, Holds
<1>4. \A d \in Renderers : PassOK(d) /\ ~Passing(d)
  BY <1>1 DEF PassOK, Passing
<1>5. StopOK
  BY <1>1 DEF StopOK, Renderers
<1> QED
  BY <1>2, <1>3, <1>4, <1>5 DEF PublishInv

(* That is how publishing starts, at most with the old snapshot, ...       *)
LEMMA PublishInitOK == PublishInit => PublishInv
<1> SUFFICES ASSUME PublishInit PROVE PublishInv
  OBVIOUS
<1>1. rows \in Seq(Finds)
  <2>1. \A b \in PageBuckets : <<[run |-> "old", bucket |-> b]>> \in Seq(Finds)
    <3> TAKE b \in PageBuckets
    <3>1. [run |-> "old", bucket |-> b] \in Finds
      BY DEF Finds, Runs
    <3> QED
      BY <3>1
  <2>2. <<>> \in Seq(Finds)
    OBVIOUS
  <2> QED
    BY <2>1, <2>2 DEF PublishInit
<1> QED
  BY <1>1, NothingPublished DEF PublishInit

(* ... and how it stays while another program works.                       *)
LEMMA PublishRestsOK == PublishRests => PublishInv
<1>1. <<>> \in Seq(Finds)
  OBVIOUS
<1> QED
  BY <1>1, NothingPublished DEF PublishRests

(* The table of findings grows at its end: what was there stays, and is    *)
(* represented as it was.                                                  *)
RowsGrew ==
    /\ rows' \in Seq(Finds) /\ Len(rows) <= Len(rows')
    /\ \A f \in DOMAIN rows : f \in DOMAIN rows' /\ rows'[f] = rows[f]
    /\ Own \subseteq Own' /\ \A f \in Own' \ Own : f > Len(rows)
    /\ Touched \subseteq Touched'
    /\ \A b \in Touched : Representative(b)' = Representative(b)

(* Larger numbers added to a set leave its least one as it was.            *)
LEMMA RepresentativeFacts ==
    ASSUME NEW M \in SUBSET Nat, NEW N \in SUBSET Nat, M # {},
           M \subseteq N, \A f \in N \ M : \A g \in M : f > g
    PROVE  (CHOOSE f \in N : \A g \in N : f <= g) = (CHOOSE f \in M : \A g \in M : f <= g)
<1>1. PICK m : m = CHOOSE f \in M : \A g \in M : f <= g
  OBVIOUS
<1>2. PICK n : n = CHOOSE f \in N : \A g \in N : f <= g
  OBVIOUS
<1>3. m \in M /\ \A g \in M : m <= g
  <2>1. \E f \in M : \A g \in M : f <= g
    BY Least
  <2> QED
    BY <1>1, <2>1, Zenon
<1>4. n \in N /\ \A g \in N : n <= g
  <2>1. \E f \in N : \A g \in N : f <= g
    BY Least
  <2> QED
    BY <1>2, <2>1, Zenon
<1>5. n = m
  BY <1>3, <1>4
<1> QED
  BY <1>1, <1>2, <1>5

LEMMA RegisterGrows ==
    ASSUME rows \in Seq(Finds), NEW b \in PageBuckets,
           rows' = Append(rows, [run |-> "this", bucket |-> b])
    PROVE  RowsGrew
<1>1. PICK r : r = [run |-> "this", bucket |-> b]
  OBVIOUS
<1>2. r \in Finds
  BY <1>1 DEF Finds, Runs
<1>3. /\ rows' \in Seq(Finds) /\ Len(rows') = Len(rows) + 1 /\ Len(rows) \in Nat
      /\ DOMAIN rows = 1..Len(rows) /\ DOMAIN rows' = 1..(Len(rows) + 1)
      /\ \A f \in DOMAIN rows : rows'[f] = rows[f]
  <2>1. rows' = Append(rows, r)
    BY <1>1
  <2> QED
    BY <1>2, <2>1
<1>4. Own \subseteq Own' /\ \A f \in Own' \ Own : f > Len(rows)
  BY <1>3 DEF Own
<1>5. Touched \subseteq Touched'
  <2>1. \A f \in Own : rows'[f] = rows[f]
    BY <1>3 DEF Own
  <2> QED
    BY <1>4, <2>1 DEF Touched
<1>6. ASSUME NEW c \in Touched PROVE Representative(c)' = Representative(c)
  <2>1. PICK M : M = Members(c)
    OBVIOUS
  <2>2. PICK N : N = Members(c)'
    OBVIOUS
  <2>3. M \in SUBSET Nat /\ N \in SUBSET Nat /\ M \subseteq N
    BY <1>3, <2>1, <2>2 DEF Members
  <2>4. M # {}
    BY <2>1 DEF Members, Touched, Own
  <2>5. \A f \in N \ M : \A g \in M : f > g
    BY <1>3, <2>1, <2>2 DEF Members
  <2>6. (CHOOSE f \in N : \A g \in N : f <= g) = (CHOOSE f \in M : \A g \in M : f <= g)
    BY <2>3, <2>4, <2>5, RepresentativeFacts
  <2> QED
    BY <2>1, <2>2, <2>6 DEF Representative
<1> QED
  BY <1>3, <1>4, <1>5, <1>6 DEF RowsGrew

LEMMA RowsStay == ASSUME rows \in Seq(Finds), rows' = rows PROVE RowsGrew
<1>1. Len(rows) \in Nat
  OBVIOUS
<1>2. Own' = Own /\ Touched' = Touched
  BY DEF Own, Touched
<1>3. \A b : Representative(b)' = Representative(b)
  BY DEF Representative, Members
<1> QED
  BY <1>1, <1>2, <1>3 DEF RowsGrew

(* So a file that was fine stays fine.                                     *)
LEMMA FineStays ==
    ASSUME PublishTypeOK, RowsGrew, shown' \in Nat, shown <= shown', DOMAIN site \subseteq DOMAIN site',
           NEW p, NEW c, Fine(p, c)
    PROVE  Fine(p, c)'
<1>1. /\ shown \in Nat /\ \A f \in Own : f \in Nat /\ f \in DOMAIN rows
  BY DEF PublishTypeOK, Own
<1>2. CASE \/ /\ p \in {Out} \cup {RunPage(r) : r \in Runs} \cup {FindingIR(f) : f \in Nat}
              /\ c.links = {}
           \/ /\ p = Index
              /\ c.links \subseteq {Dashboard} \cup {RunPage(r) : r \in Runs}
  BY <1>2 DEF Fine
<1>3. CASE /\ p = Dashboard
           /\ c.links \subseteq {FindingPage(f) : f \in Own}
                              \cup {BucketPage(b) : b \in Touched \cup {AsanBucket}}
  <2>1. {FindingPage(f) : f \in Own} \cup {BucketPage(b) : b \in Touched \cup {AsanBucket}}
           \subseteq ({FindingPage(f) : f \in Own} \cup {BucketPage(b) : b \in Touched \cup {AsanBucket}})'
    BY DEF RowsGrew
  <2> QED
    BY <1>3, <2>1 DEF Fine
<1>4. CASE \E f \in Own :
              /\ f <= shown /\ p = FindingPage(f)
              /\ c.links \subseteq {BucketPage(rows[f].bucket), RunPage("this"), Dashboard}
                                     \cup {FindingIR(g) : g \in {f} \cap Readable}
  <2>1. PICK f \in Own :
              /\ f <= shown /\ p = FindingPage(f)
              /\ c.links \subseteq {BucketPage(rows[f].bucket), RunPage("this"), Dashboard}
                                     \cup {FindingIR(g) : g \in {f} \cap Readable}
    BY <1>4
  <2>2. f \in Own' /\ f <= shown' /\ rows'[f] = rows[f]
    BY <1>1, <2>1 DEF RowsGrew
  <2> QED
    BY <2>1, <2>2 DEF Fine
<1>5. CASE \E b \in Touched :
              /\ p = BucketPage(b)
              /\ c.links \subseteq {RunPage("this"), Dashboard, FindingPage(Representative(b))}
                                     \cup {FindingPage(f) : f \in Own}
                                     \cup {RunPage(r) : r \in {q \in Runs : RunPage(q) \in DOMAIN site}}
  <2>1. PICK b \in Touched :
              /\ p = BucketPage(b)
              /\ c.links \subseteq {RunPage("this"), Dashboard, FindingPage(Representative(b))}
                                     \cup {FindingPage(f) : f \in Own}
                                     \cup {RunPage(r) : r \in {q \in Runs : RunPage(q) \in DOMAIN site}}
    BY <1>5
  <2>2. b \in Touched' /\ Representative(b)' = Representative(b) /\ Own \subseteq Own'
    BY DEF RowsGrew
  <2>3. c.links \subseteq {RunPage("this"), Dashboard, FindingPage(Representative(b)')}
                            \cup {FindingPage(f) : f \in Own'}
                            \cup {RunPage(r) : r \in {q \in Runs : RunPage(q) \in DOMAIN site'}}
    BY <2>1, <2>2
  <2> QED
    BY <2>1, <2>2, <2>3 DEF Fine
<1> QED
  BY <1>2, <1>3, <1>4, <1>5 DEF Fine

(* Findings that came up later are not among those shown.                  *)
LEMMA ShownStays ==
    ASSUME PublishTypeOK, RowsGrew, shown' = shown
    PROVE  /\ ShownFindings' = ShownFindings
           /\ ShownPages' = ShownPages /\ ShownBuckets' = ShownBuckets
<1>1. ShownFindings' = ShownFindings
  BY DEF PublishTypeOK, RowsGrew, ShownFindings, Own
<1>2. \A f \in ShownFindings : rows'[f] = rows[f]
  BY DEF RowsGrew, ShownFindings, Own
<1> QED
  BY <1>1, <1>2 DEF ShownPages, ShownBuckets

-----------------------------------------------------------------------------
(* The files a pass renders.                                               *)
LEMMA FileFacts ==
    ASSUME NEW p \in PageNames, NEW c \in Contents
    PROVE  File(p, c) \in Files /\ File(p, c).page = p /\ File(p, c).content = c
BY DEF File, Files

LEMMA ContentFacts ==
    /\ \A links \in SUBSET PageNames : Html(links) \in Contents /\ Html(links).links = links
    /\ \A ended \in BOOLEAN : Plain(ended) \in Contents /\ Plain(ended).links = {}
BY DEF Html, Plain, Contents

(* What the queries find in a table of findings.                           *)
LEMMA OwnFacts ==
    ASSUME PublishTypeOK
    PROVE  /\ DOMAIN rows = 1..Len(rows) /\ Len(rows) \in Nat /\ Own \subseteq 1..Len(rows)
           /\ \A f \in DOMAIN rows : rows[f].bucket \in PageBuckets /\ rows[f].run \in Runs
           /\ Touched \subseteq PageBuckets
           /\ \A b : Members(b) # {} => b \in PageBuckets /\ Representative(b) \in Nat
<1>1. DOMAIN rows = 1..Len(rows) /\ Len(rows) \in Nat /\ \A f \in DOMAIN rows : rows[f] \in Finds
  BY DEF PublishTypeOK
<1>2. \A f \in DOMAIN rows : rows[f].bucket \in PageBuckets /\ rows[f].run \in Runs
  BY <1>1 DEF Finds
<1>3. Own \subseteq 1..Len(rows) /\ Touched \subseteq PageBuckets
  BY <1>1, <1>2 DEF Own, Touched
<1>4. ASSUME NEW b, Members(b) # {} PROVE b \in PageBuckets /\ Representative(b) \in Nat
  <2>1. Members(b) \in SUBSET Nat
    BY <1>1 DEF Members
  <2>2. \E f \in Members(b) : \A g \in Members(b) : f <= g
    BY <1>4, <2>1, Least
  <2>3. Representative(b) \in Members(b)
    BY <2>2, Zenon DEF Representative
  <2>4. b \in PageBuckets
    BY <1>2, <1>4 DEF Members
  <2> QED
    BY <2>1, <2>3, <2>4
<1> QED
  BY <1>1, <1>2, <1>3, <1>4

IRFile(f) == File(FindingIR(f), Html({}))
PageFile(f) == File(FindingPage(f), Html(FindingLinks(f)))
BucketFile(b) == File(BucketPage(b), Html(BucketLinks(b)))

LEMMA FindingFileFacts ==
    ASSUME PublishTypeOK, NEW f \in Own
    PROVE  /\ IRFile(f) \in Files /\ IRFile(f).page = FindingIR(f) /\ IRFile(f).content.links = {}
           /\ PageFile(f) \in Files /\ PageFile(f).page = FindingPage(f)
           /\ PageFile(f).content.links = FindingLinks(f)
<1>1. f \in Nat /\ rows[f].bucket \in PageBuckets
  BY OwnFacts
<1>2. FindingIR(f) \in PageNames /\ FindingPage(f) \in PageNames
  BY <1>1 DEF PageNames
<1>3. {} \in SUBSET PageNames /\ FindingLinks(f) \in SUBSET PageNames
  BY <1>1 DEF FindingLinks, PageNames, Runs
<1>4. /\ Html({}) \in Contents /\ Html({}).links = {}
      /\ Html(FindingLinks(f)) \in Contents /\ Html(FindingLinks(f)).links = FindingLinks(f)
  BY <1>3, ContentFacts
<1> QED
  BY <1>2, <1>4, FileFacts DEF IRFile, PageFile

(* The finding pages are those of the findings of this run.                *)
LEMMA FindingTreeFacts ==
    ASSUME PublishTypeOK
    PROVE  /\ FindingTree \in Seq(Files)
           /\ \A x : Holds(FindingTree, x) <=>
                 \E f \in Own : x = PageFile(f) \/ (f \in Readable /\ x = IRFile(f))
<1> DEFINE q == [f \in DOMAIN rows |-> IF f \in Own THEN FindingFiles(f) ELSE <<>>]
<1>1. DOMAIN rows = 1..Len(rows) /\ Len(rows) \in Nat /\ Own \subseteq DOMAIN rows
  BY OwnFacts
<1>2. ASSUME NEW f \in Own
      PROVE  /\ FindingFiles(f) \in Seq(Files)
             /\ \A x : Holds(FindingFiles(f), x) <=> x = PageFile(f) \/ (f \in Readable /\ x = IRFile(f))
  <2>1. PICK a : a = IRFile(f)
    OBVIOUS
  <2>2. PICK b : b = PageFile(f)
    OBVIOUS
  <2>3. a \in Files /\ b \in Files
    BY <2>1, <2>2, FindingFileFacts
  <2>4. FindingFiles(f) = IF f \in Readable THEN <<a>> \o <<b>> ELSE <<>> \o <<b>>
    BY <2>1, <2>2 DEF FindingFiles, IRFile, PageFile
  <2>5. /\ <<>> \in Seq(Files) /\ <<a>> \in Seq(Files) /\ <<b>> \in Seq(Files)
        /\ \A x : ~Holds(<<>>, x) /\ (Holds(<<a>>, x) <=> x = a) /\ (Holds(<<b>>, x) <=> x = b)
    BY <2>3 DEF Holds
  <2>6. /\ <<a>> \o <<b>> \in Seq(Files) /\ <<>> \o <<b>> \in Seq(Files)
        /\ \A x : Holds(<<a>> \o <<b>>, x) <=> Holds(<<a>>, x) \/ Holds(<<b>>, x)
        /\ \A x : Holds(<<>> \o <<b>>, x) <=> Holds(<<>>, x) \/ Holds(<<b>>, x)
    BY <2>5, ConcatHolds
  <2>7. CASE f \in Readable
    BY <2>1, <2>2, <2>4, <2>5, <2>6, <2>7
  <2>8. CASE f \notin Readable
    BY <2>1, <2>2, <2>4, <2>5, <2>6, <2>8
  <2> QED
    BY <2>7, <2>8
<1>3. <<>> \in Seq(Files) /\ \A x : ~Holds(<<>>, x)
  BY DEF Holds
<1>4. q \in Seq(Seq(Files)) /\ DOMAIN q = DOMAIN rows
  <2>1. \A f \in DOMAIN rows : q[f] \in Seq(Files)
    BY <1>2, <1>3
  <2>2. q = [f \in 1..Len(rows) |-> q[f]]
    BY <1>1
  <2> HIDE DEF q
  <2> QED
    BY <1>1, <2>1, <2>2
<1>5. \A f \in DOMAIN rows : \A x :
         Holds(q[f], x) <=> f \in Own /\ (x = PageFile(f) \/ (f \in Readable /\ x = IRFile(f)))
  BY <1>2, <1>3
<1>6. FindingTree = FlattenSeq(q)
  BY DEF FindingTree
<1> HIDE DEF q
<1>7. /\ FlattenSeq(q) \in Seq(Files)
      /\ \A x : Holds(FlattenSeq(q), x) <=> \E i \in DOMAIN q : Holds(q[i], x)
  BY <1>4, FlattenHolds
<1> QED
  BY <1>1, <1>4, <1>5, <1>6, <1>7

LEMMA BucketFileFacts ==
    ASSUME PublishTypeOK, NEW b \in Touched
    PROVE  /\ BucketFile(b) \in Files /\ BucketFile(b).page = BucketPage(b)
           /\ BucketFile(b).content.links = BucketLinks(b)
<1>1. b \in PageBuckets /\ Own \subseteq Nat /\ Own \subseteq DOMAIN rows /\ DOMAIN rows \subseteq Nat
  BY OwnFacts
<1>2. Members(b) # {}
  BY <1>1 DEF Members, Touched
<1>3. Representative(b) \in Nat
  BY <1>2, OwnFacts
<1>4. \A f \in DOMAIN rows : rows[f].run \in Runs
  BY OwnFacts
<1>5. SnapshotRuns({rows[f].run : f \in Members(b)}) \subseteq Runs
  BY <1>4 DEF SnapshotRuns, Members
<1>6. BucketLinks(b) \in SUBSET PageNames
  BY <1>1, <1>3, <1>5 DEF BucketLinks, PageNames, Runs
<1>7. Html(BucketLinks(b)) \in Contents /\ Html(BucketLinks(b)).links = BucketLinks(b)
  BY <1>6, ContentFacts
<1>8. BucketPage(b) \in PageNames
  BY <1>1 DEF PageNames
<1> QED
  BY <1>7, <1>8, FileFacts DEF BucketFile

(* The bucket pages are those of the buckets they touch.                   *)
LEMMA BucketTreeFacts ==
    ASSUME PublishTypeOK
    PROVE  /\ BucketTree \in Seq(Files)
           /\ \A x : Holds(BucketTree, x) <=> \E b \in Touched : x = BucketFile(b)
<1> DEFINE S == {BucketFile(b) : b \in Touched}
<1>1. IsFiniteSet(Own)
  <2>1. IsFiniteSet(1..Len(rows)) /\ Own \subseteq 1..Len(rows)
    BY OwnFacts, FS_Interval
  <2> QED
    BY <2>1, FS_Subset
<1>2. PICK g : g = [f \in Own |-> BucketFile(rows[f].bucket)]
  OBVIOUS
<1>3. IsFiniteSet(S)
  <2>1. \A f \in Own : g[f] \in S
    BY <1>2 DEF Touched
  <2>2. \A x \in S : \E f \in Own : g[f] = x
    BY <1>2 DEF Touched
  <2>3. g \in [Own -> S]
    BY <1>2, <2>1
  <2> HIDE DEF S
  <2>4. g \in Surjection(Own, S)
    BY <2>2, <2>3 DEF Surjection
  <2> QED
    BY <1>1, <2>4, FS_Surjection
<1>4. BucketTree = SetToSeq(S)
  BY DEF BucketTree, BucketFile
<1>5. S \subseteq Files
  BY BucketFileFacts
<1>6. \A x : x \in S <=> \E b \in Touched : x = BucketFile(b)
  OBVIOUS
<1> HIDE DEF S
<1>7. BucketTree \in Seq(S) /\ Range(BucketTree) = S
  BY <1>3, <1>4, SetToSeqFacts
<1>8. \A x : Holds(BucketTree, x) <=> x \in S
  BY <1>7 DEF Holds, Range
<1>9. BucketTree \in Seq(Files)
  BY <1>5, <1>7
<1> QED
  BY <1>6, <1>8, <1>9

-----------------------------------------------------------------------------
(* A renderer moves on; the other one stays where it is.                   *)
JobMoved(d, s, t, w, p, e) ==
    /\ job' \in [Renderers -> Jobs]
    /\ job'[d].stage = s /\ job'[d].todo = t /\ job'[d].written = w
    /\ job'[d].plain = p /\ job'[d].seen = e
    /\ \A o \in Renderers \ {d} : job'[o] = job[o]

JobSet(d, s, t, w, p, e) ==
    job' = [job EXCEPT ![d] = [stage |-> s, todo |-> t, written |-> w, plain |-> p, seen |-> e]]

LEMMA JobMoves ==
    ASSUME job \in [Renderers -> Jobs], NEW d \in Renderers,
           NEW s \in Stages, NEW t \in Seq(Files), NEW w \in BOOLEAN, NEW p \in BOOLEAN,
           NEW e \in BOOLEAN, JobSet(d, s, t, w, p, e)
    PROVE  JobMoved(d, s, t, w, p, e)
<1>1. PICK r : r = [stage |-> s, todo |-> t, written |-> w, plain |-> p, seen |-> e]
  OBVIOUS
<1>2. r \in Jobs
  BY <1>1 DEF Jobs
<1>3. job' = [job EXCEPT ![d] = r]
  BY <1>1 DEF JobSet
<1>4. job' \in [Renderers -> Jobs] /\ job'[d] = r /\ \A o \in Renderers \ {d} : job'[o] = job[o]
  BY <1>2, <1>3
<1> QED
  BY <1>1, <1>4 DEF JobMoved

(* The fields of what a renderer is doing.                                 *)
LEMMA JobFacts ==
    ASSUME PublishTypeOK, NEW d \in Renderers
    PROVE  /\ job \in [Renderers -> Jobs] /\ job[d] \in Jobs
           /\ job[d] = [stage |-> job[d].stage, todo |-> job[d].todo, written |-> job[d].written,
                        plain |-> job[d].plain, seen |-> job[d].seen]
           /\ job[d].stage \in Stages /\ job[d].todo \in Seq(Files) /\ job[d].written \in BOOLEAN
           /\ job[d].plain \in BOOLEAN /\ job[d].seen \in BOOLEAN
<1>1. job \in [Renderers -> Jobs]
  BY DEF PublishTypeOK
<1>2. job[d] \in Jobs
  BY <1>1
<1>3. \A r \in Jobs : /\ r = [stage |-> r.stage, todo |-> r.todo, written |-> r.written,
                              plain |-> r.plain, seen |-> r.seen]
                      /\ r.stage \in Stages /\ r.todo \in Seq(Files) /\ r.written \in BOOLEAN
                      /\ r.plain \in BOOLEAN /\ r.seen \in BOOLEAN
  BY DEF Jobs
<1> HIDE DEF Jobs
<1> QED
  BY <1>1, <1>2, <1>3

(* To stop, or to die, is to forget everything.                            *)
LEMMA IdleMoves ==
    ASSUME PublishTypeOK, NEW d \in Renderers, NEW s \in Stages, job' = [job EXCEPT ![d] = Idle(s)]
    PROVE  JobMoved(d, s, <<>>, FALSE, FALSE, FALSE)
<1>1. <<>> \in Seq(Files) /\ job \in [Renderers -> Jobs] /\ FALSE \in BOOLEAN
  BY DEF PublishTypeOK
<1>2. JobSet(d, s, <<>>, FALSE, FALSE, FALSE)
  BY DEF Idle, JobSet
<1> QED
  BY <1>1, <1>2, JobMoves

(* A pass goes on to its next stage.                                       *)
LEMMA StageMoves ==
    ASSUME PublishTypeOK, NEW d \in Renderers, NEW s \in Stages, NEW t \in Seq(Files),
           job' = [job EXCEPT ![d].stage = s, ![d].todo = t]
    PROVE  JobMoved(d, s, t, job[d].written, job[d].plain, job[d].seen)
<1>1. PICK r : r = job[d]
  OBVIOUS
<1>2. PICK w : w = r.written
  OBVIOUS
<1>3. PICK p : p = r.plain
  OBVIOUS
<1>4. PICK e : e = r.seen
  OBVIOUS
<1>5. r = [stage |-> r.stage, todo |-> r.todo, written |-> w, plain |-> p, seen |-> e]
  BY <1>1, <1>2, <1>3, <1>4, JobFacts
<1>6. PICK q : q = [r EXCEPT !.stage = s]
  OBVIOUS
<1>7. q = [stage |-> s, todo |-> r.todo, written |-> w, plain |-> p, seen |-> e]
  BY <1>5, <1>6
<1>8. [q EXCEPT !.todo = t] = [stage |-> s, todo |-> t, written |-> w, plain |-> p, seen |-> e]
  BY <1>7
<1>9. job' = [job EXCEPT ![d] = [[r EXCEPT !.stage = s] EXCEPT !.todo = t]]
  BY <1>1, JobFacts
<1>10. JobSet(d, s, t, w, p, e)
  BY <1>6, <1>8, <1>9 DEF JobSet
<1>11. w \in BOOLEAN /\ p \in BOOLEAN /\ e \in BOOLEAN /\ job \in [Renderers -> Jobs]
  BY <1>1, <1>2, <1>3, <1>4, JobFacts
<1>12. JobMoved(d, s, t, w, p, e)
  BY <1>10, <1>11, JobMoves
<1> QED
  BY <1>1, <1>2, <1>3, <1>4, <1>12

(* It notes with that how html_plain shows the run.                        *)
LEMMA PlainMoves ==
    ASSUME PublishTypeOK, NEW d \in Renderers, NEW s \in Stages, NEW t \in Seq(Files),
           NEW p \in BOOLEAN,
           job' = [job EXCEPT ![d].stage = s, ![d].plain = p, ![d].todo = t]
    PROVE  JobMoved(d, s, t, job[d].written, p, job[d].seen)
<1>1. PICK r : r = job[d]
  OBVIOUS
<1>2. PICK w : w = r.written
  OBVIOUS
<1>3. PICK o : o = r.seen
  OBVIOUS
<1>4. PICK v : v = r.plain
  OBVIOUS
<1>5. r = [stage |-> r.stage, todo |-> r.todo, written |-> w, plain |-> v, seen |-> o]
  BY <1>1, <1>2, <1>3, <1>4, JobFacts
<1>6. PICK q : q = [r EXCEPT !.stage = s]
  OBVIOUS
<1>7. q = [stage |-> s, todo |-> r.todo, written |-> w, plain |-> v, seen |-> o]
  BY <1>5, <1>6
<1>8. PICK z : z = [q EXCEPT !.plain = p]
  OBVIOUS
<1>9. z = [stage |-> s, todo |-> r.todo, written |-> w, plain |-> p, seen |-> o]
  BY <1>7, <1>8
<1>10. [z EXCEPT !.todo = t] = [stage |-> s, todo |-> t, written |-> w, plain |-> p, seen |-> o]
  BY <1>9
<1>11. job' = [job EXCEPT ![d] = [[[r EXCEPT !.stage = s] EXCEPT !.plain = p] EXCEPT !.todo = t]]
  BY <1>1, JobFacts
<1>12. JobSet(d, s, t, w, p, o)
  BY <1>6, <1>8, <1>10, <1>11 DEF JobSet
<1>13. w \in BOOLEAN /\ o \in BOOLEAN /\ job \in [Renderers -> Jobs]
  BY <1>1, <1>2, <1>3, JobFacts
<1>14. JobMoved(d, s, t, w, p, o)
  BY <1>12, <1>13, JobMoves
<1> QED
  BY <1>1, <1>2, <1>3, <1>14

(* It notes with that what the manifest said.                              *)
LEMMA SeenMoves ==
    ASSUME PublishTypeOK, NEW d \in Renderers, NEW s \in Stages, NEW t \in Seq(Files),
           NEW p \in BOOLEAN,
           job' = [job EXCEPT ![d].stage = s, ![d].seen = p, ![d].todo = t]
    PROVE  JobMoved(d, s, t, job[d].written, job[d].plain, p)
<1>1. PICK r : r = job[d]
  OBVIOUS
<1>2. PICK w : w = r.written
  OBVIOUS
<1>3. PICK o : o = r.plain
  OBVIOUS
<1>4. PICK v : v = r.seen
  OBVIOUS
<1>5. r = [stage |-> r.stage, todo |-> r.todo, written |-> w, plain |-> o, seen |-> v]
  BY <1>1, <1>2, <1>3, <1>4, JobFacts
<1>6. PICK q : q = [r EXCEPT !.stage = s]
  OBVIOUS
<1>7. q = [stage |-> s, todo |-> r.todo, written |-> w, plain |-> o, seen |-> v]
  BY <1>5, <1>6
<1>8. PICK z : z = [q EXCEPT !.seen = p]
  OBVIOUS
<1>9. z = [stage |-> s, todo |-> r.todo, written |-> w, plain |-> o, seen |-> p]
  BY <1>7, <1>8
<1>10. [z EXCEPT !.todo = t] = [stage |-> s, todo |-> t, written |-> w, plain |-> o, seen |-> p]
  BY <1>9
<1>11. job' = [job EXCEPT ![d] = [[[r EXCEPT !.stage = s] EXCEPT !.seen = p] EXCEPT !.todo = t]]
  BY <1>1, JobFacts
<1>12. JobSet(d, s, t, w, o, p)
  BY <1>6, <1>8, <1>10, <1>11 DEF JobSet
<1>13. w \in BOOLEAN /\ o \in BOOLEAN /\ job \in [Renderers -> Jobs]
  BY <1>1, <1>2, <1>3, JobFacts
<1>14. JobMoved(d, s, t, w, o, p)
  BY <1>12, <1>13, JobMoves
<1> QED
  BY <1>1, <1>2, <1>3, <1>14

(* It goes on with its files.                                              *)
LEMMA TodoMoves ==
    ASSUME PublishTypeOK, NEW d \in Renderers, NEW t \in Seq(Files), NEW w \in BOOLEAN,
           \/ job' = [job EXCEPT ![d].todo = t, ![d].written = w]
           \/ w = job[d].written /\ job' = [job EXCEPT ![d].todo = t]
           \/ t = job[d].todo /\ job' = [job EXCEPT ![d].written = w]
    PROVE  JobMoved(d, job[d].stage, t, w, job[d].plain, job[d].seen)
<1>1. PICK r : r = job[d]
  OBVIOUS
<1>2. PICK s : s = r.stage
  OBVIOUS
<1>3. PICK p : p = r.plain
  OBVIOUS
<1>4. PICK e : e = r.seen
  OBVIOUS
<1>5. r = [stage |-> s, todo |-> r.todo, written |-> r.written, plain |-> p, seen |-> e]
  BY <1>1, <1>2, <1>3, <1>4, JobFacts
<1> DEFINE z == [stage |-> s, todo |-> t, written |-> w, plain |-> p, seen |-> e]
<1>6. job' = [job EXCEPT ![d] = z]
  <2>1. CASE job' = [job EXCEPT ![d].todo = t, ![d].written = w]
    <3>1. PICK q : q = [r EXCEPT !.todo = t]
      OBVIOUS
    <3>2. q = [stage |-> s, todo |-> t, written |-> r.written, plain |-> p, seen |-> e]
      BY <1>5, <3>1
    <3>3. [q EXCEPT !.written = w] = z
      BY <3>2
    <3>4. job' = [job EXCEPT ![d] = [[r EXCEPT !.todo = t] EXCEPT !.written = w]]
      BY <1>1, <2>1, JobFacts
    <3> HIDE DEF z
    <3> QED
      BY <3>1, <3>3, <3>4
  <2>2. CASE w = job[d].written /\ job' = [job EXCEPT ![d].todo = t]
    <3>1. [r EXCEPT !.todo = t] = z
      BY <1>1, <1>5, <2>2
    <3>2. job' = [job EXCEPT ![d] = [r EXCEPT !.todo = t]]
      BY <1>1, <2>2, JobFacts
    <3> HIDE DEF z
    <3> QED
      BY <3>1, <3>2
  <2>3. CASE t = job[d].todo /\ job' = [job EXCEPT ![d].written = w]
    <3>1. [r EXCEPT !.written = w] = z
      BY <1>1, <1>5, <2>3
    <3>2. job' = [job EXCEPT ![d] = [r EXCEPT !.written = w]]
      BY <1>1, <2>3, JobFacts
    <3> HIDE DEF z
    <3> QED
      BY <3>1, <3>2
  <2> QED
    BY <2>1, <2>2, <2>3
<1>7. s \in Stages /\ p \in BOOLEAN /\ e \in BOOLEAN /\ job \in [Renderers -> Jobs]
  BY <1>1, <1>2, <1>3, <1>4, JobFacts
<1>8. JobSet(d, s, t, w, p, e)
  BY <1>6 DEF JobSet
<1>9. JobMoved(d, s, t, w, p, e)
  BY <1>7, <1>8, JobMoves
<1> QED
  BY <1>1, <1>2, <1>3, <1>4, <1>9

-----------------------------------------------------------------------------
(* Every file is one that was fine, or a fine new one.                     *)
FineSoon(p, c) == Fine(p, c) \/ Fine(p, c)'

LEMMA FilesKept ==
    ASSUME PublishTypeOK, RowsGrew, shown' \in Nat, shown <= shown', DOMAIN site \subseteq DOMAIN site',
           \A p, c : p \in DOMAIN site' /\ c = site'[p] => FineSoon(p, c),
           \A p, c : p \in DOMAIN tmps' /\ c = tmps'[p] => FineSoon(p, c),
           \A d \in Renderers : \A x : Holds(job'[d].todo, x) => FineSoon(x.page, x.content)
    PROVE  FilesFine'
<1>1. \A p, c : FineSoon(p, c) => Fine(p, c)'
  BY FineStays DEF FineSoon
<1>2. \A p \in DOMAIN site' : Fine(p, site[p])'
  BY <1>1
<1>3. \A p \in DOMAIN tmps' : Fine(p, tmps[p])'
  BY <1>1
<1>4. \A d \in Renderers : \A x : Holds(job'[d].todo, x) => Fine(x.page, x.content)'
  BY <1>1
<1> QED
  BY <1>2, <1>3, <1>4 DEF FilesFine, Holds

(* A renderer that does nothing still finds what it counts on.             *)
LEMMA PassStays ==
    ASSUME NEW d \in Renderers, PassOK(d), job'[d] = job[d], DOMAIN site \subseteq DOMAIN site'
    PROVE  PassOK(d)' /\ (Passing(d)' <=> Passing(d))
BY DEF PassOK, Passing, Owes, Holds

(* A step of a pass.                                                       *)
PassMoves(d) ==
    /\ job' \in [Renderers -> Jobs] /\ \A o \in Renderers \ {d} : job'[o] = job[o]
    /\ rows' = rows /\ run' = run /\ overlapped' = overlapped
    /\ shown' \in 0..Len(rows) /\ saw' \in BOOLEAN /\ clean' \in BOOLEAN
    /\ DOMAIN site \subseteq DOMAIN site'

(* The loop disturbs the pass of stop.sh only if they overlap.             *)
LEMMA DaemonKeepsStop ==
    ASSUME PublishInv, Passing("daemon"), PassMoves("daemon")
    PROVE  StopOK'
<1>1. "stop" \in Renderers \ {"daemon"}
  BY DEF Renderers
<1>2. job'["stop"] = job["stop"] /\ run' = run /\ overlapped' = overlapped
  BY <1>1 DEF PassMoves
<1>3. job["stop"].stage # "rest" => overlapped
  BY DEF PublishInv, StopOK
<1>4. overlapped /\ FinalSnapshot => FinalSnapshot'
  BY <1>2 DEF FinalSnapshot, PassMoves
<1>5. StopOK
  BY DEF PublishInv
<1> QED
  BY <1>2, <1>3, <1>4, <1>5 DEF StopOK, Holds

LEMMA PassStep ==
    ASSUME PublishInv, NEW d \in Renderers, Passing(d), PassMoves(d), FilesFine', PassOK(d)',
           ~overlapped /\ Passing(d)' => ~clean' /\ AloneOK(d)',
           ~overlapped /\ clean' => Settled',
           d = "stop" => StopOK'
    PROVE  PublishInv'
<1>1. PublishTypeOK'
  <2>1. PublishTypeOK
    BY DEF PublishInv
  <2> QED
    BY <2>1 DEF PublishTypeOK, PassMoves
<1>2. \A e \in Renderers \ {d} : PassOK(e)' /\ (Passing(e)' <=> Passing(e))
  BY PassStays DEF PublishInv, PassMoves
<1>3. \A e \in Renderers : PassOK(e)'
  BY <1>2
<1>4. ASSUME ~overlapped', NEW e \in Renderers, Passing(e)'
      PROVE  (~clean /\ AloneOK(e) /\ \A o \in Renderers \ {e} : ~Passing(o))'
  <2>1. ~overlapped
    BY <1>4 DEF PassMoves
  <2>2. \A o \in Renderers \ {d} : ~Passing(o)
    BY <2>1 DEF PublishInv
  <2>3. e = d
    BY <1>2, <1>4, <2>2
  <2>4. ~clean' /\ AloneOK(d)'
    BY <1>4, <2>1, <2>3
  <2>5. \A o \in Renderers \ {d} : ~Passing(o)'
    BY <1>2, <2>2
  <2> QED
    BY <2>3, <2>4, <2>5
<1>5. (clean /\ ~overlapped => Settled)'
  BY DEF PassMoves
<1>6. StopOK'
  BY DaemonKeepsStop DEF Renderers
<1> QED
  BY <1>1, <1>3, <1>4, <1>5, <1>6 DEF PublishInv

(* A step that only renders.                                               *)
Rendered(d, s, t, p, e) ==
    /\ Passing(d) /\ job[d].todo = <<>> /\ JobMoved(d, s, t, FALSE, p, e)
    /\ rows' = rows /\ run' = run /\ site' = site /\ tmps' = tmps
    /\ overlapped' = overlapped /\ clean' = clean /\ saw' = saw
    /\ shown' \in shown..Len(rows)

LEMMA RenderStep ==
    ASSUME PublishInv, NEW d \in Renderers, NEW s, NEW t, NEW p, NEW e, Rendered(d, s, t, p, e),
           \A x : Holds(t, x) => FineSoon(x.page, x.content),
           PassOK(d)', ~overlapped => AloneOK(d)', d = "stop" => StopOK'
    PROVE  PublishInv'
<1>1. PublishTypeOK /\ FilesFine
  BY DEF PublishInv
<1>2. shown \in Nat /\ shown' \in Nat /\ shown <= shown' /\ shown' \in 0..Len(rows)
  BY <1>1 DEF PublishTypeOK, Rendered
<1>3. PassMoves(d)
  BY <1>1, <1>2 DEF PassMoves, Rendered, JobMoved, PublishTypeOK
<1>4. FilesFine'
  <2>1. \A o \in Renderers : \A x : Holds(job'[o].todo, x) => FineSoon(x.page, x.content)
    BY <1>1 DEF Rendered, JobMoved, FilesFine, FineSoon
  <2>2. \A q, c : q \in DOMAIN site' /\ c = site'[q] => FineSoon(q, c)
    BY <1>1 DEF Rendered, FilesFine, FineSoon
  <2>3. \A q, c : q \in DOMAIN tmps' /\ c = tmps'[q] => FineSoon(q, c)
    BY <1>1 DEF Rendered, FilesFine, FineSoon
  <2>4. RowsGrew
    BY <1>1, RowsStay DEF Rendered, PublishTypeOK
  <2>5. DOMAIN site \subseteq DOMAIN site'
    BY DEF Rendered
  <2> QED
    BY <1>1, <1>2, <2>1, <2>2, <2>3, <2>4, <2>5, FilesKept
<1>5. Passing(d) /\ (~overlapped => ~clean')
  BY DEF PublishInv, Rendered
<1> QED
  BY <1>3, <1>4, <1>5, PassStep

LEMMA OneFile ==
    ASSUME NEW x \in Files
    PROVE  <<x>> \in Seq(Files) /\ <<x>> # <<>> /\ \A y : Holds(<<x>>, y) <=> y = x
BY DEF Holds

(* What a pass has at hand before it renders.                              *)
LEMMA StageFacts ==
    ASSUME PublishInv, NEW d \in Renderers, Passing(d), job[d].todo = <<>>
    PROVE  /\ PublishTypeOK /\ StopOK /\ PassOK(d) /\ job[d].written = FALSE
           /\ ~overlapped => AloneOK(d)
           /\ \A x : ~Holds(job[d].todo, x)
<1>1. PublishTypeOK /\ StopOK /\ PassOK(d)
  BY DEF PublishInv
<1>2. ~overlapped => AloneOK(d)
  BY DEF PublishInv
<1>3. \A x : ~Holds(job[d].todo, x)
  BY DEF Holds
<1>4. job[d].written = FALSE
  BY <1>1, JobFacts DEF PassOK
<1> QED
  BY <1>1, <1>2, <1>3, <1>4

(* The pass renders html_plain, after stop.sh's end stamp if it is its own.*)
LEMMA PlainOK ==
    ASSUME PublishInv, NEW d \in Renderers, RenderPlain(d)
    PROVE  PublishInv'
<1>1. job[d].stage = "forked" /\ PublishTypeOK /\ job[d].todo = <<>> /\ Passing(d)
  BY DEF RenderPlain, PublishInv, PassOK, Passing
<1>2. PublishTypeOK /\ StopOK /\ PassOK(d) /\ job[d].written = FALSE
  BY <1>1, StageFacts
<1>3. PICK x : x = File(Out, Plain(Ended))
  OBVIOUS
<1>4. Ended \in BOOLEAN
  BY DEF Ended
<1>5. PICK ended \in BOOLEAN : ended = Ended
  BY <1>4
<1>6. x \in Files /\ x.page = Out /\ x.content.links = {}
  <2>1. Out \in PageNames /\ Plain(ended) \in Contents /\ Plain(ended).links = {}
    BY ContentFacts DEF PageNames
  <2> QED
    BY <1>3, <1>5, <2>1, FileFacts
<1>7. JobMoved(d, "plain", <<x>>, FALSE, ended, job[d].seen)
  <2>1. "plain" \in Stages /\ <<x>> \in Seq(Files)
    BY <1>6 DEF Stages
  <2>2. job' = [job EXCEPT ![d].stage = "plain", ![d].plain = ended, ![d].todo = <<x>>]
    BY <1>3, <1>5 DEF RenderPlain
  <2>3. JobMoved(d, "plain", <<x>>, job[d].written, ended, job[d].seen)
    BY <1>2, <2>1, <2>2, PlainMoves
  <2> QED
    BY <1>2, <2>3
<1>8. Rendered(d, "plain", <<x>>, ended, job[d].seen)
  <2>1. shown \in shown..Len(rows)
    BY <1>2 DEF PublishTypeOK
  <2> QED
    BY <1>1, <1>7, <2>1 DEF RenderPlain, Rendered, publishHistory
<1>9. \A y : Holds(<<x>>, y) => FineSoon(y.page, y.content)
  BY <1>6, OneFile DEF FineSoon, Fine
<1>10. PassOK(d)' /\ AloneOK(d)'
  BY <1>7 DEF JobMoved, PassOK, AloneOK, Passing
<1>11. ASSUME d = "stop" PROVE StopOK'
  <2>1. run = "stopped" /\ (~overlapped => ~Passing("daemon"))
    BY <1>1, <1>2, <1>11 DEF StopOK
  <2>2. job'["daemon"] = job["daemon"]
    BY <1>7, <1>11 DEF JobMoved, Renderers
  <2>3. Ended
    BY <2>1 DEF Ended
  <2>4. job'["stop"].plain
    BY <1>5, <1>7, <1>11, <2>3 DEF JobMoved
  <2> QED
    BY <1>7, <1>8, <1>11, <2>1, <2>2, <2>4 DEF StopOK, JobMoved, Rendered, Passing
<1> QED
  BY <1>8, <1>9, <1>10, <1>11, RenderStep

(* The dashboard links to findings of this run and to their buckets.       *)
LEMMA DashboardLinksFacts ==
    ASSUME PublishTypeOK
    PROVE  /\ DashboardLinks \in SUBSET PageNames
           /\ DashboardLinks \subseteq {FindingPage(f) : f \in Own}
                                         \cup {BucketPage(b) : b \in Touched \cup {AsanBucket}}
<1>1. DashboardRows.findings = Own
      /\ DashboardRows.buckets = Touched \cup {b \in {AsanBucket} : Members(b) # {}}
  BY DEF DashboardRows
<1>2. Own \subseteq Nat /\ Touched \subseteq PageBuckets
  BY OwnFacts
<1>3. \A b \in {AsanBucket} : Members(b) # {} => b \in PageBuckets
  BY OwnFacts
<1>4. DashboardLinks = {FindingPage(f) : f \in Own} \cup
         {BucketPage(b) : b \in Touched \cup {b \in {AsanBucket} : Members(b) # {}}}
  BY <1>1 DEF DashboardLinks
<1>5. \A b \in Touched \cup {b \in {AsanBucket} : Members(b) # {}} :
         b \in PageBuckets /\ b \in Touched \cup {AsanBucket}
  BY <1>2, <1>3
<1> QED
  BY <1>2, <1>4, <1>5 DEF PageNames

(* It renders the dashboard of what has been found so far.                 *)
LEMMA DashboardOK ==
    ASSUME PublishInv, NEW d \in Renderers, RenderDashboard(d)
    PROVE  PublishInv'
<1>1. job[d].stage = "plain" /\ job[d].todo = <<>> /\ Passing(d)
  BY DEF RenderDashboard, Passing
<1>2. PublishTypeOK /\ StopOK /\ job[d].written = FALSE
  BY <1>1, StageFacts
<1> DEFINE html == IF d = "daemon" THEN [links |-> DashboardLinks, final |-> Ended]
                                   ELSE Plain(job[d].plain)
<1>3. PICK x : x = File(Dashboard, html)
  OBVIOUS
<1>4. Ended \in BOOLEAN
  BY DEF Ended
<1>5. PICK ended \in BOOLEAN : ended = Ended
  BY <1>4
<1>6. /\ x \in Files /\ x.page = Dashboard
      /\ x.content.links \subseteq {FindingPage(f) : f \in Own}
                                     \cup {BucketPage(b) : b \in Touched \cup {AsanBucket}}
  <2>1. Dashboard \in PageNames
    BY DEF PageNames
  <2>2. /\ html \in Contents
        /\ html.links \subseteq {FindingPage(f) : f \in Own}
                                  \cup {BucketPage(b) : b \in Touched \cup {AsanBucket}}
    <3>1. CASE d = "daemon"
      <4>1. html = [links |-> DashboardLinks, final |-> ended]
        BY <1>5, <3>1
      <4> QED
        BY <1>2, <4>1, DashboardLinksFacts DEF Contents
    <3>2. CASE d # "daemon"
      <4>1. html = Plain(job[d].plain) /\ job[d].plain \in BOOLEAN
        BY <1>2, <3>2, JobFacts
      <4> QED
        BY <4>1, ContentFacts
    <3> QED
      BY <3>1, <3>2
  <2> HIDE DEF html
  <2>3. x \in Files /\ x.page = Dashboard /\ x.content = html
    BY <1>3, <2>1, <2>2, FileFacts
  <2> QED
    BY <2>2, <2>3
<1>7. JobMoved(d, "dashboard", <<x>>, FALSE, job[d].plain, ended)
  <2>1. "dashboard" \in Stages /\ <<x>> \in Seq(Files)
    BY <1>6 DEF Stages
  <2>2. job' = [job EXCEPT ![d].stage = "dashboard", ![d].seen = ended, ![d].todo = <<x>>]
    BY <1>3, <1>5 DEF RenderDashboard
  <2>3. JobMoved(d, "dashboard", <<x>>, job[d].written, job[d].plain, ended)
    BY <1>2, <2>1, <2>2, SeenMoves
  <2> QED
    BY <1>2, <2>3
<1>8. Rendered(d, "dashboard", <<x>>, job[d].plain, ended)
  <2>1. shown \in shown..Len(rows)
    BY <1>2 DEF PublishTypeOK
  <2> QED
    BY <1>1, <1>7, <2>1 DEF RenderDashboard, Rendered, publishHistory
<1>9. \A y : Holds(<<x>>, y) => FineSoon(y.page, y.content)
  BY <1>6, OneFile DEF FineSoon, Fine
<1>10. PassOK(d)' /\ AloneOK(d)'
  <2>1. Owes(d, {Dashboard})'
    BY <1>6, <1>7, OneFile DEF Owes, Holds, JobMoved
  <2> QED
    BY <1>7, <2>1 DEF JobMoved, PassOK, AloneOK, Passing
<1>11. ASSUME d = "stop" PROVE StopOK'
  <2>1. run = "stopped" /\ job[d].plain /\ (~overlapped => ~Passing("daemon"))
    BY <1>1, <1>2, <1>11 DEF StopOK
  <2>2. job'["daemon"] = job["daemon"]
    BY <1>7, <1>11 DEF JobMoved, Renderers
  <2>3. Ended
    BY <2>1 DEF Ended
  <2>4. job'["stop"].seen /\ job'["stop"].plain
    BY <1>5, <1>7, <1>11, <2>1, <2>3 DEF JobMoved
  <2> QED
    BY <1>7, <1>8, <1>11, <2>1, <2>2, <2>4 DEF StopOK, JobMoved, Rendered, Passing
<1> QED
  BY <1>8, <1>9, <1>10, <1>11, RenderStep

(* The later stages render without looking at the manifest.                *)
LEMMA StageRendered ==
    ASSUME PublishInv, NEW d \in Renderers, NEW from \in Stages, from \notin {"rest", "done", "failed"},
           NEW s \in Stages, NEW t \in Seq(Files),
           Stage(d, from, s, t), shown' \in shown..Len(rows)
    PROVE  /\ job[d].stage = from /\ job[d].todo = <<>> /\ Passing(d)
           /\ Rendered(d, s, t, job[d].plain, job[d].seen)
           /\ JobMoved(d, s, t, FALSE, job[d].plain, job[d].seen)
<1>1. job[d].stage = from /\ job[d].todo = <<>> /\ Passing(d)
  BY DEF Stage, Passing
<1>2. PublishTypeOK /\ job[d].written = FALSE
  BY <1>1, StageFacts
<1>3. job' = [job EXCEPT ![d].stage = s, ![d].todo = t]
  BY DEF Stage
<1>4. JobMoved(d, s, t, job[d].written, job[d].plain, job[d].seen)
  BY <1>2, <1>3, StageMoves
<1>5. JobMoved(d, s, t, FALSE, job[d].plain, job[d].seen)
  BY <1>2, <1>4
<1> QED
  BY <1>1, <1>5 DEF Stage, Rendered

LEMMA StillShown ==
    ASSUME PublishTypeOK, shown' = shown
    PROVE  shown' \in shown..Len(rows)
BY DEF PublishTypeOK

(* What stop.sh's pass keeps while it renders.                             *)
LEMMA StopMoves ==
    ASSUME PublishTypeOK, StopOK, NEW s, NEW t, NEW p, NEW e, Rendered("stop", s, t, p, e)
    PROVE  /\ run' = "stopped" /\ (~overlapped' => ~Passing("daemon")')
           /\ FinalSnapshot' <=> FinalSnapshot
           /\ job'["stop"].stage = s /\ job'["stop"].todo = t
           /\ job'["stop"].plain = p /\ job'["stop"].seen = e
<1>1. run = "stopped" /\ (~overlapped => ~Passing("daemon"))
  BY DEF StopOK, Rendered, Passing
<1>2. job'["daemon"] = job["daemon"]
  BY DEF Rendered, JobMoved, Renderers
<1> QED
  BY <1>1, <1>2 DEF Rendered, JobMoved, Passing, FinalSnapshot

(* It renders the index.                                                   *)
LEMMA IndexOK ==
    ASSUME PublishInv, NEW d \in Renderers, RenderIndex(d)
    PROVE  PublishInv'
<1>1. PICK x : x = File(Index, Html(IndexLinks))
  OBVIOUS
<1>2. /\ x \in Files /\ x.page = Index
      /\ x.content.links \subseteq {Dashboard} \cup {RunPage(r) : r \in Runs}
  <2>1. Index \in PageNames /\ IndexLinks \in SUBSET PageNames
    BY DEF PageNames, IndexLinks
  <2>2. Html(IndexLinks) \in Contents /\ Html(IndexLinks).links = IndexLinks
    BY <2>1, ContentFacts
  <2>3. x \in Files /\ x.page = Index /\ x.content = Html(IndexLinks)
    BY <1>1, <2>1, <2>2, FileFacts
  <2> QED
    BY <2>2, <2>3 DEF IndexLinks
<1>3. PublishTypeOK
  BY DEF PublishInv
<1>4. /\ job[d].stage = "dashboard" /\ job[d].todo = <<>> /\ Passing(d)
      /\ Rendered(d, "index", <<x>>, job[d].plain, job[d].seen)
      /\ JobMoved(d, "index", <<x>>, FALSE, job[d].plain, job[d].seen)
  <2>1. <<x>> \in Seq(Files) /\ "index" \in Stages /\ "dashboard" \in Stages
        /\ "dashboard" \notin {"rest", "done", "failed"}
    BY <1>2 DEF Stages
  <2>2. Stage(d, "dashboard", "index", <<x>>) /\ shown' \in shown..Len(rows)
    BY <1>1, <1>3, StillShown DEF RenderIndex
  <2> QED
    BY <2>1, <2>2, StageRendered
<1>5. PassOK(d) /\ StopOK /\ \A y : ~Holds(job[d].todo, y)
  BY <1>4, StageFacts
<1>6. \A y : Holds(<<x>>, y) => FineSoon(y.page, y.content)
  BY <1>2, OneFile DEF FineSoon, Fine
<1>7. PassOK(d)' /\ AloneOK(d)'
  <2>1. Dashboard \in DOMAIN site'
    BY <1>4, <1>5 DEF PassOK, Owes, Rendered
  <2> QED
    BY <1>4, <2>1 DEF JobMoved, PassOK, AloneOK, Passing
<1>8. ASSUME d = "stop" PROVE StopOK'
  <2>1. job[d].plain /\ job[d].seen
    BY <1>4, <1>5, <1>8 DEF StopOK
  <2>2. Rendered("stop", "index", <<x>>, job["stop"].plain, job["stop"].seen)
    BY <1>4, <1>8
  <2>3. /\ run' = "stopped" /\ (~overlapped' => ~Passing("daemon")')
        /\ job'["stop"].stage = "index"
        /\ job'["stop"].plain = job["stop"].plain /\ job'["stop"].seen = job["stop"].seen
    BY <1>3, <1>5, <2>2, StopMoves
  <2> QED
    BY <1>8, <2>1, <2>3 DEF StopOK
<1> QED
  BY <1>4, <1>6, <1>7, <1>8, RenderStep

(* It renders the snapshot of a run that has ended.                        *)
LEMMA SnapshotOK ==
    ASSUME PublishInv, NEW d \in Renderers, RenderSnapshot(d)
    PROVE  PublishInv'
<1>1. PICK x : x = File(RunPage("this"), Plain(job[d].plain))
  OBVIOUS
<1>2. PICK t : t = IF job[d].seen THEN <<x>> ELSE <<>>
  OBVIOUS
<1>3. PublishTypeOK
  BY DEF PublishInv
<1>4. x \in Files /\ x.page = RunPage("this") /\ x.content.links = {}
  <2>1. RunPage("this") \in PageNames /\ job[d].plain \in BOOLEAN
    BY <1>3, JobFacts DEF PageNames, Runs
  <2>2. Plain(job[d].plain) \in Contents /\ Plain(job[d].plain).links = {}
    BY <2>1, ContentFacts
  <2> QED
    BY <1>1, <2>1, <2>2, FileFacts
<1>5. /\ t \in Seq(Files) /\ \A y : Holds(t, y) => y = x
      /\ job[d].seen => t # <<>> /\ Holds(t, x)
  <2>1. <<>> \in Seq(Files) /\ \A y : ~Holds(<<>>, y)
    BY DEF Holds
  <2> QED
    BY <1>2, <1>4, <2>1, OneFile
<1>6. /\ job[d].stage = "index" /\ job[d].todo = <<>> /\ Passing(d)
      /\ Rendered(d, "snapshot", t, job[d].plain, job[d].seen)
      /\ JobMoved(d, "snapshot", t, FALSE, job[d].plain, job[d].seen)
  <2>1. "index" \in Stages /\ "snapshot" \in Stages /\ "index" \notin {"rest", "done", "failed"}
    BY DEF Stages
  <2>2. Stage(d, "index", "snapshot", t) /\ shown' \in shown..Len(rows)
    BY <1>1, <1>2, <1>3, StillShown DEF RenderSnapshot
  <2> QED
    BY <1>5, <2>1, <2>2, StageRendered
<1>7. PassOK(d) /\ StopOK
  BY <1>6, StageFacts
<1>8. \A y : Holds(t, y) => FineSoon(y.page, y.content)
  <2>1. Fine(x.page, x.content)
    BY <1>4 DEF Fine, Runs
  <2> QED
    BY <1>5, <2>1 DEF FineSoon
<1>9. PassOK(d)' /\ AloneOK(d)'
  <2>1. Dashboard \in DOMAIN site'
    BY <1>6, <1>7 DEF PassOK, Rendered
  <2>2. job[d].seen => Owes(d, {RunPage("this")})'
    BY <1>4, <1>5, <1>6 DEF Owes, Holds, JobMoved
  <2> QED
    BY <1>6, <2>1, <2>2 DEF JobMoved, PassOK, AloneOK, Passing
<1>10. ASSUME d = "stop" PROVE StopOK'
  <2>1. job[d].plain /\ job[d].seen
    BY <1>6, <1>7, <1>10 DEF StopOK
  <2>2. x = File(RunPage("this"), Plain(TRUE))
    <3>1. job[d].plain = TRUE
      BY <1>3, <2>1, JobFacts
    <3> QED
      BY <1>1, <3>1
  <2>3. \A y : Holds(t, y)' => y = File(RunPage("this"), Plain(TRUE))
    BY <1>5, <2>2 DEF Holds
  <2>4. Rendered("stop", "snapshot", t, job["stop"].plain, job["stop"].seen)
    BY <1>6, <1>10
  <2>5. /\ run' = "stopped" /\ (~overlapped' => ~Passing("daemon")')
        /\ job'["stop"].stage = "snapshot" /\ job'["stop"].todo = t
        /\ job'["stop"].plain = job["stop"].plain /\ job'["stop"].seen = job["stop"].seen
    BY <1>3, <1>7, <2>4, StopMoves
  <2>6. t # <<>>
    BY <1>5, <2>1
  <2> QED
    BY <1>10, <2>1, <2>3, <2>5, <2>6 DEF StopOK, Holds
<1> QED
  BY <1>6, <1>8, <1>9, <1>10, RenderStep

(* A dashboard that is fine links only to what has come up so far.         *)
LEMMA DashboardFine ==
    ASSUME NEW c, Fine(Dashboard, c)
    PROVE  c.links \subseteq {FindingPage(f) : f \in Own}
                               \cup {BucketPage(b) : b \in Touched \cup {AsanBucket}}
<1>1. /\ Dashboard # Index /\ \A f : Dashboard # FindingPage(f)
      /\ \A b : Dashboard # BucketPage(b)
  BY PageFacts
<1> QED
  BY <1>1 DEF Fine

(* It renders the pages of all findings there are by now.                  *)
LEMMA FindingsOK ==
    ASSUME PublishInv, NEW d \in Renderers, RenderFindings(d)
    PROVE  PublishInv'
<1>1. PublishTypeOK /\ FilesFine
  BY DEF PublishInv
<1>2. /\ FindingTree \in Seq(Files)
      /\ \A x : Holds(FindingTree, x) <=>
            \E f \in Own : x = PageFile(f) \/ (f \in Readable /\ x = IRFile(f))
  BY <1>1, FindingTreeFacts
<1>3. PICK t : t = FindingTree
  OBVIOUS
<1>4. shown' = Len(rows) /\ Len(rows) \in shown..Len(rows) /\ \A f \in Own : f \in Nat /\ f <= Len(rows)
  BY <1>1, OwnFacts DEF RenderFindings, PublishTypeOK
<1>5. /\ job[d].stage = "snapshot" /\ job[d].todo = <<>> /\ Passing(d)
      /\ Rendered(d, "findings", t, job[d].plain, job[d].seen)
      /\ JobMoved(d, "findings", t, FALSE, job[d].plain, job[d].seen)
  <2>1. "snapshot" \in Stages /\ "findings" \in Stages /\ "snapshot" \notin {"rest", "done", "failed"}
    BY DEF Stages
  <2>2. Stage(d, "snapshot", "findings", t) /\ shown' \in shown..Len(rows)
    BY <1>3, <1>4 DEF RenderFindings
  <2> QED
    BY <1>2, <1>3, <2>1, <2>2, StageRendered
<1>6. PassOK(d) /\ StopOK /\ \A y : ~Holds(job[d].todo, y)
  BY <1>5, StageFacts
<1>7. Own' = Own /\ rows' = rows /\ ShownFindings' = Own
  BY <1>4, <1>5 DEF Rendered, Own, ShownFindings
<1>8. \A f \in Own :
         /\ PageFile(f).page = FindingPage(f) /\ PageFile(f).content.links = FindingLinks(f)
         /\ IRFile(f).page = FindingIR(f) /\ IRFile(f).content.links = {}
  BY <1>1, FindingFileFacts
<1>9. \A y : Holds(t, y) => FineSoon(y.page, y.content) /\ y.page[1] \in {"findings", "findings_ll"}
  <2> SUFFICES ASSUME NEW z, NEW f \in Own, z = PageFile(f) \/ (f \in Readable /\ z = IRFile(f))
               PROVE  FineSoon(z.page, z.content) /\ z.page[1] \in {"findings", "findings_ll"}
    BY <1>2, <1>3
  <2>1. f \in Own' /\ f <= shown' /\ f \in Nat /\ rows'[f] = rows[f]
    BY <1>4, <1>7
  <2>2. CASE z = PageFile(f)
    <3>1. z.page = FindingPage(f) /\ z.content.links = FindingLinks(f)
      BY <1>8, <2>2
    <3>2. z.content.links \subseteq {BucketPage(rows'[f].bucket), RunPage("this"), Dashboard}
                                     \cup {FindingIR(g) : g \in {f} \cap Readable}
      BY <2>1, <3>1 DEF FindingLinks
    <3>3. Fine(z.page, z.content)'
      BY <2>1, <3>1, <3>2 DEF Fine
    <3> QED
      BY <3>1, <3>3, PageFacts DEF FineSoon
  <2>3. CASE z = IRFile(f)
    <3>1. z.page = FindingIR(f) /\ z.content.links = {}
      BY <1>8, <2>3
    <3>2. Fine(z.page, z.content)
      BY <2>1, <3>1 DEF Fine
    <3> QED
      BY <3>1, <3>2, PageFacts DEF FineSoon
  <2> QED
    BY <2>2, <2>3
<1>10. PassOK(d)'
  <2>1. Dashboard \in DOMAIN site'
    BY <1>5, <1>6 DEF PassOK, Rendered
  <2>2. job[d].seen => RunPage("this") \in DOMAIN site'
    BY <1>5, <1>6 DEF PassOK, Owes, Rendered
  <2>3. \A y : Holds(job'[d].todo, y) => y.page[1] \in {"findings", "findings_ll"}
    BY <1>5, <1>9 DEF JobMoved
  <2> QED
    BY <1>5, <2>1, <2>2, <2>3 DEF JobMoved, PassOK, Passing, Holds
<1>11. AloneOK(d)'
  <2>1. Owes(d, ShownPages)'
    <3>1. ShownPages' = {FindingPage(f) : f \in Own} \cup {FindingIR(f) : f \in Own \cap Readable}
      BY <1>7 DEF ShownPages
    <3>2. \A p \in ShownPages' : \E x : Holds(t, x) /\ x.page = p
      <4>1. \A f \in Own : Holds(t, PageFile(f)) /\ PageFile(f).page = FindingPage(f)
        BY <1>2, <1>3, <1>8
      <4>2. \A f \in Own \cap Readable : Holds(t, IRFile(f)) /\ IRFile(f).page = FindingIR(f)
        BY <1>2, <1>3, <1>8
      <4> QED
        BY <3>1, <4>1, <4>2
    <3> QED
      BY <1>5, <3>2 DEF Owes, JobMoved, Holds
  <2>2. DashboardShown'
    <3>1. Dashboard \in DOMAIN site =>
             site[Dashboard].links \subseteq {FindingPage(f) : f \in Own}
                                               \cup {BucketPage(b) : b \in Touched \cup {AsanBucket}}
      BY <1>1, DashboardFine DEF FilesFine
    <3>2. ShownBuckets' = {BucketPage(b) : b \in Touched}
      BY <1>7 DEF ShownBuckets, Touched
    <3>3. site' = site
      BY <1>5 DEF Rendered
    <3> QED
      BY <1>7, <3>1, <3>2, <3>3 DEF DashboardShown
  <2> QED
    BY <1>5, <2>1, <2>2 DEF AloneOK, JobMoved
<1>12. ASSUME d = "stop" PROVE StopOK'
  <2>1. job[d].plain /\ job[d].seen /\ FinalSnapshot
    BY <1>5, <1>6, <1>12 DEF StopOK
  <2>2. Rendered("stop", "findings", t, job["stop"].plain, job["stop"].seen)
    BY <1>5, <1>12
  <2>3. /\ run' = "stopped" /\ (~overlapped' => ~Passing("daemon")')
        /\ job'["stop"].stage = "findings" /\ FinalSnapshot'
        /\ job'["stop"].plain = job["stop"].plain /\ job'["stop"].seen = job["stop"].seen
    BY <1>1, <1>6, <2>1, <2>2, StopMoves
  <2> QED
    BY <1>12, <2>1, <2>3 DEF StopOK
<1> QED
  BY <1>5, <1>9, <1>10, <1>11, <1>12, RenderStep

(* It renders the pages of their buckets, and of those that came up since. *)
LEMMA BucketsOK ==
    ASSUME PublishInv, NEW d \in Renderers, RenderBuckets(d)
    PROVE  PublishInv'
<1>1. PublishTypeOK
  BY DEF PublishInv
<1>2. BucketTree \in Seq(Files) /\ \A x : Holds(BucketTree, x) <=> \E b \in Touched : x = BucketFile(b)
  BY <1>1, BucketTreeFacts
<1>3. PICK t : t = BucketTree
  OBVIOUS
<1>4. shown' = shown /\ shown' \in shown..Len(rows)
  BY <1>1, StillShown DEF RenderBuckets
<1>5. /\ job[d].stage = "findings" /\ job[d].todo = <<>> /\ Passing(d)
      /\ Rendered(d, "buckets", t, job[d].plain, job[d].seen)
      /\ JobMoved(d, "buckets", t, FALSE, job[d].plain, job[d].seen)
  <2>1. "findings" \in Stages /\ "buckets" \in Stages /\ "findings" \notin {"rest", "done", "failed"}
    BY DEF Stages
  <2>2. Stage(d, "findings", "buckets", t)
    BY <1>3 DEF RenderBuckets
  <2> QED
    BY <1>2, <1>3, <1>4, <2>1, <2>2, StageRendered
<1>6. PassOK(d) /\ StopOK /\ (~overlapped => AloneOK(d)) /\ \A y : ~Holds(job[d].todo, y)
  BY <1>5, StageFacts
<1>7. \A b \in Touched : BucketFile(b).page = BucketPage(b) /\ BucketFile(b).content.links = BucketLinks(b)
  BY <1>1, BucketFileFacts
<1>8. \A y : Holds(t, y) => FineSoon(y.page, y.content) /\ y.page[1] = "buckets"
  <2> SUFFICES ASSUME NEW z, NEW b \in Touched, z = BucketFile(b)
               PROVE  Fine(z.page, z.content) /\ z.page[1] = "buckets"
    BY <1>2, <1>3 DEF FineSoon
  <2>2. z.page = BucketPage(b) /\ z.content.links = BucketLinks(b)
    BY <1>7
  <2>3. SnapshotRuns({rows[f].run : f \in Members(b)}) \subseteq {q \in Runs : RunPage(q) \in DOMAIN site}
    <3>1. \A f \in Members(b) : rows[f].run \in Runs
      BY <1>1, OwnFacts DEF Members
    <3> QED
      BY <3>1 DEF SnapshotRuns
  <2>4. z.content.links \subseteq {RunPage("this"), Dashboard, FindingPage(Representative(b))}
                                    \cup {FindingPage(f) : f \in Own}
                                    \cup {RunPage(r) : r \in {q \in Runs : RunPage(q) \in DOMAIN site}}
    BY <2>2, <2>3 DEF BucketLinks
  <2>5. Fine(z.page, z.content)
    BY <2>2, <2>4 DEF Fine
  <2> QED
    BY <2>2, <2>5, PageFacts
<1>9. PassOK(d)'
  <2>1. Dashboard \in DOMAIN site'
    BY <1>5, <1>6 DEF PassOK, Rendered
  <2>2. job[d].seen => RunPage("this") \in DOMAIN site'
    BY <1>5, <1>6 DEF PassOK, Rendered
  <2>3. \A y : Holds(job'[d].todo, y) => y.page[1] = "buckets"
    BY <1>5, <1>8 DEF JobMoved
  <2> QED
    BY <1>5, <2>1, <2>2, <2>3 DEF JobMoved, PassOK, Passing, Holds
<1>10. ASSUME ~overlapped PROVE AloneOK(d)'
  <2>0. lost' = lost /\ job'[d].written = FALSE /\ job'[d].stage = "buckets"
    BY <1>5 DEF RenderBuckets, JobMoved
  <2> SUFFICES ASSUME d \notin lost PROVE AloneOK(d)'
    BY <2>0 DEF AloneOK
  <2>1. RowsGrew
    BY <1>1, <1>5, RowsStay DEF Rendered, PublishTypeOK
  <2>2. ShownFindings' = ShownFindings /\ ShownPages' = ShownPages /\ ShownBuckets' = ShownBuckets
    BY <1>1, <1>4, <2>1, ShownStays
  <2>3. ShownPages \subseteq DOMAIN site /\ DashboardShown
    BY <1>5, <1>6, <1>10 DEF AloneOK, Owes
  <2>4. \A p \in ShownBuckets : \E x : Holds(t, x) /\ x.page = p
    <3>1. \A f \in ShownFindings : rows[f].bucket \in Touched
      BY DEF ShownFindings, Touched
    <3>2. \A b \in Touched : Holds(t, BucketFile(b)) /\ BucketFile(b).page = BucketPage(b)
      BY <1>2, <1>3, <1>7
    <3> QED
      BY <3>1, <3>2 DEF ShownBuckets
  <2>5. Owes(d, ShownBuckets)'
    BY <1>5, <2>2, <2>4 DEF Owes, JobMoved, Holds
  <2>6. ShownPages' \subseteq DOMAIN site' /\ DashboardShown'
    BY <1>5, <2>2, <2>3 DEF Rendered, DashboardShown
  <2> QED
    BY <1>5, <2>5, <2>6 DEF AloneOK, JobMoved
<1>11. ASSUME d = "stop" PROVE StopOK'
  <2>1. job[d].plain /\ job[d].seen /\ FinalSnapshot
    BY <1>5, <1>6, <1>11 DEF StopOK
  <2>2. Rendered("stop", "buckets", t, job["stop"].plain, job["stop"].seen)
    BY <1>5, <1>11
  <2>3. /\ run' = "stopped" /\ (~overlapped' => ~Passing("daemon")')
        /\ job'["stop"].stage = "buckets" /\ FinalSnapshot'
        /\ job'["stop"].plain = job["stop"].plain /\ job'["stop"].seen = job["stop"].seen
    BY <1>1, <1>6, <2>1, <2>2, StopMoves
  <2> QED
    BY <1>11, <2>1, <2>3 DEF StopOK
<1> QED
  BY <1>5, <1>8, <1>9, <1>10, <1>11, RenderStep

(* A failed query: the pass goes on with nothing to write, and is not      *)
(* counted on any more.                                                    *)
LEMMA LoseOK ==
    ASSUME PublishInv, NEW d \in Renderers, LoseFindings(d) \/ LoseBuckets(d)
    PROVE  PublishInv'
<1>1. PublishTypeOK
  BY DEF PublishInv
<1>2. PICK from, s : /\ \/ from = "snapshot" /\ s = "findings"
                        \/ from = "findings" /\ s = "buckets"
                     /\ Stage(d, from, s, <<>>) /\ QueryFails(d)
  BY DEF LoseFindings, LoseBuckets
<1>3. PICK t : t = <<>>
  OBVIOUS
<1>4. t \in Seq(Files) /\ \A y : ~Holds(t, y)
  BY <1>3 DEF Holds
<1>5. /\ job[d].stage = from /\ job[d].todo = <<>> /\ Passing(d)
      /\ Rendered(d, s, t, job[d].plain, job[d].seen)
      /\ JobMoved(d, s, t, FALSE, job[d].plain, job[d].seen)
  <2>1. from \in Stages /\ s \in Stages /\ from \notin {"rest", "done", "failed"}
    BY <1>2 DEF Stages
  <2>2. Stage(d, from, s, t) /\ shown' \in shown..Len(rows)
    BY <1>1, <1>2, <1>3, StillShown DEF QueryFails
  <2> QED
    BY <1>4, <2>1, <2>2, StageRendered
<1>6. PassOK(d) /\ StopOK /\ \A y : ~Holds(job[d].todo, y)
  BY <1>5, StageFacts
<1>7. PassOK(d)'
  <2>1. Dashboard \in DOMAIN site'
    BY <1>2, <1>5, <1>6 DEF PassOK, Rendered
  <2>2. job[d].seen => RunPage("this") \in DOMAIN site'
    BY <1>2, <1>5, <1>6 DEF PassOK, Owes, Rendered
  <2>3. \A y : ~Holds(job'[d].todo, y)
    BY <1>4, <1>5 DEF JobMoved
  <2> QED
    BY <1>2, <1>5, <2>1, <2>2, <2>3 DEF JobMoved, PassOK, Passing, Holds
<1>8. AloneOK(d)'
  <2>1. d \in lost'
    BY <1>2 DEF QueryFails
  <2> QED
    BY <1>5, <2>1 DEF AloneOK, JobMoved
<1>9. ASSUME d = "stop" PROVE StopOK'
  <2>1. job[d].plain /\ job[d].seen /\ FinalSnapshot
    BY <1>2, <1>5, <1>6, <1>9 DEF StopOK
  <2>2. Rendered("stop", s, t, job["stop"].plain, job["stop"].seen)
    BY <1>5, <1>9
  <2>3. /\ run' = "stopped" /\ (~overlapped' => ~Passing("daemon")')
        /\ job'["stop"].stage = s /\ FinalSnapshot'
        /\ job'["stop"].plain = job["stop"].plain /\ job'["stop"].seen = job["stop"].seen
    BY <1>1, <1>6, <2>1, <2>2, StopMoves
  <2> QED
    BY <1>2, <1>9, <2>1, <2>3 DEF StopOK
<1> QED
  BY <1>4, <1>5, <1>7, <1>8, <1>9, RenderStep

(* A pass that ends, or dies, leaves what it has put in place.             *)
LEMMA Leaves ==
    ASSUME PublishInv, NEW d \in Renderers, Passing(d),
           NEW s \in {"rest", "done", "failed"}, job' = [job EXCEPT ![d] = Idle(s)],
           rows' = rows, run' = run, site' = site, tmps' = tmps, overlapped' = overlapped,
           shown' = shown, saw' \in BOOLEAN, clean' \in BOOLEAN,
           ~overlapped /\ clean' => Settled',
           d = "stop" => s = "failed" \/ (s = "done" /\ FinalSnapshot)
    PROVE  PublishInv'
<1>1. PublishTypeOK /\ FilesFine
  BY DEF PublishInv
<1>2. JobMoved(d, s, <<>>, FALSE, FALSE, FALSE)
  <2>1. s \in Stages
    BY DEF Stages
  <2> QED
    BY <1>1, <2>1, IdleMoves
<1>3. shown' \in Nat /\ shown <= shown' /\ shown' \in 0..Len(rows)
  BY <1>1 DEF PublishTypeOK
<1>4. PassMoves(d)
  BY <1>2, <1>3 DEF PassMoves, JobMoved
<1>5. FilesFine'
  <2>1. \A o \in Renderers : \A x : Holds(job'[o].todo, x) => FineSoon(x.page, x.content)
    BY <1>1, <1>2 DEF JobMoved, FilesFine, FineSoon, Holds
  <2>2. /\ \A q, c : q \in DOMAIN site' /\ c = site'[q] => FineSoon(q, c)
        /\ \A q, c : q \in DOMAIN tmps' /\ c = tmps'[q] => FineSoon(q, c)
    BY <1>1 DEF FilesFine, FineSoon
  <2>3. RowsGrew
    BY <1>1, RowsStay DEF PublishTypeOK
  <2> QED
    BY <1>1, <1>3, <2>1, <2>2, <2>3, FilesKept
<1>6. PassOK(d)' /\ ~Passing(d)'
  BY <1>2 DEF JobMoved, PassOK, Passing
<1>7. ASSUME d = "stop" PROVE StopOK'
  <2>1. StopOK
    BY DEF PublishInv
  <2>2. run = "stopped" /\ (~overlapped => ~Passing("daemon"))
    BY <1>7, <2>1 DEF StopOK, Passing
  <2>3. job'["daemon"] = job["daemon"]
    BY <1>2, <1>7 DEF JobMoved, Renderers
  <2>4. s = "done" => FinalSnapshot'
    BY <1>7 DEF FinalSnapshot
  <2> QED
    BY <1>2, <1>7, <2>2, <2>3, <2>4 DEF StopOK, JobMoved, Passing
<1> QED
  BY <1>4, <1>5, <1>6, <1>7, PassStep

(* At the end every link of what it has put in place is served.            *)
LEMMA EndOK ==
    ASSUME PublishInv, NEW d \in Renderers, EndPass(d)
    PROVE  PublishInv'
<1>1. job[d].stage = "buckets" /\ job[d].todo = <<>> /\ Passing(d)
  BY DEF EndPass, Passing
<1>2. PublishTypeOK /\ StopOK /\ PassOK(d) /\ (~overlapped => AloneOK(d)) /\ \A x : ~Holds(job[d].todo, x)
  BY <1>1, StageFacts
<1>3. PICK s \in {"rest", "done", "failed"} : s = IF d = "stop" THEN "done" ELSE "rest"
  OBVIOUS
<1>4. job' = [job EXCEPT ![d] = Idle(s)]
  BY <1>3 DEF EndPass
<1>5. saw' \in BOOLEAN /\ clean' \in BOOLEAN
  BY <1>2, JobFacts DEF EndPass
<1>6. ASSUME ~overlapped, clean' PROVE Settled'
  <2>0. d \notin lost
    BY <1>6 DEF EndPass
  <2>1. /\ ShownPages \subseteq DOMAIN site /\ ShownBuckets \subseteq DOMAIN site /\ DashboardShown
    BY <1>1, <1>2, <1>6, <2>0 DEF AloneOK, Owes
  <2>2. Dashboard \in DOMAIN site /\ (job[d].seen => RunPage("this") \in DOMAIN site)
    BY <1>1, <1>2 DEF PassOK
  <2>3. ShownPages' = ShownPages /\ ShownBuckets' = ShownBuckets /\ DashboardShown'
    <3>1. RowsGrew
      BY <1>2, RowsStay DEF EndPass, PublishTypeOK
    <3>2. ShownFindings' = ShownFindings /\ ShownPages' = ShownPages /\ ShownBuckets' = ShownBuckets
      BY <1>2, <3>1, ShownStays DEF EndPass
    <3> QED
      BY <2>1, <3>2 DEF DashboardShown, EndPass
  <2>4. \A e \in Renderers : ~Passing(e)'
    <3>1. \A e \in Renderers \ {d} : ~Passing(e)
      BY <1>1, <1>6 DEF PublishInv
    <3>2. JobMoved(d, s, <<>>, FALSE, FALSE, FALSE)
      BY <1>2, <1>3, <1>4, IdleMoves DEF Stages
    <3> QED
      BY <1>3, <3>1, <3>2 DEF JobMoved, Passing
  <2> QED
    BY <2>1, <2>2, <2>3, <2>4 DEF Settled, EndPass
<1>7. d = "stop" => s = "done" /\ FinalSnapshot
  BY <1>1, <1>2, <1>3 DEF StopOK
<1> QED
  BY <1>1, <1>4, <1>5, <1>6, <1>7, Leaves DEF EndPass

(* A pass that dies does not end, and publishes nothing more.              *)
LEMMA FailOK ==
    ASSUME PublishInv, NEW d \in Renderers, Passing(d), Fails(d),
           UNCHANGED <<rows, run, site, tmps, publishHistory>>
    PROVE  PublishInv'
<1>1. PICK s \in {"rest", "done", "failed"} : s = IF d = "stop" THEN "failed" ELSE "rest"
  OBVIOUS
<1>2. job' = [job EXCEPT ![d] = Idle(s)] /\ (d = "stop" => s = "failed")
  BY <1>1 DEF Fails
<1>3. saw' \in BOOLEAN /\ clean' \in BOOLEAN
  BY DEF PublishInv, PublishTypeOK, publishHistory
<1>4. ~overlapped => ~clean'
  BY DEF PublishInv, publishHistory
<1> QED
  BY <1>2, <1>3, <1>4, Leaves DEF publishHistory

-----------------------------------------------------------------------------
(* A file is taken off the front of what is to be written.                 *)
LEMMA TakeFirst ==
    ASSUME NEW t \in Seq(Files), t # <<>>
    PROVE  /\ Head(t) \in Files /\ Tail(t) \in Seq(Files)
           /\ \A x : Holds(t, x) <=> x = Head(t) \/ Holds(Tail(t), x)
<1>1. /\ Len(t) \in Nat /\ Len(t) >= 1 /\ DOMAIN t = 1..Len(t) /\ Head(t) = t[1] /\ Head(t) \in Files
      /\ Tail(t) \in Seq(Files) /\ Len(Tail(t)) = Len(t) - 1 /\ DOMAIN Tail(t) = 1..(Len(t) - 1)
      /\ \A i \in 1..(Len(t) - 1) : Tail(t)[i] = t[i + 1]
  OBVIOUS
<1>2. ASSUME NEW x, Holds(t, x) PROVE x = Head(t) \/ Holds(Tail(t), x)
  <2>1. PICK i \in 1..Len(t) : t[i] = x
    BY <1>1, <1>2 DEF Holds
  <2>2. CASE i = 1
    BY <1>1, <2>1, <2>2
  <2>3. CASE i # 1
    <3>1. i - 1 \in 1..(Len(t) - 1) /\ (i - 1) + 1 = i
      BY <1>1, <2>3
    <3>2. Tail(t)[i - 1] = x
      BY <1>1, <2>1, <3>1
    <3> QED
      BY <1>1, <3>1, <3>2 DEF Holds
  <2> QED
    BY <2>2, <2>3
<1>3. ASSUME NEW x, Holds(Tail(t), x) PROVE Holds(t, x)
  <2>1. PICK i \in 1..(Len(t) - 1) : Tail(t)[i] = x
    BY <1>1, <1>3 DEF Holds
  <2>2. i + 1 \in 1..Len(t) /\ t[i + 1] = x
    BY <1>1, <2>1
  <2> QED
    BY <1>1, <2>2 DEF Holds
<1>4. Holds(t, Head(t))
  <2>1. 1 \in 1..Len(t)
    BY <1>1
  <2> QED
    BY <1>1, <2>1 DEF Holds
<1> QED
  BY <1>1, <1>2, <1>3, <1>4

(* A pass that has a file to write.                                        *)
LEMMA AtFacts ==
    ASSUME PublishInv, NEW d \in Renderers, job[d].todo # <<>>
    PROVE  /\ Passing(d) /\ PublishTypeOK /\ FilesFine /\ PassOK(d) /\ StopOK
           /\ ~overlapped => ~clean /\ AloneOK(d)
           /\ job[d].todo \in Seq(Files) /\ Tail(job[d].todo) \in Seq(Files)
           /\ \A x : Holds(job[d].todo, x) <=> x = Head(job[d].todo) \/ Holds(Tail(job[d].todo), x)
           /\ Holds(job[d].todo, Head(job[d].todo)) /\ Fine(Page(d), Content(d))
<1>1. PublishTypeOK /\ FilesFine /\ PassOK(d) /\ StopOK
  BY DEF PublishInv
<1>2. Passing(d)
  BY <1>1 DEF PassOK
<1>3. ~overlapped => ~clean /\ AloneOK(d)
  BY <1>2 DEF PublishInv
<1>4. PICK t : t = job[d].todo
  OBVIOUS
<1>5. t \in Seq(Files) /\ t # <<>>
  BY <1>1, <1>4, JobFacts
<1>6. /\ Tail(t) \in Seq(Files)
      /\ \A x : Holds(t, x) <=> x = Head(t) \/ Holds(Tail(t), x)
  BY <1>5, TakeFirst
<1>7. Holds(t, Head(t))
  BY <1>6
<1>8. Fine(Head(t).page, Head(t).content)
  BY <1>1, <1>4, <1>7 DEF FilesFine
<1> QED
  BY <1>1, <1>2, <1>3, <1>4, <1>5, <1>6, <1>7, <1>8 DEF Page, Content

(* What a pass is left with once its next page is in place.                *)
LEMMA Placed ==
    ASSUME PublishInv, NEW d \in Renderers, job[d].todo # <<>>,
           JobMoved(d, job[d].stage, Tail(job[d].todo), FALSE, job[d].plain, job[d].seen),
           rows' = rows, run' = run, overlapped' = overlapped, clean' = clean, saw' = saw,
           shown' = shown, lost' = lost, DOMAIN site \subseteq DOMAIN site', Page(d) \in DOMAIN site',
           \A p \in DOMAIN site : p # Page(d) => site'[p] = site[p],
           FilesFine',
           d = "stop" /\ job[d].stage = "snapshot" => FinalSnapshot'
    PROVE  PublishInv'
<1>1. /\ Passing(d) /\ PublishTypeOK /\ PassOK(d) /\ StopOK
      /\ ~overlapped => ~clean /\ AloneOK(d)
      /\ \A x : Holds(job[d].todo, x) <=> x = Head(job[d].todo) \/ Holds(Tail(job[d].todo), x)
  BY AtFacts
<1>2. /\ job'[d].stage = job[d].stage /\ job'[d].written = FALSE
      /\ job'[d].plain = job[d].plain /\ job'[d].seen = job[d].seen
      /\ job'[d].todo = Tail(job[d].todo)
  BY DEF JobMoved
<1>3. PassMoves(d)
  BY <1>1 DEF PassMoves, JobMoved, PublishTypeOK
<1>4. ASSUME NEW S, Owes(d, S) PROVE \A p \in S : p \in DOMAIN site' \/ \E x : Holds(job'[d].todo, x) /\ x.page = p
  BY <1>1, <1>2, <1>4 DEF Owes, Page
<1>5. \A x : Holds(job'[d].todo, x) => Holds(job[d].todo, x)
  BY <1>1, <1>2
<1>6. Passing(d)'
  BY <1>1, <1>2 DEF Passing
<1>7. PassOK(d)'
  <2>1. job'[d].stage = "dashboard" => Owes(d, {Dashboard})'
    BY <1>1, <1>2, <1>4 DEF PassOK, Owes, Holds
  <2>2. job'[d].stage = "snapshot" /\ job'[d].seen => Owes(d, {RunPage("this")})'
    BY <1>1, <1>2, <1>4 DEF PassOK, Owes, Holds
  <2>3. job[d].stage # "forked"
    BY <1>1 DEF PassOK
  <2>4. job'[d].stage \in {"findings", "buckets"} =>
           \A x : Holds(job'[d].todo, x) => x.page[1] \in {"findings", "findings_ll", "buckets"}
    BY <1>1, <1>2, <1>5 DEF PassOK
  <2> QED
    BY <1>1, <1>2, <1>6, <2>1, <2>2, <2>3, <2>4 DEF PassOK, Holds
<1>8. job[d].stage \in {"findings", "buckets"} => Page(d) # Dashboard /\ Page(d) # RunPage("this")
  <2>1. job[d].stage \in {"findings", "buckets"} =>
           Page(d)[1] \in {"findings", "findings_ll", "buckets"}
    BY <1>1 DEF PassOK, Page
  <2> QED
    BY <2>1, PageFacts
<1>9. ASSUME ~overlapped PROVE AloneOK(d)'
  <2>1. AloneOK(d)
    BY <1>1, <1>9
  <2>2. ShownFindings' = ShownFindings /\ ShownPages' = ShownPages /\ ShownBuckets' = ShownBuckets
    <3>1. RowsGrew
      BY <1>1, RowsStay DEF PublishTypeOK
    <3> QED
      BY <1>1, <3>1, ShownStays
  <2>3. d \notin lost /\ job'[d].stage = "findings" => Owes(d, ShownPages)'
    BY <1>2, <1>4, <2>1, <2>2 DEF AloneOK, Owes, Holds
  <2>4. d \notin lost /\ job'[d].stage = "buckets" => ShownPages' \subseteq DOMAIN site' /\ Owes(d, ShownBuckets)'
    BY <1>2, <1>4, <2>1, <2>2 DEF AloneOK, Owes, Holds
  <2>5. d \notin lost /\ job'[d].stage \in {"findings", "buckets"} => DashboardShown'
    BY <1>1, <1>2, <1>8, <2>1, <2>2 DEF AloneOK, DashboardShown, PassOK
  <2> QED
    BY <1>2, <2>3, <2>4, <2>5 DEF AloneOK
<1>10. ASSUME d = "stop" PROVE StopOK'
  <2>1. run = "stopped" /\ (~overlapped => ~Passing("daemon"))
    BY <1>1, <1>10 DEF StopOK, Passing
  <2>2. job'["daemon"] = job["daemon"]
    BY <1>10 DEF JobMoved, Renderers
  <2>3. job[d].stage \in {"findings", "buckets"} => FinalSnapshot'
    BY <1>1, <1>8, <1>10 DEF StopOK, FinalSnapshot
  <2>4. job[d].stage = "snapshot" => \A x : Holds(job'[d].todo, x) => x = File(RunPage("this"), Plain(TRUE))
    BY <1>1, <1>5, <1>10 DEF StopOK
  <2>5. job[d].stage # "done"
    BY <1>1 DEF Passing
  <2> QED
    BY <1>1, <1>2, <1>10, <2>1, <2>2, <2>3, <2>4, <2>5 DEF StopOK, Passing, Holds
<1>11. ~overlapped => ~clean'
  BY <1>1
<1> QED
  BY <1>1, <1>3, <1>7, <1>9, <1>10, <1>11, PassStep

(* An IR file that is there is passed over.                                *)
LEMMA KeepOK ==
    ASSUME PublishInv, NEW d \in Renderers, KeepIR(d)
    PROVE  PublishInv'
<1>1. job[d].todo # <<>> /\ job[d].written = FALSE /\ Page(d)[1] = "findings_ll" /\ Page(d) \in DOMAIN site
  BY DEF KeepIR, At, Kept
<1>2. /\ Passing(d) /\ PublishTypeOK /\ FilesFine /\ PassOK(d) /\ StopOK
      /\ Tail(job[d].todo) \in Seq(Files)
      /\ \A x : Holds(job[d].todo, x) <=> x = Head(job[d].todo) \/ Holds(Tail(job[d].todo), x)
  BY <1>1, AtFacts
<1>3. JobMoved(d, job[d].stage, Tail(job[d].todo), FALSE, job[d].plain, job[d].seen)
  <2>1. PICK t : t = Tail(job[d].todo)
    OBVIOUS
  <2>2. t \in Seq(Files) /\ job[d].written \in BOOLEAN /\ job' = [job EXCEPT ![d].todo = t]
    BY <1>1, <1>2, <2>1 DEF KeepIR
  <2>3. JobMoved(d, job[d].stage, t, job[d].written, job[d].plain, job[d].seen)
    BY <1>2, <2>2, TodoMoves
  <2> QED
    BY <1>1, <2>1, <2>3
<1>4. FilesFine'
  <2>1. \A o \in Renderers : \A x : Holds(job'[o].todo, x) => FineSoon(x.page, x.content)
    BY <1>2, <1>3 DEF JobMoved, FilesFine, FineSoon
  <2>2. /\ \A q, c : q \in DOMAIN site' /\ c = site'[q] => FineSoon(q, c)
        /\ \A q, c : q \in DOMAIN tmps' /\ c = tmps'[q] => FineSoon(q, c)
    BY <1>2 DEF FilesFine, FineSoon, KeepIR
  <2>3. RowsGrew /\ shown' \in Nat /\ shown <= shown' /\ DOMAIN site \subseteq DOMAIN site'
    BY <1>2, RowsStay DEF PublishTypeOK, KeepIR, publishHistory
  <2> QED
    BY <1>2, <2>1, <2>2, <2>3, FilesKept
<1>5. ~(d = "stop" /\ job[d].stage = "snapshot")
  <2>1. d = "stop" /\ job[d].stage = "snapshot" => Head(job[d].todo) = File(RunPage("this"), Plain(TRUE))
    BY <1>2 DEF StopOK
  <2>2. d = "stop" /\ job[d].stage = "snapshot" => Page(d) = RunPage("this")
    BY <2>1 DEF Page, File
  <2> QED
    BY <1>1, <2>2, PageFacts
<1> QED
  BY <1>1, <1>3, <1>4, <1>5, Placed DEF KeepIR, publishHistory

(* A file is written beside its page.                                      *)
LEMMA WriteOK ==
    ASSUME PublishInv, NEW d \in Renderers, WriteTmp(d)
    PROVE  PublishInv'
<1>1. job[d].todo # <<>> /\ job[d].written = FALSE
  BY DEF WriteTmp, At
<1>2. /\ Passing(d) /\ PublishTypeOK /\ FilesFine /\ PassOK(d) /\ StopOK
      /\ ~overlapped => ~clean /\ AloneOK(d)
      /\ job[d].todo \in Seq(Files) /\ Fine(Page(d), Content(d))
  BY <1>1, AtFacts
<1>3. JobMoved(d, job[d].stage, job[d].todo, TRUE, job[d].plain, job[d].seen)
  <2>1. PICK w \in BOOLEAN : w = TRUE
    OBVIOUS
  <2>2. job' = [job EXCEPT ![d].written = w]
    BY <2>1 DEF WriteTmp
  <2>3. JobMoved(d, job[d].stage, job[d].todo, w, job[d].plain, job[d].seen)
    BY <1>2, <2>2, TodoMoves
  <2> QED
    BY <2>1, <2>3
<1>4. /\ DOMAIN tmps' = DOMAIN tmps \cup {Page(d)} /\ tmps'[Page(d)] = Content(d)
      /\ \A p \in DOMAIN tmps : p # Page(d) => tmps'[p] = tmps[p]
  <2>1. PICK q : q = Page(d)
    OBVIOUS
  <2>2. PICK c : c = Content(d)
    OBVIOUS
  <2>3. PICK dir : dir = tmps
    OBVIOUS
  <2>4. PICK put : put = Put(dir, q, c)
    OBVIOUS
  <2>5. /\ DOMAIN put = DOMAIN dir \cup {q} /\ put[q] = c
        /\ \A p \in DOMAIN dir : p # q => put[p] = dir[p]
    BY <2>4 DEF Put
  <2>6. tmps' = put
    BY <2>1, <2>2, <2>3, <2>4 DEF WriteTmp
  <2> QED
    BY <2>1, <2>2, <2>3, <2>5, <2>6
<1>5. FilesFine'
  <2>1. \A o \in Renderers : \A x : Holds(job'[o].todo, x) => FineSoon(x.page, x.content)
    BY <1>2, <1>3 DEF JobMoved, FilesFine, FineSoon
  <2>2. \A q, c : q \in DOMAIN site' /\ c = site'[q] => FineSoon(q, c)
    BY <1>2 DEF FilesFine, FineSoon, WriteTmp
  <2>3. \A q, c : q \in DOMAIN tmps' /\ c = tmps'[q] => FineSoon(q, c)
    BY <1>2, <1>4 DEF FilesFine, FineSoon
  <2>4. RowsGrew /\ shown' \in Nat /\ shown <= shown' /\ DOMAIN site \subseteq DOMAIN site'
    BY <1>2, RowsStay DEF PublishTypeOK, WriteTmp, publishHistory
  <2> QED
    BY <1>2, <2>1, <2>2, <2>3, <2>4, FilesKept
<1>6. /\ rows' = rows /\ run' = run /\ site' = site /\ overlapped' = overlapped /\ clean' = clean
      /\ saw' = saw /\ shown' = shown /\ lost' = lost
  BY DEF WriteTmp, publishHistory
<1>7. /\ job'[d].stage = job[d].stage /\ job'[d].written = TRUE /\ job'[d].todo = job[d].todo
      /\ job'[d].plain = job[d].plain /\ job'[d].seen = job[d].seen
  BY <1>3 DEF JobMoved
<1>8. PassMoves(d)
  BY <1>2, <1>3, <1>6 DEF PassMoves, JobMoved, PublishTypeOK
<1>9. PassOK(d)'
  BY <1>1, <1>2, <1>6, <1>7 DEF PassOK, Passing, Owes, Holds
<1>10. ASSUME ~overlapped PROVE AloneOK(d)'
  <2>1. Page(d)' = Page(d) /\ Content(d)' = Content(d)
    BY <1>7 DEF Page, Content
  <2>2. RowsGrew
    BY <1>2, <1>6, RowsStay DEF PublishTypeOK
  <2>3. ShownFindings' = ShownFindings /\ ShownPages' = ShownPages /\ ShownBuckets' = ShownBuckets
    BY <1>2, <1>6, <2>2, ShownStays
  <2> QED
    BY <1>2, <1>4, <1>6, <1>7, <1>10, <2>1, <2>3 DEF AloneOK, Owes, Holds, DashboardShown
<1>11. ASSUME d = "stop" PROVE StopOK'
  <2>1. job'["daemon"] = job["daemon"]
    BY <1>3, <1>11 DEF JobMoved, Renderers
  <2>2. /\ FinalSnapshot' = FinalSnapshot
        /\ Passing("daemon")' = Passing("daemon")
        /\ \A x : Holds(job'["stop"].todo, x) = Holds(job["stop"].todo, x)
    BY <1>6, <1>7, <1>11, <2>1 DEF Passing, Holds, FinalSnapshot
  <2> QED
    BY <1>2, <1>6, <1>7, <1>11, <2>1, <2>2 DEF StopOK
<1> QED
  BY <1>2, <1>5, <1>6, <1>8, <1>9, <1>10, <1>11, PassStep

(* It is moved onto the page: the one the pass wrote, if it is alone.      *)
LEMMA ReplaceOK ==
    ASSUME PublishInv, NEW d \in Renderers, Replace(d)
    PROVE  PublishInv'
<1>1. job[d].todo # <<>> /\ job[d].written = TRUE /\ Page(d) \in DOMAIN tmps
  BY DEF Replace, At
<1>2. /\ Passing(d) /\ PublishTypeOK /\ FilesFine /\ PassOK(d) /\ StopOK
      /\ ~overlapped => ~clean /\ AloneOK(d)
      /\ Tail(job[d].todo) \in Seq(Files)
      /\ \A x : Holds(job[d].todo, x) <=> x = Head(job[d].todo) \/ Holds(Tail(job[d].todo), x)
  BY <1>1, AtFacts
<1>3. JobMoved(d, job[d].stage, Tail(job[d].todo), FALSE, job[d].plain, job[d].seen)
  <2>1. PICK t : t = Tail(job[d].todo)
    OBVIOUS
  <2>2. PICK w \in BOOLEAN : w = FALSE
    OBVIOUS
  <2>3. t \in Seq(Files) /\ job' = [job EXCEPT ![d].todo = t, ![d].written = w]
    BY <1>2, <2>1, <2>2 DEF Replace
  <2>4. JobMoved(d, job[d].stage, t, w, job[d].plain, job[d].seen)
    BY <1>2, <2>3, TodoMoves
  <2> QED
    BY <2>1, <2>2, <2>4
<1>4. /\ DOMAIN site' = DOMAIN site \cup {Page(d)} /\ site'[Page(d)] = tmps[Page(d)]
      /\ \A p \in DOMAIN site : p # Page(d) => site'[p] = site[p]
  <2>1. PICK q : q = Page(d)
    OBVIOUS
  <2>2. PICK c : c = tmps[q]
    OBVIOUS
  <2>3. PICK dir : dir = site
    OBVIOUS
  <2>4. PICK put : put = Put(dir, q, c)
    OBVIOUS
  <2>5. /\ DOMAIN put = DOMAIN dir \cup {q} /\ put[q] = c
        /\ \A p \in DOMAIN dir : p # q => put[p] = dir[p]
    BY <2>4 DEF Put
  <2>6. site' = put
    BY <2>1, <2>2, <2>3, <2>4 DEF Replace
  <2> QED
    BY <2>1, <2>2, <2>3, <2>5, <2>6
<1>5. DOMAIN tmps' \subseteq DOMAIN tmps /\ \A p \in DOMAIN tmps' : tmps'[p] = tmps[p]
  BY DEF Replace, Restrict
<1>6. FilesFine'
  <2>1. \A o \in Renderers : \A x : Holds(job'[o].todo, x) => FineSoon(x.page, x.content)
    BY <1>2, <1>3 DEF JobMoved, FilesFine, FineSoon
  <2>2. \A q, c : q \in DOMAIN site' /\ c = site'[q] => FineSoon(q, c)
    BY <1>1, <1>2, <1>4 DEF FilesFine, FineSoon
  <2>3. \A q, c : q \in DOMAIN tmps' /\ c = tmps'[q] => FineSoon(q, c)
    BY <1>2, <1>5 DEF FilesFine, FineSoon
  <2>4. RowsGrew /\ shown' \in Nat /\ shown <= shown' /\ DOMAIN site \subseteq DOMAIN site'
    BY <1>2, <1>4, RowsStay DEF PublishTypeOK, Replace, publishHistory
  <2> QED
    BY <1>2, <2>1, <2>2, <2>3, <2>4, FilesKept
<1>7. ASSUME d = "stop", job[d].stage = "snapshot" PROVE FinalSnapshot'
  <2>1. Head(job[d].todo) = File(RunPage("this"), Plain(TRUE))
    BY <1>2, <1>7 DEF StopOK
  <2>2. Page(d) = RunPage("this") /\ Content(d) = Plain(TRUE)
    <3>1. \A p, c : File(p, c).page = p /\ File(p, c).content = c
      BY DEF File
    <3> QED
      BY <2>1, <3>1 DEF Page, Content
  <2>3. ~overlapped => tmps[Page(d)] = Plain(TRUE)
    BY <1>1, <1>2, <2>2 DEF AloneOK
  <2>4. overlapped' = overlapped
    BY DEF Replace, publishHistory
  <2> QED
    BY <1>4, <2>2, <2>3, <2>4 DEF FinalSnapshot
<1> QED
  BY <1>1, <1>3, <1>4, <1>6, <1>7, Placed DEF Replace, publishHistory

-----------------------------------------------------------------------------
(* A pass begins; if another is under way the two overlap from then on.    *)
LEMMA BeginOK ==
    ASSUME PublishInv, NEW d \in Renderers, BeginPass(d)
    PROVE  PublishInv'
<1>1. PublishTypeOK /\ FilesFine /\ StopOK /\ \A e \in Renderers : PassOK(e)
  BY DEF PublishInv
<1>2. job[d].stage = "rest" /\ ~Passing(d) /\ job[d].todo = <<>> /\ job[d].written = FALSE
  <2>1. job[d].stage = "rest" /\ ~Passing(d)
    BY DEF BeginPass, Passing
  <2> QED
    BY <1>1, <2>1, JobFacts DEF PassOK
<1>3. /\ job' \in [Renderers -> Jobs] /\ \A e \in Renderers \ {d} : job'[e] = job[e]
      /\ job'[d].stage = "forked" /\ job'[d].todo = <<>> /\ job'[d].written = FALSE
  <2>1. PICK r : r = job[d]
    OBVIOUS
  <2>2. r \in Jobs /\ job \in [Renderers -> Jobs]
    BY <1>1, <2>1, JobFacts
  <2>3. PICK q : q = [r EXCEPT !.stage = "forked"]
    OBVIOUS
  <2>4. q \in Jobs /\ q.stage = "forked" /\ q.todo = r.todo /\ q.written = r.written
    BY <2>2, <2>3 DEF Jobs, Stages
  <2>5. job' = [job EXCEPT ![d] = q]
    BY <2>1, <2>2, <2>3 DEF BeginPass
  <2>6. job' \in [Renderers -> Jobs] /\ job'[d] = q /\ \A e \in Renderers \ {d} : job'[e] = job[e]
    <3> HIDE DEF Jobs
    <3> QED
      BY <2>2, <2>4, <2>5
  <2> QED
    BY <1>2, <2>1, <2>4, <2>6
<1>4. /\ rows' = rows /\ run' = run /\ site' = site /\ tmps' = tmps /\ saw' = saw /\ shown' = shown
      /\ clean' = FALSE /\ overlapped' = (overlapped \/ \E e \in Renderers \ {d} : Passing(e))
  BY DEF BeginPass
<1>5. PublishTypeOK'
  <2>1. overlapped' \in BOOLEAN
    BY <1>4
  <2> QED
    BY <1>1, <1>3, <1>4, <2>1 DEF PublishTypeOK
<1>6. FilesFine'
  <2>1. \A o \in Renderers : \A x : Holds(job'[o].todo, x) => FineSoon(x.page, x.content)
    BY <1>1, <1>3 DEF FilesFine, FineSoon, Holds
  <2>2. /\ \A q, c : q \in DOMAIN site' /\ c = site'[q] => FineSoon(q, c)
        /\ \A q, c : q \in DOMAIN tmps' /\ c = tmps'[q] => FineSoon(q, c)
    BY <1>1, <1>4 DEF FilesFine, FineSoon
  <2>3. RowsGrew /\ shown' \in Nat /\ shown <= shown' /\ DOMAIN site \subseteq DOMAIN site'
    BY <1>1, <1>4, RowsStay DEF PublishTypeOK
  <2> QED
    BY <1>1, <2>1, <2>2, <2>3, FilesKept
<1>7. \A e \in Renderers \ {d} : PassOK(e)' /\ (Passing(e)' <=> Passing(e))
  BY <1>1, <1>3, <1>4, PassStays
<1>8. PassOK(d)'
  BY <1>3 DEF PassOK, Passing
<1>9. ASSUME ~overlapped', NEW e \in Renderers, Passing(e)'
      PROVE  (~clean /\ AloneOK(e) /\ \A o \in Renderers \ {e} : ~Passing(o))'
  <2>1. \A o \in Renderers \ {d} : ~Passing(o)'
    BY <1>4, <1>7, <1>9
  <2>2. e = d
    BY <1>9, <2>1
  <2>3. AloneOK(d)'
    BY <1>3 DEF AloneOK
  <2> QED
    BY <1>4, <2>1, <2>2, <2>3
<1>10. StopOK'
  <2>1. CASE d = "daemon"
    <3>1. run = "live" /\ job'["stop"] = job["stop"]
      BY <1>3, <2>1 DEF BeginPass, MayPass, Renderers
    <3>2. job["stop"].stage = "rest"
      BY <1>1, <3>1 DEF StopOK
    <3> QED
      BY <3>1, <3>2 DEF StopOK
  <2>2. CASE d = "stop"
    <3>1. run' = "stopped"
      BY <1>4, <2>2 DEF BeginPass, MayPass
    <3>2. ~overlapped' => ~Passing("daemon")'
      BY <1>4, <1>7, <2>2 DEF Renderers
    <3> QED
      BY <1>3, <2>2, <3>1, <3>2 DEF StopOK
  <2> QED
    BY <2>1, <2>2 DEF Renderers
<1> QED
  BY <1>4, <1>5, <1>6, <1>7, <1>8, <1>9, <1>10 DEF PublishInv

(* Findings come up and the run ends while the renderers stay as they are. *)
LEMMA WorldOK ==
    ASSUME PublishInv, RowsGrew,
           run' \in {"live", "killed", "stopped", "trapped"}, run' = run \/ run \in {"live", "killed"},
           UNCHANGED <<site, tmps, job, publishHistory>>
    PROVE  PublishInv'
<1>1. PublishTypeOK /\ FilesFine /\ StopOK /\ \A e \in Renderers : PassOK(e)
  BY DEF PublishInv
<1>2. /\ site' = site /\ tmps' = tmps /\ job' = job
      /\ overlapped' = overlapped /\ clean' = clean /\ saw' = saw /\ shown' = shown
      /\ lost' = lost
  BY DEF publishHistory
<1>3. PublishTypeOK'
  <2>1. rows' \in Seq(Finds) /\ Len(rows) \in Nat /\ Len(rows') \in Nat /\ Len(rows) <= Len(rows')
    BY <1>1 DEF PublishTypeOK, RowsGrew
  <2> QED
    BY <1>1, <1>2, <2>1 DEF PublishTypeOK
<1>4. FilesFine'
  <2>1. \A o \in Renderers : \A x : Holds(job'[o].todo, x) => FineSoon(x.page, x.content)
    BY <1>1, <1>2 DEF FilesFine, FineSoon
  <2>2. /\ \A q, c : q \in DOMAIN site' /\ c = site'[q] => FineSoon(q, c)
        /\ \A q, c : q \in DOMAIN tmps' /\ c = tmps'[q] => FineSoon(q, c)
    BY <1>1, <1>2 DEF FilesFine, FineSoon
  <2>3. shown' \in Nat /\ shown <= shown' /\ DOMAIN site \subseteq DOMAIN site'
    BY <1>1, <1>2 DEF PublishTypeOK
  <2> QED
    BY <1>1, <2>1, <2>2, <2>3, FilesKept
<1>5. \A e \in Renderers : PassOK(e)' /\ (Passing(e)' <=> Passing(e))
  BY <1>1, <1>2, PassStays
<1>6. ShownFindings' = ShownFindings /\ ShownPages' = ShownPages /\ ShownBuckets' = ShownBuckets
  BY <1>1, <1>2, ShownStays
<1>7. DashboardShown' <=> DashboardShown
  BY <1>2, <1>6 DEF DashboardShown
<1>8. \A e \in Renderers : AloneOK(e) => AloneOK(e)'
  BY <1>2, <1>6, <1>7 DEF AloneOK, Owes, Holds, Page, Content
<1>9. Settled => Settled'
  BY <1>2, <1>5, <1>6, <1>7 DEF Settled
<1>10. StopOK'
  <2>1. run' = run \/ job["stop"].stage = "rest"
    BY <1>1 DEF StopOK
  <2>2. Passing("daemon")' <=> Passing("daemon")
    BY <1>2 DEF Passing
  <2>3. FinalSnapshot' <=> FinalSnapshot
    BY <1>2 DEF FinalSnapshot
  <2> QED
    BY <1>1, <1>2, <2>1, <2>2, <2>3 DEF StopOK, Holds
<1> QED
  BY <1>2, <1>3, <1>4, <1>5, <1>8, <1>9, <1>10 DEF PublishInv

(* So every step keeps the invariant.                                      *)
LEMMA PublishStepOK ==
    ASSUME PublishInv, [PublishNext]_publishVars
    PROVE  PublishInv'
<1>1. rows \in Seq(Finds) /\ run \in {"live", "killed", "stopped", "trapped"}
  BY DEF PublishInv, PublishTypeOK
<1>2. ASSUME NEW b \in PageBuckets, Register(b) PROVE PublishInv'
  <2>1. RowsGrew
    BY <1>1, <1>2, RegisterGrows DEF Register
  <2> QED
    BY <1>1, <1>2, <2>1, WorldOK DEF Register
<1>3. CASE KillDaemon
  BY <1>1, <1>3, RowsStay, WorldOK DEF KillDaemon
<1>4. CASE Finalize
  BY <1>1, <1>4, RowsStay, WorldOK DEF Finalize
<1>5. CASE UNCHANGED publishVars
  BY <1>1, <1>5, RowsStay, WorldOK DEF publishVars
<1>6. ASSUME NEW d \in Renderers, Render(d) PROVE PublishInv'
  BY <1>6, PlainOK, DashboardOK, IndexOK, SnapshotOK, FindingsOK, BucketsOK DEF Render
<1>7. ASSUME NEW d \in Renderers, Die(d) PROVE PublishInv'
  BY <1>7, FailOK DEF Die
<1>8. ASSUME NEW d \in Renderers, ReplaceFails(d) PROVE PublishInv'
  <2>1. Passing(d)
    BY <1>8, AtFacts DEF ReplaceFails, At
  <2> QED
    BY <1>8, <2>1, FailOK DEF ReplaceFails
<1>9. ASSUME NEW d \in Renderers, Pass(d) PROVE PublishInv'
  BY <1>6, <1>8, <1>9, BeginOK, EndOK, KeepOK, WriteOK, ReplaceOK DEF Pass
<1> QED
  BY <1>2, <1>3, <1>4, <1>5, <1>7, <1>9, LoseOK DEF PublishNext

LEMMA PublishAlways == PublishSpec => []PublishInv
<1>1. PublishInit => PublishInv
  BY PublishInitOK
<1>2. PublishInv /\ [PublishNext]_publishVars => PublishInv'
  BY PublishStepOK
<1> QED
  BY <1>1, <1>2, PTL DEF PublishSpec

(* The snapshot that stop.sh's render leaves is the one of the finished    *)
(* run, unless the two passes ran at once; there always is one then.  A    *)
(* pass that runs alone puts in place what it wrote (AloneOK), and what    *)
(* the pass of stop.sh rendered, it rendered after the end (StopOK).       *)
THEOREM SnapshotCorrect == PublishSpec => []SnapshotIsFinal
BY PublishAlways, PublishInvFinal, PTL

(* The links of the site lead to pages, whatever came up while the pages   *)
(* were written and whatever an earlier pass left out: every file is at    *)
(* all times fit to be put in place, and what it may link to the pass      *)
(* writes before it ends (Owes), if none of its queries failed.            *)
THEOREM LinksCorrect == PublishSpec => []LinksResolve
BY PublishAlways, PublishInvLinks, PTL

-----------------------------------------------------------------------------
(***************************************************************************)
(* The programs together, as they are model-checked: what holds of each of *)
(* them holds while the others rest.                                       *)
(***************************************************************************)

(* A database without buckets is a sound one.                              *)
LEMMA UpgradeRestsOK == UpgradeRests => UpgradeInv
<1> SUFFICES ASSUME UpgradeRests PROVE UpgradeInv
  OBVIOUS
<1>1. bucketRows = <<>> /\ foundIn = <<>> /\ DOMAIN <<>> = {} /\ <<>> \in Seq(Finding)
      /\ hasRunId = TRUE /\ notNull = FALSE
      /\ opening = [p \in Openers |-> [at |-> "start", nulls |-> {}]]
  BY DEF UpgradeRests
<1>2. Database.buckets = bucketRows /\ Database.findings = foundIn
      /\ Database = [buckets |-> Database.buckets, findings |-> Database.findings]
  BY DEF Database
<1>3. DOMAIN bucketRows = {} /\ DOMAIN foundIn = {}
  BY <1>1
<1>4. bucketRows \in [{} -> BucketRow]
  BY <1>1, <1>3
<1>5. SoundDB(Database)
  BY <1>1, <1>2, <1>3, <1>4, FS_EmptySet DEF SoundDB, IsDB, Keyed
<1>6. [at |-> "start", nulls |-> {}] \in [at : OpenSteps, nulls : SUBSET Nat]
  BY DEF OpenSteps
<1>7. \A p \in Openers : OpeningOK(p)
  BY <1>1 DEF OpeningOK, OpenSteps
<1> QED
  BY <1>1, <1>5, <1>6, <1>7 DEF UpgradeInv

(* A step of one program is a step of it, and none of the others.          *)
LEMMA ToolSteps ==
    ASSUME [ToolNext]_toolVars
    PROVE  /\ [PublishNext]_publishVars /\ [UpgradeNext]_upgradeVars
           /\ [GraphNext]_graphVars /\ [ScanNext]_scanVars /\ [HarnessNext]_harnessVars
<1>1. CASE UNCHANGED toolVars
  BY <1>1 DEF toolVars
<1>2. CASE ToolNext
  BY <1>2 DEF ToolNext
<1> QED
  BY <1>1, <1>2

(* Every state the programs reach side by side is sound: publish, upgrade, *)
(* call graph, scanner and harness.                                        *)
THEOREM ToolsCorrect ==
    ToolSpec => [](/\ SnapshotIsFinal /\ LinksResolve /\ UpgradedIsSound
                   /\ RestrictionLosesNothing /\ ConditionEncloses
                   /\ RatesAreShares /\ TablesAgree)
<1>1. ToolInit => /\ PublishInv /\ UpgradeInv
                  /\ GraphInit /\ ScanInit /\ HarnessInit
  BY PublishInitOK, PublishRestsOK, UpgradeInitOK, UpgradeRestsOK DEF ToolInit, GraphRests
<1>2. [ToolNext]_toolVars => /\ [PublishNext]_publishVars /\ [UpgradeNext]_upgradeVars
                             /\ [GraphNext]_graphVars /\ [ScanNext]_scanVars
                             /\ [HarnessNext]_harnessVars
  BY ToolSteps
<1>3. ToolSpec => []PublishInv /\ []UpgradeInv
  BY <1>1, <1>2, PublishStepOK, UpgradeKeepsInv, PTL DEF ToolSpec
<1>4. ToolSpec => GraphSpec /\ ScanSpec /\ HarnessSpec
  BY <1>1, <1>2, PTL DEF ToolSpec, GraphSpec, ScanSpec, HarnessSpec
<1> QED
  BY <1>3, <1>4, PublishInvFinal, PublishInvLinks, UpgradeInvSound,
     RestrictionCorrect, ConditionsCorrect, RatesCorrect, TablesCorrect, PTL
=============================================================================
