-------------------------- MODULE BisectBlame_proofs --------------------------
(***************************************************************************)
(* The search of bisect_blame.sh blames a definite boundary and ends near  *)
(* its deadline, for every number of passes and all timeouts.              *)
(***************************************************************************)
EXTENDS BisectBlame, WellFoundedInduction, TLAPS

(* What the confirmation of the two ends leaves for the search: MAX_N      *)
(* judged unsound before 0 is judged, and nothing judged before that.      *)
Prepared ==
    /\ step \in {"discover", "confirm_hi"} => \A i \in Limits : judged[i] = "unknown"
    /\ step \in {"confirm_hi", "confirm_lo"} => n >= 1
    /\ step = "confirm_lo" =>
          \A i \in Limits : judged[i] = IF i = n THEN "unsound" ELSE "unknown"

(* The search is over when a pass is blamed.                               *)
Closed == step = "blamed" => ~Open

(* The inductive invariant.                                                *)
IInv == TypeOK /\ Prepared /\ Boundary /\ Closed

-----------------------------------------------------------------------------
(* MID lies strictly between LO and HI while the loop runs.                *)
LEMMA MidIsInside ==
    ASSUME lo \in Nat, hi \in Nat, Open
    PROVE  Mid \in Nat /\ lo < Mid /\ Mid < hi
BY DEF Open, Mid

(* The script starts in it.                                                *)
LEMMA InitIInv == Init => IInv
BY BisectAssumption DEF Init, IInv, TypeOK, Prepared, Boundary, Closed, Open, Limits, Outcomes, Searching

(* A step of the clock keeps it a natural number.                          *)
LEMMA ClockAdvances ==
    ASSUME NEW most \in Nat, elapsed \in Nat, Takes(most)
    PROVE  elapsed' \in Nat /\ elapsed' <= elapsed + most
BY DEF Takes

(* A verdict takes one opt and one alive-tv at most.                       *)
LEMMA JudgeAdvances ==
    ASSUME NEW limit, NEW o, elapsed \in Nat, Judge(limit, o)
    PROVE  elapsed' \in Nat /\ elapsed' <= elapsed + PerOpt + PerAlive
<1>1. CASE o = "opt_failed"
  <2>1. Takes(PerOpt)
    BY <1>1 DEF Judge
  <2> QED
    BY <2>1, ClockAdvances, BisectAssumption
<1>2. CASE o # "opt_failed"
  <2>1. Takes(PerOpt + PerAlive)
    BY <1>2 DEF Judge
  <2>2. PerOpt + PerAlive \in Nat
    BY BisectAssumption
  <2> QED
    BY <2>1, <2>2, ClockAdvances, BisectAssumption
<1> QED
  BY <1>1, <1>2

(* The script's steps keep the invariant.                                  *)
LEMMA NextIInv == IInv /\ [Next]_vars => IInv'
<1> SUFFICES ASSUME IInv, [Next]_vars PROVE IInv'
  OBVIOUS
<1> USE BisectAssumption
<1>1. CASE Discover
  <2>1. elapsed' \in Nat
    BY <1>1, ClockAdvances DEF Discover, IInv, TypeOK
  <2> QED
    BY <1>1, <2>1 DEF Discover, IInv, TypeOK, Prepared, Boundary, Closed, Open, Limits, Outcomes, Searching
<1>2. CASE ConfirmHi
  <2>1. PICK o \in Outcomes :
            Judge(n, o) /\ step' = IF o = "unsound" THEN "confirm_lo" ELSE "failed"
    BY <1>2 DEF ConfirmHi
  <2>2. elapsed' \in Nat
    BY <2>1, JudgeAdvances DEF IInv, TypeOK
  <2>3. judged' = [judged EXCEPT ![n] = o]
    BY <2>1 DEF Judge
  <2>4. step = "confirm_hi" /\ UNCHANGED <<n, lo, hi, probes>>
    BY <1>2 DEF ConfirmHi
  <2> QED
    BY <2>1, <2>2, <2>3, <2>4 DEF IInv, TypeOK, Prepared, Boundary, Closed, Open, Limits, Outcomes, Searching
<1>3. CASE ConfirmLo
  <2>1. PICK o \in Outcomes :
            /\ Judge(0, o)
            /\ IF LoAccepted(o)
               THEN step' = "search" /\ lo' = 0 /\ hi' = FirstHi
               ELSE step' = "failed" /\ UNCHANGED <<lo, hi>>
    BY <1>3 DEF ConfirmLo
  <2>2. elapsed' \in Nat
    BY <2>1, JudgeAdvances DEF IInv, TypeOK
  <2>3. judged' = [judged EXCEPT ![0] = o]
    BY <2>1 DEF Judge
  <2>4. step = "confirm_lo" /\ UNCHANGED <<n, probes>>
    BY <1>3 DEF ConfirmLo
  <2> QED
    BY <2>1, <2>2, <2>3, <2>4 DEF IInv, TypeOK, Prepared, Boundary, Closed, Open, Limits, Outcomes, Searching, LoAccepted, FirstHi
<1>4. CASE Probe
  <2>1. PICK o \in Outcomes :
            /\ Judge(Mid, o)
            /\ IF MovesHi(o)
               THEN hi' = Mid /\ UNCHANGED lo
               ELSE lo' = Mid /\ UNCHANGED hi
    BY <1>4 DEF Probe
  <2>2. elapsed' \in Nat
    BY <2>1, JudgeAdvances DEF IInv, TypeOK
  <2>3. judged' = [judged EXCEPT ![Mid] = o]
    BY <2>1 DEF Judge
  <2>4. step = "search" /\ UNCHANGED <<step, n>> /\ probes' = probes + 1
    BY <1>4 DEF Probe
  <2>5. PICK m : m = Mid
    OBVIOUS
  <2>6. m \in Nat /\ lo < m /\ m < hi
    BY <1>4, <2>5, MidIsInside DEF Probe, IInv, TypeOK, Limits
  <2>7. judged' = [judged EXCEPT ![m] = o]
    BY <2>3, <2>5
  <2>8. \/ o = "unsound" /\ hi' = m /\ lo' = lo
        \/ o # "unsound" /\ lo' = m /\ hi' = hi
    BY <2>1, <2>5 DEF MovesHi
  <2> QED
    BY <2>2, <2>4, <2>6, <2>7, <2>8 DEF IInv, TypeOK, Prepared, Boundary, Closed, Limits, Outcomes, Searching
<1>5. CASE DeadlinePassed
  BY <1>5 DEF DeadlinePassed, IInv, TypeOK, Prepared, Boundary, Closed, Searching
<1>6. CASE Blame
  <2>1. elapsed' \in Nat
    BY <1>6, ClockAdvances DEF Blame, IInv, TypeOK
  <2> QED
    BY <1>6, <2>1 DEF Blame, IInv, TypeOK, Prepared, Boundary, Closed, Open, Searching
<1>7. CASE UNCHANGED vars
  BY <1>7 DEF vars, IInv, TypeOK, Prepared, Boundary, Closed, Open, Searching
<1> QED
  BY <1>1, <1>2, <1>3, <1>4, <1>5, <1>6, <1>7 DEF Next

(* The inductive invariant holds in every run of the script.               *)
THEOREM Invariance == Spec => []IInv
BY InitIInv, NextIInv, PTL DEF Spec

(* Types, for every pipeline and all timeouts.                             *)
THEOREM TypeCorrect == Spec => []TypeOK
<1>1. IInv => TypeOK
  BY DEF IInv
<1> QED
  BY <1>1, Invariance, PTL

(* HI stays definitely unsound, LO judged and not unsound, and nothing     *)
(* between them judged twice.                                              *)
THEOREM BoundaryKept == Spec => []Boundary
<1>1. IInv => Boundary
  BY DEF IInv
<1> QED
  BY <1>1, Invariance, PTL

(* The blamed index is the first limit of a definite boundary.             *)
THEOREM BlameCorrect == Spec => []BlamedIsBoundary
<1>1. IInv => BlamedIsBoundary
  BY DEF IInv, TypeOK, Boundary, Closed, Open, BlamedIsBoundary, Searching, Limits
<1> QED
  BY <1>1, Invariance, PTL

-----------------------------------------------------------------------------
(* The time each step may have used so far, when the deadline covers the   *)
(* confirmation of both ends.                                              *)
Timely ==
    /\ step = "discover" => elapsed <= 0
    /\ step = "confirm_hi" => elapsed <= PerOpt
    /\ step = "confirm_lo" => elapsed <= 2 * PerOpt + PerAlive
    /\ step = "search" => elapsed <= Deadline + PerOpt + PerAlive
    /\ elapsed <= Deadline + 2 * PerOpt + PerAlive

(* A deadline of at least the time both confirmations may take.            *)
AmpleDeadline == Deadline >= 3 * PerOpt + 2 * PerAlive

(* Every step stays within the time allowed for it.                        *)
LEMMA NextTimely ==
    ASSUME AmpleDeadline, TypeOK, Timely, [Next]_vars
    PROVE  Timely'
<1> USE BisectAssumption DEF AmpleDeadline, Timely
<1>0. elapsed \in Nat
  BY DEF TypeOK
<1>1. CASE Discover
  <2>1. elapsed' \in Nat /\ elapsed' <= elapsed + PerOpt
    BY <1>0, <1>1, ClockAdvances DEF Discover
  <2> QED
    BY <1>0, <1>1, <2>1 DEF Discover
<1>2. CASE ConfirmHi
  <2>1. PICK o : Judge(n, o)
    BY <1>2 DEF ConfirmHi
  <2>2. elapsed' \in Nat /\ elapsed' <= elapsed + PerOpt + PerAlive
    BY <1>0, <2>1, JudgeAdvances
  <2>3. step = "confirm_hi" /\ step' \in {"confirm_lo", "failed"}
    BY <1>2 DEF ConfirmHi
  <2> QED
    BY <1>0, <2>2, <2>3
<1>3. CASE ConfirmLo
  <2>1. PICK o : Judge(0, o)
    BY <1>3 DEF ConfirmLo
  <2>2. elapsed' \in Nat /\ elapsed' <= elapsed + PerOpt + PerAlive
    BY <1>0, <2>1, JudgeAdvances
  <2>3. step = "confirm_lo" /\ step' \in {"search", "failed"}
    BY <1>3 DEF ConfirmLo
  <2> QED
    BY <1>0, <2>2, <2>3
<1>4. CASE Probe
  <2>1. PICK o : Judge(Mid, o)
    BY <1>4 DEF Probe
  <2>2. elapsed' \in Nat /\ elapsed' <= elapsed + PerOpt + PerAlive
    BY <1>0, <2>1, JudgeAdvances
  <2>3. step = "search" /\ step' = "search" /\ elapsed <= Deadline
    BY <1>4 DEF Probe, InDeadline
  <2> QED
    BY <1>0, <2>2, <2>3
<1>5. CASE DeadlinePassed
  BY <1>0, <1>5 DEF DeadlinePassed
<1>6. CASE Blame
  <2>1. elapsed' \in Nat /\ elapsed' <= elapsed + PerOpt
    BY <1>0, <1>6, ClockAdvances DEF Blame
  <2>2. step = "search" /\ step' \in {"blamed", "failed"}
    BY <1>6 DEF Blame
  <2> QED
    BY <1>0, <2>1, <2>2
<1>7. CASE UNCHANGED vars
  BY <1>7 DEF vars
<1> QED
  BY <1>1, <1>2, <1>3, <1>4, <1>5, <1>6, <1>7 DEF Next

(* The script overruns its deadline by one probe and one opt at most.      *)
THEOREM DeadlineKept == Spec => []EndsNearDeadline
<1>1. CASE AmpleDeadline
  <2>1. Init => Timely
    BY BisectAssumption DEF Init, Timely
  <2>2. TypeOK /\ Timely /\ [Next]_vars => Timely'
    BY <1>1, NextTimely
  <2>3. Timely => EndsNearDeadline
    BY DEF Timely, EndsNearDeadline
  <2> QED
    BY <2>1, <2>2, <2>3, TypeCorrect, PTL DEF Spec
<1>2. CASE ~AmpleDeadline
  <2>1. EndsNearDeadline
    BY <1>2 DEF EndsNearDeadline, AmpleDeadline
  <2> QED
    BY <2>1, PTL
<1> QED
  BY <1>1, <1>2

-----------------------------------------------------------------------------
(* The powers of two double, and are natural numbers from 1 on.            *)
LEMMA Doubles ==
    PowerOf2[0] = 1 /\ \A k \in Nat : PowerOf2[k + 1] = 2 * PowerOf2[k]
<1> DEFINE D(v, k) == 2 * v
<1>1. NatInductiveDefHypothesis(PowerOf2, 1, D)
  BY DEF NatInductiveDefHypothesis, PowerOf2
<1>2. NatInductiveDefConclusion(PowerOf2, 1, D)
  BY <1>1, NatInductiveDef, Zenon
<1>3. \A k \in Nat : k + 1 # 0 /\ (k + 1) - 1 = k /\ k + 1 \in Nat /\ 0 \in Nat
  OBVIOUS
<1> QED
  BY <1>2, <1>3 DEF NatInductiveDefConclusion

LEMMA Powers == \A k \in Nat : PowerOf2[k] \in Nat \ {0}
<1> SUFFICES ASSUME NEW k \in Nat, PowerOf2[k] \notin Nat \ {0} PROVE FALSE
  OBVIOUS
<1> DEFINE T == {i \in Nat : PowerOf2[i] \notin Nat \ {0}}
           R == OpToRel(<, Nat)
<1>1. T \subseteq Nat /\ T # {}
  OBVIOUS
<1>2. \E i \in T : \A j \in T : ~(<<j, i>> \in R)
  BY <1>1, NatLessThanWellFounded, WFMin
<1>3. \A j, i \in Nat : j < i => <<j, i>> \in R
  BY DEF OpToRel
<1> HIDE DEF R
<1>4. PICK i \in T : \A j \in T : ~(<<j, i>> \in R)
  BY <1>2
<1>5. i # 0
  BY <1>4, Doubles
<1>6. PICK j \in Nat : i = j + 1
  <2>1. i - 1 \in Nat /\ i = (i - 1) + 1
    BY <1>4, <1>5
  <2> QED
    BY <2>1
<1>7. <<j, i>> \in R
  BY <1>6, <1>3, <1>4
<1>8. PowerOf2[j] \in Nat \ {0}
  BY <1>4, <1>7
<1> QED
  BY <1>4, <1>6, <1>8, Doubles

(* Products keep the order of their factors.                               *)
LEMMA MulKeepsOrder ==
    ASSUME NEW a \in Nat, NEW b \in Nat, NEW p \in Nat, a <= b
    PROVE  a * p <= b * p
<1>1. PICK d \in Nat : b = a + d
  <2>1. b - a \in Nat /\ b = a + (b - a)
    OBVIOUS
  <2> QED
    BY <2>1
<1>2. (a + d) * p = a * p + d * p
  OBVIOUS
<1>3. a * p \in Nat /\ d * p \in Nat
  OBVIOUS
<1> QED
  BY <1>1, <1>2, <1>3

(* A half, rounded up, of a width that fits; p is the power of two.        *)
LEMMA HalfFits ==
    ASSUME NEW w \in Nat, NEW v \in Nat, NEW p \in Nat, NEW q \in Nat,
           2 * v <= w + 1, w * p <= q + p - 1
    PROVE  v * (2 * p) <= q + 2 * p - 1
<1>1. (2 * v) * p <= (w + 1) * p
  BY MulKeepsOrder
<1>2. v * (2 * p) = (2 * v) * p /\ (w + 1) * p = w * p + p
  OBVIOUS
<1>3. v * (2 * p) \in Nat /\ w * p \in Nat
  OBVIOUS
<1> QED
  BY <1>1, <1>2, <1>3

(* The width of the interval, and the number of probes made so far.        *)
HalvedInv ==
    /\ step \in {"discover", "confirm_hi", "confirm_lo"} => probes = 0
    /\ Halved
    /\ (Searching /\ probes > 0) => PowerOf2[probes] <= 2 * (n - 1)

LEMMA NextHalved == IInv /\ HalvedInv /\ [Next]_vars => HalvedInv'
<1> SUFFICES ASSUME IInv, HalvedInv, [Next]_vars PROVE HalvedInv'
  OBVIOUS
<1>0. TypeOK /\ Boundary /\ lo \in Nat /\ hi \in Nat /\ n \in Nat /\ probes \in Nat
  BY BisectAssumption DEF IInv, TypeOK, Limits
<1> USE DEF HalvedInv, Halved, Searching
<1>1. CASE Discover \/ ConfirmHi
  BY <1>1 DEF Discover, ConfirmHi
<1>2. CASE ConfirmLo
  <2>1. /\ probes' = 0 /\ n' = n
        /\ (step' = "search" /\ lo' = 0 /\ hi' = n) \/ step' = "failed"
    BY <1>2 DEF ConfirmLo, FirstHi
  <2>2. (n - 0) * 1 <= n + 1 - 1
    BY <1>0
  <2> QED
    BY <2>1, <2>2, <1>0, Doubles
<1>3. CASE Probe
  <2>1. step = "search" /\ step' = "search" /\ Open /\ n' = n /\ probes' = probes + 1
    BY <1>3 DEF Probe
  <2>2. PICK m : m = Mid
    OBVIOUS
  <2>3. m \in Nat /\ 2 * m <= lo + hi /\ lo + hi <= 2 * m + 1 /\ lo + 1 < hi
    BY <1>0, <2>1, <2>2 DEF Mid, Open
  <2>4. (hi' = m /\ lo' = lo) \/ (lo' = m /\ hi' = hi)
    BY <1>3, <2>2 DEF Probe
  <2>5. PICK w : w = hi - lo
    OBVIOUS
  <2>6. PICK v : v = hi' - lo'
    OBVIOUS
  <2>7. PICK p : p = PowerOf2[probes]
    OBVIOUS
  <2>8. w \in Nat /\ w >= 2 /\ v \in Nat /\ 2 * v <= w + 1
    <3>1. lo < m /\ m < hi
      BY <1>0, <2>3
    <3> QED
      BY <1>0, <2>3, <2>4, <2>5, <2>6, <3>1
  <2>9. p \in Nat /\ p > 0 /\ w * p <= n + p - 1 /\ PowerOf2[probes + 1] = 2 * p
    BY <1>0, <2>1, <2>5, <2>7, Powers, Doubles
  <2>10. v * (2 * p) <= n + 2 * p - 1
    BY <1>0, <2>8, <2>9, HalfFits
  <2>11. 2 * p <= 2 * (n - 1)
    <3>1. 2 * p <= w * p
      BY <2>8, <2>9, MulKeepsOrder
    <3>2. w * p \in Nat
      BY <2>8, <2>9
    <3> QED
      BY <1>0, <2>9, <3>1, <3>2
  <2> QED
    BY <2>1, <2>6, <2>9, <2>10, <2>11
<1>4. CASE DeadlinePassed \/ Blame
  BY <1>4 DEF DeadlinePassed, Blame
<1>5. CASE UNCHANGED vars
  BY <1>5 DEF vars
<1> QED
  BY <1>1, <1>2, <1>3, <1>4, <1>5 DEF Next

(* The search halves, rounding up, with every probe...                     *)
LEMMA HalvedInvariance == Spec => []HalvedInv
<1>1. Init => HalvedInv
  BY DEF Init, HalvedInv, Halved, Searching
<1> QED
  BY <1>1, NextHalved, Invariance, PTL DEF Spec

THEOREM HalvingKept == Spec => []Halved
<1>1. HalvedInv => Halved
  BY DEF HalvedInv
<1> QED
  BY <1>1, HalvedInvariance, PTL

(* ...so it needs no more probes than MAX_N - 1 has binary digits.         *)
THEOREM FewProbes ==
    Spec => []((Searching /\ probes > 0) => PowerOf2[probes] <= 2 * (n - 1))
<1>1. HalvedInv => ((Searching /\ probes > 0) => PowerOf2[probes] <= 2 * (n - 1))
  BY DEF HalvedInv
<1> QED
  BY <1>1, HalvedInvariance, PTL
=============================================================================
