------------------------ MODULE CircuitBreakerProofs ------------------------
(***************************************************************************)
(* The safety of CircuitBreaker for any number of callers and any          *)
(* threshold.  TypeOK is inductive alone, OneProbePerPeriod and            *)
(* OpenAfterAStreak on top of it.  LateFailuresKeepTheClock is not: a      *)
(* caller admitted late must not add to those an open breaker still waits  *)
(* for, which is so because nobody is admitted while it is open.           *)
(***************************************************************************)
EXTENDS CircuitBreaker, FiniteSetTheorems, TLAPS

\* The breaker's fields stay in their ranges; above all, the count never
\* reaches the threshold that empties it.
THEOREM TypeCorrect ==
  ASSUME ConstantsAssumption PROVE Spec => []TypeOK
<1>1. Init => TypeOK
  <2> SUFFICES ASSUME Init PROVE TypeOK
    OBVIOUS
  <2>1. failures \in 0..(FailureThreshold - 1) /\ streak \in 0..FailureThreshold
    BY DEF ConstantsAssumption, Init
  <2>2. state \in {"closed", "open", "half_open"}
    BY DEF Init
  <2>3. cooled \in BOOLEAN /\ claimed \in BOOLEAN /\ probeLost \in BOOLEAN
    BY Zenon DEF Init
  <2>4. QED
    BY <2>1, <2>2, <2>3 DEF Init, TypeOK
<1>2. TypeOK /\ [Next]_vars => TypeOK'
  <2> SUFFICES ASSUME TypeOK, [Next]_vars
               PROVE  TypeOK'
    OBVIOUS
  <2> USE DEF ConstantsAssumption, TypeOK
  <2>1. CASE Cool
    BY <2>1 DEF Cool, history
  <2>2. ASSUME NEW c \in Callers, Admit(c) \/ AdmitProbe(c)
        PROVE  TypeOK'
    BY <2>2 DEF Admit, AdmitProbe, breaker, history
  <2>3. ASSUME NEW c \in Callers, Succeed(c)
        PROVE  TypeOK'
    <3>1. failures' \in 0..(FailureThreshold - 1) /\ streak' \in 0..FailureThreshold
      BY <2>3 DEF Succeed, RecordSuccess
    <3>2. cooled' \in BOOLEAN /\ claimed' \in BOOLEAN /\ probeLost' \in BOOLEAN
      BY <2>3, Zenon DEF Succeed, RecordSuccess
    <3>3. state' \in {"closed", "open", "half_open"}
      BY <2>3 DEF Succeed, RecordSuccess
    <3>4. QED
      BY <2>3, <3>1, <3>2, <3>3 DEF Succeed, Return
  <2>4. ASSUME NEW c \in Callers, Fail(c)
        PROVE  TypeOK'
    <3>1. streak' \in 0..FailureThreshold
      BY <2>4 DEF Fail, RecordFailure, Lengthen
    <3>2. /\ state' \in {"closed", "open", "half_open"}
          /\ failures' \in 0..(FailureThreshold - 1)
      BY <2>4 DEF Fail, RecordFailure, Trip
    <3>3. cooled' \in BOOLEAN /\ claimed' \in BOOLEAN
      BY <2>4 DEF Fail, RecordFailure, Trip
    <3>4. QED
      BY <2>4, <3>1, <3>2, <3>3 DEF Fail, Return
  <2>5. ASSUME NEW c \in Callers, Cancel(c)
        PROVE  TypeOK'
    BY <2>5 DEF Cancel, Return, breaker
  <2>6. CASE UNCHANGED vars
    BY <2>6 DEF vars, breaker, history
  <2>7. QED
    BY <2>1, <2>2, <2>3, <2>4, <2>5, <2>6 DEF Next, Call, End
<1>3. QED
  BY <1>1, <1>2, PTL DEF Spec

\* One probe at a time is let through a half-open breaker, however many tasks
\* knock: the flag, and not the probe's being in flight, is what refuses them.
THEOREM OneProbe ==
  ASSUME ConstantsAssumption PROVE Spec => []OneProbePerPeriod
<1>1. Init => OneProbePerPeriod
  BY DEF Init, OneProbePerPeriod
<1>2. TypeOK /\ OneProbePerPeriod /\ [Next]_vars => OneProbePerPeriod'
  <2> SUFFICES ASSUME TypeOK, OneProbePerPeriod, [Next]_vars
               PROVE  OneProbePerPeriod'
    OBVIOUS
  <2> USE DEF OneProbePerPeriod
  <2>1. CASE Cool
    BY <2>1 DEF Cool, history
  <2>2. ASSUME NEW c \in Callers, Admit(c)
        PROVE  OneProbePerPeriod'
    BY <2>2 DEF Admit, breaker, history
  <2>3. ASSUME NEW c \in Callers, AdmitProbe(c)
        PROVE  OneProbePerPeriod'
    <3>1. state = "open"
      BY <2>3 DEF AdmitProbe, HalfOpen
    <3>2. QED
      BY <2>3, <3>1 DEF AdmitProbe
  <2>4. ASSUME NEW c \in Callers, Succeed(c)
        PROVE  OneProbePerPeriod'
    BY <2>4 DEF Succeed, RecordSuccess
  <2>5. ASSUME NEW c \in Callers, Fail(c)
        PROVE  OneProbePerPeriod'
    BY <2>5 DEF Fail, RecordFailure, Trip
  <2>6. ASSUME NEW c \in Callers, Cancel(c)
        PROVE  OneProbePerPeriod'
    BY <2>6 DEF Cancel, breaker
  <2>7. CASE UNCHANGED vars
    BY <2>7 DEF vars, breaker, history
  <2>8. QED
    BY <2>1, <2>2, <2>3, <2>4, <2>5, <2>6, <2>7 DEF Next, Call, End
<1>3. QED
  BY <1>1, <1>2, TypeCorrect, PTL DEF Spec

\* The breaker opens on FailureThreshold failures with no success between
\* them, and on nothing else.
THEOREM OpensOnAStreak ==
  ASSUME ConstantsAssumption PROVE Spec => []OpenAfterAStreak
<1>1. Init => OpenAfterAStreak
  BY DEF Init, OpenAfterAStreak
<1>2. TypeOK /\ OpenAfterAStreak /\ [Next]_vars => OpenAfterAStreak'
  <2> SUFFICES ASSUME TypeOK, OpenAfterAStreak, [Next]_vars
               PROVE  OpenAfterAStreak'
    OBVIOUS
  <2> USE DEF ConstantsAssumption, TypeOK, OpenAfterAStreak
  <2>1. CASE Cool
    BY <2>1 DEF Cool, history
  <2>2. ASSUME NEW c \in Callers, Admit(c)
        PROVE  OpenAfterAStreak'
    BY <2>2 DEF Admit, breaker, history
  <2>3. ASSUME NEW c \in Callers, AdmitProbe(c)
        PROVE  OpenAfterAStreak'
    BY <2>3 DEF AdmitProbe, HalfOpen
  <2>4. ASSUME NEW c \in Callers, Succeed(c)
        PROVE  OpenAfterAStreak'
    BY <2>4 DEF Succeed, RecordSuccess
  <2>5. ASSUME NEW c \in Callers, Fail(c)
        PROVE  OpenAfterAStreak'
    <3>1. CASE state = "closed"
      <4>1. streak' = failures + 1
        BY <2>5, <3>1 DEF Fail, RecordFailure, Lengthen
      <4>2. CASE failures + 1 >= FailureThreshold
        BY <2>5, <3>1, <4>1, <4>2 DEF Fail, RecordFailure, Trip
      <4>3. CASE ~(failures + 1 >= FailureThreshold)
        BY <2>5, <3>1, <4>1, <4>3 DEF Fail, RecordFailure
      <4>4. QED
        BY <4>2, <4>3
    <3>2. CASE state # "closed"
      <4>1. streak' = FailureThreshold
        BY <2>5, <3>2 DEF Fail, RecordFailure, Lengthen
      <4>2. state' # "closed"
        BY <2>5, <3>2 DEF Fail, RecordFailure, Trip
      <4>3. QED
        BY <4>1, <4>2
    <3>3. QED
      BY <3>1, <3>2
  <2>6. ASSUME NEW c \in Callers, Cancel(c)
        PROVE  OpenAfterAStreak'
    BY <2>6 DEF Cancel, breaker
  <2>7. CASE UNCHANGED vars
    BY <2>7 DEF vars, breaker, history
  <2>8. QED
    BY <2>1, <2>2, <2>3, <2>4, <2>5, <2>6, <2>7 DEF Next, Call, End
<1>3. QED
  BY <1>1, <1>2, TypeCorrect, PTL DEF Spec

-----------------------------------------------------------------------------
\* How the number of calls in flight changes.
LEMMA OneFewerInFlight ==
  ASSUME ConstantsAssumption, TypeOK, NEW c \in Callers, Return(c)
  PROVE  /\ Cardinality(calling) \in Nat
         /\ Cardinality(calling') \in Nat
         /\ Cardinality(calling) = Cardinality(calling') + 1
<1>1. IsFiniteSet(calling)
  BY FS_Subset DEF ConstantsAssumption, TypeOK
<1>2. Cardinality(calling \ {c}) = Cardinality(calling) - 1
  BY <1>1, FS_RemoveElement DEF Return
<1>3. IsFiniteSet(calling \ {c})
  BY <1>1, FS_RemoveElement
<1>4. /\ Cardinality(calling) \in Nat
      /\ Cardinality(calling \ {c}) \in Nat
  BY <1>1, <1>3, FS_CardinalityType
<1>5. QED
  BY <1>2, <1>4 DEF Return

LEMMA InFlightAreCallers ==
  ASSUME ConstantsAssumption, NEW S \in SUBSET Callers
  PROVE  /\ Cardinality(S) \in Nat
         /\ Cardinality(Callers) \in Nat
         /\ Cardinality(S) <= Cardinality(Callers)
  BY FS_Subset, FS_CardinalityType DEF ConstantsAssumption

\* A breaker shared by at most FailureThreshold callers cannot be tripped a
\* second time by the calls that were in flight when it opened: each of their
\* failures is one fewer to come.
THEOREM LateFailures ==
  ASSUME ConstantsAssumption PROVE Spec => []LateFailuresKeepTheClock
<1>1. Init => LateFailuresKeepTheClock
  BY DEF Init, LateFailuresKeepTheClock
<1>2. TypeOK /\ LateFailuresKeepTheClock /\ [Next]_vars
        => LateFailuresKeepTheClock'
  <2> SUFFICES ASSUME TypeOK, LateFailuresKeepTheClock, [Next]_vars,
                      Cardinality(Callers) <= FailureThreshold,
                      state' = "open"
               PROVE  failures' + Cardinality(calling') < FailureThreshold
    BY DEF LateFailuresKeepTheClock
  <2> USE DEF ConstantsAssumption, TypeOK, LateFailuresKeepTheClock
  <2>1. CASE Cool
    BY <2>1 DEF Cool, history
  <2>2. ASSUME NEW c \in Callers, Admit(c) \/ AdmitProbe(c) \/ Succeed(c)
        PROVE  FALSE
    BY <2>2 DEF Admit, AdmitProbe, Succeed, RecordSuccess, breaker
  <2>3. ASSUME NEW c \in Callers, Fail(c)
        PROVE  failures' + Cardinality(calling') < FailureThreshold
    <3>1. Return(c)
      BY <2>3 DEF Fail
    <3>2. /\ Cardinality(calling) \in Nat
          /\ Cardinality(calling') \in Nat
          /\ Cardinality(calling) = Cardinality(calling') + 1
      BY <3>1, OneFewerInFlight
    <3>3. /\ Cardinality(Callers) \in Nat
          /\ Cardinality(calling) <= Cardinality(Callers)
      BY InFlightAreCallers
    <3>4. CASE Trip
      BY <3>2, <3>3, <3>4 DEF Trip
    <3>5. CASE failures' = failures + 1 /\ UNCHANGED state
      BY <3>2, <3>5
    <3>6. QED
      BY <2>3, <3>4, <3>5 DEF Fail, RecordFailure
  <2>4. ASSUME NEW c \in Callers, Cancel(c)
        PROVE  failures' + Cardinality(calling') < FailureThreshold
    <3>1. Return(c) /\ UNCHANGED <<state, failures>>
      BY <2>4 DEF Cancel, breaker
    <3>2. /\ Cardinality(calling) \in Nat
          /\ Cardinality(calling') \in Nat
          /\ Cardinality(calling) = Cardinality(calling') + 1
      BY <3>1, OneFewerInFlight
    <3>3. QED
      BY <3>1, <3>2
  <2>5. CASE UNCHANGED vars
    BY <2>5 DEF vars, breaker, history
  <2>6. QED
    BY <2>1, <2>2, <2>3, <2>4, <2>5 DEF Next, Call, End
<1>3. QED
  BY <1>1, <1>2, TypeCorrect, PTL DEF Spec
=============================================================================
