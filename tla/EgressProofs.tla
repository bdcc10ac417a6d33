---------------------------- MODULE EgressProofs ----------------------------
(***************************************************************************)
(* Proofs about the way out: the admission pools for any tasks, pools and  *)
(* ceilings, the connector for any address plan and budget, and XUDP       *)
(* leases for any associations, users and identifiers, any capacity and    *)
(* any grace period. Counting is by cardinality: a step adds one member to *)
(* a counted set, removes one, or leaves it as it is.                      *)
(***************************************************************************)
EXTENDS Admission, Connector, XudpLease, FiniteSetTheorems, TLAPS

-----------------------------------------------------------------------------
(* Admission *)

\* The counted calls that began after the ceiling was last set.
Young(p) == {t \in Counted(p) : <<t, p>> \notin old}

\* What a task knows inside a call: the pool, whether it owns a permit of it, and
\* a ceiling that is the pool's unless it was moved since.
CallInv(t) ==
    /\ stage[t] # "idle" => on[t] \in Pool
    /\ stage[t] \in {"gated", "load", "exchange", "take", "rollback"} => on[t] \notin owned[t]
    /\ stage[t] \in {"rate", "drop", "giveback"} => on[t] \in owned[t]
    /\ stage[t] \in {"load", "exchange"} =>
          /\ cap[t] <= Hard[on[t]]
          /\ <<t, on[t]>> \in old \/ cap[t] = ceiling[on[t]]

\* The inductive invariant: no more young calls are counted than the ceiling
\* allows.
AdmissionInv ==
    /\ PoolsConserved
    /\ cap \in [Applicant -> Nat] /\ loaded \in [Applicant -> Nat]
    /\ \A t \in Applicant : CallInv(t)
    /\ \A p \in Pool : Cardinality(Young(p)) <= ceiling[p]

\* The sets that are counted.
LEMMA CountsAreFinite ==
    ASSUME NEW p
    PROVE  /\ IsFiniteSet(Holders(p)) /\ Cardinality(Holders(p)) \in Nat
           /\ IsFiniteSet(Counted(p)) /\ Cardinality(Counted(p)) \in Nat
           /\ IsFiniteSet(Young(p)) /\ Cardinality(Young(p)) \in Nat
           /\ Cardinality(Young(p)) <= Cardinality(Counted(p))
           /\ Cardinality(Young(p)) < Cardinality(Counted(p)) \/ Young(p) = Counted(p)
<1>1. Holders(p) \subseteq Applicant /\ Counted(p) \subseteq Applicant /\ Young(p) \subseteq Counted(p)
  BY Zenon DEF Holders, Counted, Young
<1>2. IsFiniteSet(Holders(p)) /\ IsFiniteSet(Counted(p)) BY <1>1, FS_Subset, AdmissionConstants, Zenon
<1>3. IsFiniteSet(Young(p)) /\ Cardinality(Young(p)) <= Cardinality(Counted(p))
      /\ (Cardinality(Young(p)) < Cardinality(Counted(p)) \/ Young(p) = Counted(p))
  BY <1>1, <1>2, FS_Subset, FS_CardinalityType
<1> QED BY <1>2, <1>3, FS_CardinalityType, Zenon

\* Every pool is empty at the start.
LEMMA AdmissionInitInv == AdmissionInit => AdmissionInv
<1> SUFFICES ASSUME AdmissionInit PROVE AdmissionInv BY Zenon
<1>1. \A p \in Pool : Holders(p) = {} /\ Counted(p) = {} /\ Young(p) = {}
  BY Zenon DEF AdmissionInit, Holders, Counted, Young
<1>2. AdmissionTypeOK
  BY AdmissionConstants DEF AdmissionInit, AdmissionTypeOK, ResourcePressure
<1>3. \A p \in Pool : /\ Cardinality(Holders(p)) = 0 /\ Cardinality(Counted(p)) = 0
                       /\ Cardinality(Young(p)) = 0 /\ Hard[p] \in Nat
  BY <1>1, FS_EmptySet, AdmissionConstants, Zenon
<1>4. PoolsConserved /\ \A p \in Pool : Cardinality(Young(p)) <= ceiling[p]
  BY <1>2, <1>3 DEF AdmissionInit, PoolsConserved
<1> QED BY <1>4, Zenon DEF AdmissionInit, AdmissionInv, CallInv

\* A step inside a call that moves no permit and no count.
LEMMA QuietStep ==
    ASSUME AdmissionInv, UNCHANGED <<counters, owned>>, gauge' \in ResourcePressure,
           stage' \in [Applicant -> {"idle", "gated", "load", "exchange", "take", "rollback",
                                     "rate", "drop", "giveback"}],
           on' \in [Applicant -> Pool \cup {NoPool}],
           cap' \in [Applicant -> Nat], loaded' \in [Applicant -> Nat],
           \A p \in Pool : Counted(p)' = Counted(p) /\ Young(p)' = Young(p),
           \A t \in Applicant : CallInv(t)'
    PROVE  AdmissionInv'
<1>1. AdmissionTypeOK' BY Zenon DEF AdmissionInv, PoolsConserved, AdmissionTypeOK, counters
<1>2. \A p \in Pool : Holders(p)' = Holders(p) BY Zenon DEF Holders
<1>3. PoolsConserved' BY <1>1, <1>2, Zenon DEF AdmissionInv, PoolsConserved, counters
<1> QED BY <1>3, Zenon DEF AdmissionInv, counters

\* Gating, reading, refusing and turning to a drop move nothing.
LEMMA QuietSteps ==
    ASSUME AdmissionInv, NEW t \in Applicant,
           \/ \E p \in Pool : PressureGate(t, p) \/ StartDrop(t, p)
           \/ ReadCeiling(t) \/ ReadInFlight(t) \/ AtCeiling(t)
           \/ CountIn(t) /\ inFlight[on[t]] # loaded[t]
           \/ SemaphoreEmpty(t) \/ RateAdmits(t) \/ RateRefuses(t)
    PROVE  AdmissionInv'
<1> USE AdmissionConstants
    DEF AdmissionInv, CallInv, PoolsConserved, AdmissionTypeOK, counters, MoveTo, CallOver,
        Counted, Young
<1>1. ASSUME NEW p \in Pool, PressureGate(t, p) PROVE AdmissionInv'
  <2>1. \A q \in Pool : Counted(q)' = Counted(q) /\ Young(q)' = Young(q) BY <1>1 DEF PressureGate
  <2>2. \A u \in Applicant : CallInv(u)' BY <1>1 DEF PressureGate
  <2> QED BY <1>1, <2>1, <2>2, QuietStep, Zenon DEF PressureGate
<1>2. ASSUME NEW p \in Pool, StartDrop(t, p) PROVE AdmissionInv'
  <2>1. \A q \in Pool : Counted(q)' = Counted(q) /\ Young(q)' = Young(q) BY <1>2 DEF StartDrop
  <2>2. \A u \in Applicant : CallInv(u)' BY <1>2 DEF StartDrop
  <2> QED BY <1>2, <2>1, <2>2, QuietStep, Zenon DEF StartDrop
<1>3. CASE ReadCeiling(t)
  <2>1. \A q \in Pool : Counted(q)' = Counted(q) /\ Young(q)' = Young(q) BY <1>3 DEF ReadCeiling
  <2>2. \A u \in Applicant : CallInv(u)' BY <1>3 DEF ReadCeiling
  <2> QED BY <1>3, <2>1, <2>2, QuietStep, ZenonT(60) DEF ReadCeiling
<1>4. CASE ReadInFlight(t)
  <2>1. \A q \in Pool : Counted(q)' = Counted(q) /\ Young(q)' = Young(q) BY <1>4 DEF ReadInFlight
  <2>2. \A u \in Applicant : CallInv(u)' BY <1>4 DEF ReadInFlight
  <2> QED BY <1>4, <2>1, <2>2, QuietStep, ZenonT(60) DEF ReadInFlight
<1>5. CASE AtCeiling(t)
  <2>1. \A q \in Pool : Counted(q)' = Counted(q) /\ Young(q)' = Young(q) BY <1>5 DEF AtCeiling
  <2>2. \A u \in Applicant : CallInv(u)' BY <1>5, ZenonT(60) DEF AtCeiling
  <2> QED BY <1>5, <2>1, <2>2, QuietStep, Zenon DEF AtCeiling
<1>6. CASE CountIn(t) /\ inFlight[on[t]] # loaded[t]
  <2>1. \A q \in Pool : Counted(q)' = Counted(q) /\ Young(q)' = Young(q) BY <1>6 DEF CountIn
  <2>2. \A u \in Applicant : CallInv(u)' BY <1>6, ZenonT(60) DEF CountIn
  <2>3. inFlight[on[t]] \in Nat BY <1>6, Zenon DEF CountIn
  <2>4. loaded' = [loaded EXCEPT ![t] = inFlight[on[t]]] BY <1>6, Zenon DEF CountIn
  <2>5. loaded' \in [Applicant -> Nat] BY <2>3, <2>4, Zenon
  <2>6. UNCHANGED <<permits, inFlight, ceiling, stage, gauge, owned, on, cap>>
    BY <1>6, Zenon DEF CountIn
  <2> QED BY <2>1, <2>2, <2>5, <2>6, QuietStep, Zenon
<1>7. CASE SemaphoreEmpty(t)
  <2>1. \A q \in Pool : Counted(q)' = Counted(q) /\ Young(q)' = Young(q) BY <1>7 DEF SemaphoreEmpty
  <2>2. \A u \in Applicant : CallInv(u)' BY <1>7 DEF SemaphoreEmpty
  <2> QED BY <1>7, <2>1, <2>2, QuietStep, Zenon DEF SemaphoreEmpty
<1>8. CASE RateAdmits(t)
  <2>1. \A q \in Pool : Counted(q)' = Counted(q) /\ Young(q)' = Young(q) BY <1>8, ZenonT(60)
       DEF RateAdmits
  <2>2. \A u \in Applicant : CallInv(u)' BY <1>8 DEF RateAdmits
  <2> QED BY <1>8, <2>1, <2>2, QuietStep, Zenon DEF RateAdmits
<1>9. CASE RateRefuses(t)
  <2>1. \A q \in Pool : Counted(q)' = Counted(q) /\ Young(q)' = Young(q) BY <1>9 DEF RateRefuses
  <2>2. \A u \in Applicant : CallInv(u)' BY <1>9 DEF RateRefuses
  <2> QED BY <1>9, <2>1, <2>2, QuietStep, Zenon DEF RateRefuses
<1> QED BY <1>1, <1>2, <1>3, <1>4, <1>5, <1>6, <1>7, <1>8, <1>9, ZenonT(30)

\* A step that adds t to the calls counted in p, or takes it out.
LEMMA CountIsCardinality ==
    ASSUME NEW p, NEW t \in Applicant, NEW S \in SUBSET Applicant
    PROVE  /\ IsFiniteSet(S) /\ Cardinality(S) \in Nat
           /\ t \notin S => Cardinality(S \cup {t}) = Cardinality(S) + 1
           /\ t \in S => Cardinality(S \ {t}) = Cardinality(S) - 1
<1>1. IsFiniteSet(S) BY FS_Subset, AdmissionConstants, Zenon
<1> QED BY <1>1, FS_AddElement, FS_RemoveElement, FS_CardinalityType, Zenon

\* The exchange: a young call has compared with the ceiling that is in force.
LEMMA CountInKeeps ==
    ASSUME AdmissionInv, NEW t \in Applicant, CountIn(t), inFlight[on[t]] = loaded[t]
    PROVE  AdmissionInv'
<1>0. PICK p \in Pool : p = on[t]
  BY Zenon DEF CountIn, AdmissionInv, CallInv
<1>1. /\ p \in Pool /\ p \notin owned[t] /\ stage[t] = "exchange"
      /\ cap[t] \in Nat /\ inFlight[p] \in Nat /\ ceiling[p] \in Nat /\ Hard[p] \in Nat
      /\ inFlight[p] < cap[t] /\ cap[t] <= Hard[p]
      /\ <<t, p>> \in old \/ cap[t] = ceiling[p]
      /\ inFlight' = [inFlight EXCEPT ![p] = @ + 1]
      /\ stage' = [stage EXCEPT ![t] = "take"]
      /\ UNCHANGED <<permits, ceiling, gauge, owned, on, cap, old, loaded>>
  BY <1>0, AdmissionConstants, ZenonT(60)
     DEF CountIn, MoveTo, AdmissionInv, CallInv, PoolsConserved, AdmissionTypeOK
<1>2. AdmissionTypeOK' BY <1>0, <1>1 DEF AdmissionInv, PoolsConserved, AdmissionTypeOK
<1>3. \A q \in Pool : /\ Holders(q)' = Holders(q)
                      /\ Counted(q)' = IF q = p THEN Counted(q) \cup {t} ELSE Counted(q)
                      /\ t \notin Counted(p)
                      /\ Young(q)' = IF q = p /\ <<t, p>> \notin old THEN Young(q) \cup {t}
                                     ELSE Young(q)
  BY <1>0, <1>1 DEF AdmissionInv, PoolsConserved, AdmissionTypeOK, Holders, Counted, Young
<1>4. Counted(p) \in SUBSET Applicant /\ Young(p) \in SUBSET Applicant /\ t \notin Young(p)
  BY <1>0, <1>1, <1>3, Zenon DEF Counted, Young
<1>5. /\ Cardinality(Counted(p)) \in Nat /\ Cardinality(Young(p)) \in Nat
      /\ Cardinality(Counted(p) \cup {t}) = Cardinality(Counted(p)) + 1
      /\ Cardinality(Young(p) \cup {t}) = Cardinality(Young(p)) + 1
      /\ Cardinality(Young(p)) <= Cardinality(Counted(p))
  BY <1>0, <1>1, <1>3, <1>4, CountIsCardinality, CountsAreFinite, Zenon
<1>6. inFlight[p] = Cardinality(Counted(p)) BY <1>0, <1>1, Zenon DEF AdmissionInv, PoolsConserved
<1>7. PoolsConserved'
  <2>1. \A q \in Pool : permits'[q] + Cardinality(Holders(q)') = Hard[q]
    BY <1>0, <1>1, <1>3, Zenon DEF AdmissionInv, PoolsConserved
  <2>2. \A q \in Pool : inFlight'[q] = Cardinality(Counted(q)')
    BY <1>0, <1>1, <1>3, <1>5, <1>6, Zenon DEF AdmissionInv, PoolsConserved, AdmissionTypeOK
  <2> QED BY <1>2, <2>1, <2>2, Zenon DEF PoolsConserved
<1>8. \A q \in Pool : Cardinality(Young(q)') <= ceiling'[q]
  <2>1. <<t, p>> \notin old => Cardinality(Young(p)) + 1 <= ceiling[p] BY <1>0, <1>1, <1>5, <1>6
  <2> QED BY <1>0, <1>1, <1>3, <1>5, <2>1, Zenon DEF AdmissionInv
<1>9. \A u \in Applicant : CallInv(u)'
  BY <1>0, <1>1, ZenonT(60) DEF AdmissionInv, PoolsConserved, AdmissionTypeOK, CallInv
<1> QED BY <1>0, <1>1, <1>7, <1>8, <1>9, Zenon DEF AdmissionInv

\* A step that leaves the young calls where they are, or fewer of them.
LEMMA YoungStay ==
    ASSUME AdmissionInv, UNCHANGED ceiling, \A q \in Pool : Young(q)' \subseteq Young(q)
    PROVE  \A q \in Pool : Cardinality(Young(q)') <= ceiling'[q]
<1> SUFFICES ASSUME NEW q \in Pool PROVE Cardinality(Young(q)') <= ceiling'[q] BY Zenon
<1>1. IsFiniteSet(Young(q)) /\ Cardinality(Young(q)) \in Nat BY CountsAreFinite, Zenon
<1>2. Cardinality(Young(q)') <= Cardinality(Young(q)) /\ Cardinality(Young(q)') \in Nat
  BY <1>1, FS_Subset, FS_CardinalityType, Zenon
<1>3. ceiling[q] \in Nat BY Zenon DEF AdmissionInv, PoolsConserved, AdmissionTypeOK
<1> QED BY <1>1, <1>2, <1>3 DEF AdmissionInv

\* try_acquire_owned: the permit moves from the semaphore to the caller.
LEMMA TakePermitKeeps ==
    ASSUME AdmissionInv, NEW t \in Applicant, TryAcquireOwned(t)
    PROVE  AdmissionInv'
<1>0. PICK p \in Pool : p = on[t]
  BY Zenon DEF TryAcquireOwned, AdmissionInv, CallInv
<1>1. /\ p \in Pool /\ p \notin owned[t] /\ stage[t] = "take" /\ permits[p] > 0
      /\ permits[p] \in Nat /\ Hard[p] \in Nat
      /\ permits' = [permits EXCEPT ![p] = @ - 1]
      /\ owned' = [owned EXCEPT ![t] = @ \cup {p}]
      /\ UNCHANGED <<inFlight, ceiling, gauge, old>>
  BY <1>0, AdmissionConstants, ZenonT(60)
     DEF TryAcquireOwned, AdmissionInv, CallInv, PoolsConserved, AdmissionTypeOK
<1>2. \/ stage' = [stage EXCEPT ![t] = "rate"] /\ UNCHANGED <<on, cap, loaded>>
      \/ /\ stage' = [stage EXCEPT ![t] = "idle"] /\ on' = [on EXCEPT ![t] = NoPool]
         /\ cap' = [cap EXCEPT ![t] = 0] /\ loaded' = [loaded EXCEPT ![t] = 0]
  BY Zenon DEF TryAcquireOwned, MoveTo, CallOver
<1>3. AdmissionTypeOK' BY <1>0, <1>1, <1>2 DEF AdmissionInv, PoolsConserved, AdmissionTypeOK
<1>4. \A q \in Pool : /\ Holders(q)' = IF q = p THEN Holders(q) \cup {t} ELSE Holders(q)
                      /\ t \notin Holders(p)
  BY <1>0, <1>1, ZenonT(60) DEF AdmissionInv, PoolsConserved, AdmissionTypeOK, Holders
<1>5. \A q \in Pool : Counted(q)' = Counted(q)
  BY <1>0, <1>1, <1>2 DEF AdmissionInv, PoolsConserved, AdmissionTypeOK, Counted
<1>6. \A q \in Pool : Young(q)' = Young(q) BY <1>0, <1>1, <1>5, Zenon DEF Young
<1>7. Cardinality(Holders(p) \cup {t}) = Cardinality(Holders(p)) + 1 /\ Cardinality(Holders(p)) \in Nat
  <2>1. Holders(p) \in SUBSET Applicant BY Zenon DEF Holders
  <2> QED BY <1>0, <1>1, <1>4, <2>1, CountIsCardinality, Zenon
<1>8. PoolsConserved'
  <2>1. permits[p] + Cardinality(Holders(p)) = Hard[p] BY <1>0, <1>1, Zenon DEF AdmissionInv, PoolsConserved
  <2>2. permits'[p] = permits[p] - 1 /\ \A q \in Pool : q # p => permits'[q] = permits[q]
    BY <1>0, <1>1, Zenon DEF AdmissionInv, PoolsConserved, AdmissionTypeOK
  <2>3. \A q \in Pool : permits'[q] + Cardinality(Holders(q)') = Hard[q]
    <3>1. Cardinality(Holders(p)') = Cardinality(Holders(p)) + 1 BY <1>0, <1>1, <1>4, <1>7, Zenon
    <3>2. permits'[p] + Cardinality(Holders(p)') = Hard[p] BY <1>0, <1>1, <1>7, <2>1, <2>2, <3>1
    <3>3. \A q \in Pool : q # p => permits'[q] + Cardinality(Holders(q)') = Hard[q]
      BY <1>4, <2>2, Zenon DEF AdmissionInv, PoolsConserved
    <3> QED BY <3>2, <3>3, Zenon
  <2>4. \A q \in Pool : inFlight'[q] = Cardinality(Counted(q)')
    BY <1>0, <1>1, <1>5, Zenon DEF AdmissionInv, PoolsConserved
  <2> QED BY <1>3, <2>3, <2>4, Zenon DEF PoolsConserved
<1>9. cap' \in [Applicant -> Nat] /\ loaded' \in [Applicant -> Nat]
  BY <1>2 DEF AdmissionInv
<1>10. \A u \in Applicant : CallInv(u)'
  BY <1>0, <1>1, <1>2, SMTT(20) DEF AdmissionInv, PoolsConserved, AdmissionTypeOK, CallInv
<1> QED BY <1>0, <1>1, <1>6, <1>8, <1>9, <1>10, YoungStay, Zenon DEF AdmissionInv

\* The count falls: a rolled-back acquire, or the first half of a drop.
LEMMA UncountKeeps ==
    ASSUME AdmissionInv, NEW t \in Applicant, Rollback(t) \/ Uncount(t)
    PROVE  AdmissionInv'
<1>0. PICK p \in Pool : p = on[t]
  BY Zenon DEF Rollback, Uncount, AdmissionInv, CallInv
<1>1. /\ p \in Pool /\ inFlight' = [inFlight EXCEPT ![p] = @ - 1] /\ inFlight[p] \in Nat
      /\ \/ stage[t] = "rollback" /\ p \notin owned[t]
         \/ stage[t] = "drop" /\ p \in owned[t]
      /\ UNCHANGED <<permits, ceiling, gauge, owned, old>>
  BY <1>0, Zenon DEF Rollback, Uncount, AdmissionInv, CallInv, PoolsConserved, AdmissionTypeOK
<1>2. \/ stage[t] = "drop" /\ stage' = [stage EXCEPT ![t] = "giveback"] /\ UNCHANGED <<on, cap, loaded>>
      \/ /\ stage[t] = "rollback"
         /\ stage' = [stage EXCEPT ![t] = "idle"] /\ on' = [on EXCEPT ![t] = NoPool]
         /\ cap' = [cap EXCEPT ![t] = 0] /\ loaded' = [loaded EXCEPT ![t] = 0]
  BY Zenon DEF Rollback, Uncount, MoveTo, CallOver
<1>3. \A q \in Pool : /\ Holders(q)' = Holders(q)
                      /\ Counted(q)' = IF q = p THEN Counted(q) \ {t} ELSE Counted(q)
  BY <1>0, <1>1, <1>2 DEF AdmissionInv, PoolsConserved, AdmissionTypeOK, Holders, Counted
<1>4. t \in Counted(p) BY <1>0, <1>1, Zenon DEF Counted
<1>5. \A q \in Pool : Young(q)' \subseteq Young(q) BY <1>0, <1>1, <1>3, Zenon DEF Young
<1>6. /\ Cardinality(Counted(p) \ {t}) = Cardinality(Counted(p)) - 1
      /\ Cardinality(Counted(p)) \in Nat /\ Cardinality(Counted(p)) # 0
  <2>1. Counted(p) \in SUBSET Applicant BY Zenon DEF Counted
  <2> QED BY <1>4, <2>1, CountIsCardinality, FS_EmptySet, Zenon
<1>7. inFlight[p] = Cardinality(Counted(p)) BY <1>0, <1>1, Zenon DEF AdmissionInv, PoolsConserved
<1>8. AdmissionTypeOK'
  <2>1. inFlight[p] - 1 \in Nat /\ inFlight[p] - 1 <= inFlight[p] BY <1>0, <1>1, <1>6, <1>7
  <2>2. inFlight' \in [Pool -> Nat] /\ \A q \in Pool : inFlight'[q] <= Hard[q]
    <3>1. inFlight \in [Pool -> Nat] /\ inFlight[p] <= Hard[p] /\ Hard[p] \in Nat
      BY <1>0, <1>1, AdmissionConstants, Zenon DEF AdmissionInv, PoolsConserved, AdmissionTypeOK
    <3>2. inFlight[p] - 1 <= Hard[p] BY <1>0, <1>1, <2>1, <3>1
    <3>3. inFlight' \in [Pool -> Nat] BY <1>0, <1>1, <2>1, <3>1, Zenon
    <3>4. inFlight'[p] <= Hard[p] BY <1>0, <1>1, <3>1, <3>2, Zenon
    <3>5. \A q \in Pool : q # p => inFlight'[q] = inFlight[q] BY <1>0, <1>1, <3>1, Zenon
    <3> QED BY <3>3, <3>4, <3>5, Zenon DEF AdmissionInv, PoolsConserved, AdmissionTypeOK
  <2> QED BY <1>0, <1>1, <1>2, <2>2, ZenonT(60) DEF AdmissionInv, PoolsConserved, AdmissionTypeOK
<1>9. PoolsConserved'
  BY <1>0, <1>1, <1>3, <1>6, <1>7, <1>8, ZenonT(60) DEF AdmissionInv, PoolsConserved, AdmissionTypeOK
<1>10. cap' \in [Applicant -> Nat] /\ loaded' \in [Applicant -> Nat] BY <1>2 DEF AdmissionInv
<1>11. \A u \in Applicant : CallInv(u)'
  BY <1>0, <1>1, <1>2 DEF AdmissionInv, PoolsConserved, AdmissionTypeOK, CallInv
<1> QED BY <1>0, <1>1, <1>5, <1>9, <1>10, <1>11, YoungStay, Zenon DEF AdmissionInv

\* The second half of a drop: the semaphore gets its permit back.
LEMMA GiveBackKeeps ==
    ASSUME AdmissionInv, NEW t \in Applicant, GiveBack(t)
    PROVE  AdmissionInv'
<1>0. PICK p \in Pool : p = on[t]
  BY Zenon DEF GiveBack, AdmissionInv, CallInv
<1>1. /\ p \in Pool /\ p \in owned[t] /\ stage[t] = "giveback"
      /\ permits[p] \in Nat /\ Hard[p] \in Nat
      /\ permits' = [permits EXCEPT ![p] = @ + 1]
      /\ owned' = [owned EXCEPT ![t] = @ \ {p}]
      /\ old' = old \ {<<t, p>>}
      /\ stage' = [stage EXCEPT ![t] = "idle"] /\ on' = [on EXCEPT ![t] = NoPool]
      /\ cap' = [cap EXCEPT ![t] = 0] /\ loaded' = [loaded EXCEPT ![t] = 0]
      /\ UNCHANGED <<inFlight, ceiling, gauge>>
  BY <1>0, AdmissionConstants, ZenonT(60)
     DEF GiveBack, CallOver, MoveTo, AdmissionInv, CallInv, PoolsConserved, AdmissionTypeOK
<1>2. \A q \in Pool : Holders(q)' = IF q = p THEN Holders(q) \ {t} ELSE Holders(q)
  BY <1>0, <1>1, Zenon DEF AdmissionInv, PoolsConserved, AdmissionTypeOK, Holders
<1>3. \A q \in Pool : Counted(q)' = Counted(q)
  BY <1>0, <1>1, ZenonT(60) DEF AdmissionInv, PoolsConserved, AdmissionTypeOK, Counted
<1>4. t \notin Counted(p) /\ t \in Holders(p) BY <1>0, <1>1, Zenon DEF Counted, Holders
<1>5. \A q \in Pool : Young(q)' = Young(q) BY <1>0, <1>1, <1>3, <1>4, Zenon DEF Young
<1>6. /\ Cardinality(Holders(p) \ {t}) = Cardinality(Holders(p)) - 1
      /\ Cardinality(Holders(p)) \in Nat /\ Cardinality(Holders(p)) # 0
  <2>1. Holders(p) \in SUBSET Applicant BY Zenon DEF Holders
  <2> QED BY <1>4, <2>1, CountIsCardinality, FS_EmptySet, Zenon
<1>7. permits[p] + Cardinality(Holders(p)) = Hard[p] BY <1>0, <1>1, Zenon DEF AdmissionInv, PoolsConserved
<1>8. AdmissionTypeOK' BY <1>0, <1>1, <1>6, <1>7 DEF AdmissionInv, PoolsConserved, AdmissionTypeOK
<1>9. PoolsConserved'
  <2>1. permits'[p] = permits[p] + 1 /\ \A q \in Pool : q # p => permits'[q] = permits[q]
    BY <1>0, <1>1, Zenon DEF AdmissionInv, PoolsConserved, AdmissionTypeOK
  <2>2. \A q \in Pool : permits'[q] + Cardinality(Holders(q)') = Hard[q]
    <3>1. Cardinality(Holders(p)') = Cardinality(Holders(p)) - 1 BY <1>0, <1>1, <1>2, <1>6, ZenonT(30)
    <3>2. permits'[p] + Cardinality(Holders(p)') = Hard[p] BY <1>0, <1>1, <1>6, <1>7, <2>1, <3>1, SMTT(20)
    <3>3. \A q \in Pool : q # p => permits'[q] + Cardinality(Holders(q)') = Hard[q]
      BY <1>2, <2>1, Zenon DEF AdmissionInv, PoolsConserved
    <3> QED BY <3>2, <3>3, Zenon
  <2>3. \A q \in Pool : inFlight'[q] = Cardinality(Counted(q)')
    BY <1>0, <1>1, <1>3, Zenon DEF AdmissionInv, PoolsConserved
  <2> QED BY <1>8, <2>2, <2>3, Zenon DEF PoolsConserved
<1>10. cap' \in [Applicant -> Nat] /\ loaded' \in [Applicant -> Nat] BY <1>0, <1>1, Zenon DEF AdmissionInv
<1>11. \A u \in Applicant : CallInv(u)'
  BY <1>0, <1>1, ZenonT(60) DEF AdmissionInv, PoolsConserved, AdmissionTypeOK, CallInv
<1> QED BY <1>0, <1>1, <1>5, <1>9, <1>10, <1>11, YoungStay, Zenon DEF AdmissionInv

\* A moved ceiling makes every call and permit of the pool old.
LEMMA SetCeilingKeeps ==
    ASSUME AdmissionInv, NEW p \in Pool, NEW c \in Nat, SetCeiling(p, c)
    PROVE  AdmissionInv'
<1>1. /\ ceiling' \in [Pool -> Nat] /\ \A q \in Pool : ceiling'[q] <= Hard[q]
      /\ \A q \in Pool : q # p => ceiling'[q] = ceiling[q]
  <2> DEFINE new == IF c < Hard[p] THEN c ELSE Hard[p]
  <2>1. new \in Nat /\ new <= Hard[p] BY AdmissionConstants
  <2>2. ceiling \in [Pool -> Nat] /\ \A q \in Pool : ceiling[q] <= Hard[q]
    BY Zenon DEF AdmissionInv, PoolsConserved, AdmissionTypeOK
  <2>3. ceiling' = [ceiling EXCEPT ![p] = new] BY Zenon DEF SetCeiling
  <2> HIDE DEF new
  <2> QED BY <2>1, <2>2, <2>3, Zenon
<1>2. UNCHANGED <<permits, inFlight, gauge, owned, stage, on, cap, loaded>> BY Zenon DEF SetCeiling
<1>3. AdmissionTypeOK' BY <1>1, <1>2, Zenon DEF AdmissionInv, PoolsConserved, AdmissionTypeOK
<1>4. \A q \in Pool : Holders(q)' = Holders(q) /\ Counted(q)' = Counted(q)
  BY <1>2, Zenon DEF Holders, Counted
<1>5. PoolsConserved' BY <1>2, <1>3, <1>4, Zenon DEF AdmissionInv, PoolsConserved
<1>6. \A u \in Applicant, q \in Pool :
         <<u, q>> \in old' <=> <<u, q>> \in old \/ (q = p /\ Engaged(u, p))
  BY Zenon DEF SetCeiling
<1>7. Young(p)' = {}
  <2>1. \A u \in Counted(p) : Engaged(u, p) BY Zenon DEF Counted, Engaged
  <2>2. Counted(p) \subseteq Applicant BY Zenon DEF Counted
  <2> QED BY <1>4, <1>6, <2>1, <2>2, Zenon DEF Young
<1>8. \A q \in Pool : q # p => Young(q)' = Young(q)
  <2>1. \A q \in Pool : Counted(q) \subseteq Applicant BY Zenon DEF Counted
  <2> QED BY <1>4, <1>6, <2>1, Zenon DEF Young
<1>9. \A q \in Pool : Cardinality(Young(q)') <= ceiling'[q]
  <2>1. Cardinality(Young(p)') = 0 BY <1>7, FS_EmptySet, Zenon
  <2>2. ceiling'[p] \in Nat BY <1>1, Zenon
  <2> QED BY <1>1, <1>8, <2>1, <2>2 DEF AdmissionInv
<1>10. \A u \in Applicant : CallInv(u)'
  BY <1>1, <1>2, <1>6, ZenonT(60) DEF AdmissionInv, PoolsConserved, AdmissionTypeOK, CallInv, Engaged
<1> QED BY <1>2, <1>5, <1>9, <1>10, Zenon DEF AdmissionInv

\* AdmissionInv is an invariant of admission.
LEMMA AdmissionInvHolds == AdmissionSpec => []AdmissionInv
<1>1. AdmissionInv /\ [AdmissionNext]_admissionVars => AdmissionInv'
  <2> SUFFICES ASSUME AdmissionInv, [AdmissionNext]_admissionVars PROVE AdmissionInv' BY Zenon
  <2>1. ASSUME NEW t \in Applicant, ApplicantStep(t) PROVE AdmissionInv'
    BY <2>1, QuietSteps, CountInKeeps, TakePermitKeeps, UncountKeeps, GiveBackKeeps, Zenon
       DEF ApplicantStep
  <2>2. ASSUME NEW p \in Pool, NEW c \in 0..(Hard[p] + 1), SetCeiling(p, c) PROVE AdmissionInv'
    BY <2>2, SetCeilingKeeps, AdmissionConstants, SMTT(20)
  <2>3. ASSUME UNCHANGED <<counters, owned, stage, on, cap, loaded, old>>,
               gauge' \in ResourcePressure
        PROVE  AdmissionInv'
    <3>1. \A q \in Pool : Counted(q)' = Counted(q) /\ Young(q)' = Young(q)
      BY <2>3, ZenonT(60) DEF Counted, Young
    <3>2. \A u \in Applicant : CallInv(u)' BY <2>3, Zenon DEF AdmissionInv, CallInv, counters
    <3> QED BY <2>3, <3>1, <3>2, QuietStep, Zenon
         DEF AdmissionInv, PoolsConserved, AdmissionTypeOK
  <2>4. CASE \E s \in ResourcePressure : SetGauge(s) BY <2>3, <2>4, Zenon DEF SetGauge
  <2>5. CASE UNCHANGED admissionVars
    BY <2>3, <2>5, Zenon DEF admissionVars, counters, AdmissionInv, PoolsConserved, AdmissionTypeOK
  <2> QED BY <2>1, <2>2, <2>4, <2>5, Zenon DEF AdmissionNext
<1> QED BY <1>1, AdmissionInitInv, PTL DEF AdmissionSpec

\* A pool's count is the number of calls counted in it, and no more permits are
\* out than its semaphore has.
THEOREM PoolsAreConserved == AdmissionSpec => []PoolsConserved
<1>1. AdmissionInv => PoolsConserved BY Zenon DEF AdmissionInv
<1> QED BY <1>1, AdmissionInvHolds, PTL

\* A pool is above its ceiling only while a call that began before the ceiling
\* was last set is counted in it.
THEOREM CeilingBindsLaterCalls == AdmissionSpec => []ExcessIsOld
<1>1. AdmissionInv => ExcessIsOld
  <2> SUFFICES ASSUME AdmissionInv, NEW p \in Pool, inFlight[p] > ceiling[p]
               PROVE  \E t \in Counted(p) : <<t, p>> \in old
    BY Zenon DEF ExcessIsOld
  <2>1. inFlight[p] = Cardinality(Counted(p)) /\ Cardinality(Young(p)) <= ceiling[p]
    BY Zenon DEF AdmissionInv, PoolsConserved
  <2>2. inFlight[p] \in Nat /\ ceiling[p] \in Nat
    BY Zenon DEF AdmissionInv, PoolsConserved, AdmissionTypeOK
  <2>3. Young(p) # Counted(p) BY <2>1, <2>2, CountsAreFinite
  <2> QED BY <2>3, Zenon DEF Young
<1> QED BY <1>1, AdmissionInvHolds, PTL

-----------------------------------------------------------------------------
(* The connector *)

\* The inductive invariant.  A connect holds two units at most besides the
\* winner's.  The loop waits only while an attempt is out; it comes back to its
\* head with none out only when the last one has failed, and then nothing keeps
\* it from launching the next.
ConnectorInv ==
    /\ ConnectorTypeOK
    /\ Cardinality(Tasks) + recycled <= 2 /\ spare + Held <= Budget
    /\ \A i \in Address : i > next => attempt[i] = "none"
    /\ won <=> outcome = "connected"
    /\ at \in {"launch", "select"} => outcome = "none"
    /\ at = "drain" => outcome \in {"connected", "timeout"}
    /\ at = "select" => Tasks # {}
    /\ at = "launch" /\ Tasks = {} => ~fdBlocked /\ launchDue /\ (next > 0 => lastError)
    /\ at = "returned" => Tasks = {} /\ recycled = 0
    /\ PlanIsExhausted

\* How many attempts are out.
LEMMA TasksAreFinite ==
    ASSUME ConnectorTypeOK
    PROVE  /\ IsFiniteSet(Tasks) /\ Cardinality(Tasks) \in Nat
           /\ Cardinality(Tasks) = 0 <=> Tasks = {}
<1>1. IsFiniteSet(Address) BY ConnectorAssumption, FS_Interval DEF Address
<1>2. Tasks \subseteq Address BY Zenon DEF Tasks
<1>3. IsFiniteSet(Tasks) BY <1>1, <1>2, FS_Subset, Zenon
<1> QED BY <1>3, FS_EmptySet, FS_CardinalityType, Zenon

\* What others may take leaves what the connect holds.
LEMMA RoomLeft ==
    ASSUME NEW b \in Nat, NEW h \in Nat, NEW s \in 0 .. b - h
    PROVE  s \in 0 .. b /\ s + h <= b
OBVIOUS

\* No attempt is out when a connect begins.
LEMMA ConnectorInitInv == ConnectorInit => ConnectorInv
<1> SUFFICES ASSUME ConnectorInit PROVE ConnectorInv BY Zenon
<1>1. ConnectorTypeOK
  <2>1. next \in 0 .. addresses BY ConnectorAssumption DEF ConnectorInit, Address
  <2>2. mixed \in BOOLEAN BY Zenon DEF ConnectorInit
  <2>3. attempt \in [Address -> Unjoined \cup {"none", "gone"}] BY Zenon DEF ConnectorInit
  <2>4. spare \in 0 .. Budget /\ recycled \in 0 .. 2 /\ addresses \in Address
    BY DEF ConnectorInit
  <2> QED BY <2>1, <2>2, <2>3, <2>4, Zenon DEF ConnectorInit, ConnectorTypeOK
<1>2. Tasks = {} BY Zenon DEF ConnectorInit, Tasks, Unjoined
<1>3. Cardinality(Tasks) = 0 BY <1>2, FS_EmptySet, Zenon
<1> QED BY <1>1, <1>2, <1>3, ConnectorAssumption
        DEF ConnectorInit, ConnectorInv, PlanIsExhausted, Held

\* A launch: the attempt's permit is a recycled one or comes from the budget.
LEMMA LaunchKeeps ==
    ASSUME ConnectorInv, LaunchAttempt
    PROVE  ConnectorInv'
<1> DEFINE n == next + 1
<1>0. /\ n \in Address /\ n <= addresses /\ n \notin Tasks
      /\ next \in Nat /\ addresses \in Nat
  BY ConnectorAssumption
     DEF LaunchAttempt, MayLaunch, ConnectorInv, ConnectorTypeOK, Address, Tasks, Unjoined
<1>1. Tasks' = Tasks \cup {n}
  BY <1>0, ZenonT(60) DEF LaunchAttempt, ConnectorInv, ConnectorTypeOK, Tasks, Unjoined
<1>2. IsFiniteSet(Tasks) /\ Cardinality(Tasks) \in Nat BY TasksAreFinite, Zenon DEF ConnectorInv
<1>3. Cardinality(Tasks') = Cardinality(Tasks) + 1 BY <1>0, <1>1, <1>2, FS_AddElement, Zenon
<1>4. Cardinality(Tasks) < 2
  <2>1. CASE mixed BY <2>1, Zenon DEF LaunchAttempt, MayLaunch
  <2>2. CASE ~mixed BY <2>2, FS_EmptySet DEF LaunchAttempt, MayLaunch
  <2> QED BY <2>1, <2>2, Zenon
<1>5. /\ recycled' \in 0 .. 2 /\ spare' \in 0 .. Budget
      /\ recycled' + spare' = recycled + spare - 1
      /\ Cardinality(Tasks') + recycled' <= 2
  BY <1>2, <1>3, <1>4, ConnectorAssumption DEF LaunchAttempt, ConnectorInv, ConnectorTypeOK
<1>6. spare' + Held' <= Budget
  BY <1>2, <1>3, <1>5, ConnectorAssumption
     DEF LaunchAttempt, ConnectorInv, ConnectorTypeOK, Held
<1>7. ConnectorTypeOK'
  <2>1. next' \in 0 .. addresses' BY <1>0 DEF LaunchAttempt
  <2>2. attempt' \in [Address -> Unjoined \cup {"none", "gone"}]
    BY <1>0, Zenon DEF LaunchAttempt, ConnectorInv, ConnectorTypeOK, Unjoined
  <2> QED BY <1>5, <2>1, <2>2, Zenon DEF LaunchAttempt, ConnectorInv, ConnectorTypeOK
<1>8. \A i \in Address : i > next' => attempt'[i] = "none"
  BY <1>0, ConnectorAssumption DEF LaunchAttempt, ConnectorInv, ConnectorTypeOK, Address
<1>9. Cardinality(Tasks') + recycled' <= 2 BY <1>5, Zenon
<1>10. Tasks' # {} /\ at' = "launch" /\ outcome' = "none" /\ (won' <=> outcome' = "connected")
  BY <1>1, Zenon DEF LaunchAttempt, ConnectorInv
<1> QED BY <1>6, <1>7, <1>8, <1>9, <1>10, Zenon DEF ConnectorInv, PlanIsExhausted

\* The connect returns: no attempt is out, and what was kept goes back.
LEMMA ReturnKeeps ==
    ASSUME ConnectorInv, NEW result \in {"connected", "io", "budget", "timeout"}, Return(result),
           Tasks = {}, won <=> result = "connected", result = "io" => next = addresses /\ lastError,
           UNCHANGED <<addresses, mixed, next, attempt, launchDue, lastError, expired, won, fdBlocked>>
    PROVE  ConnectorInv'
<1>1. Tasks' = {} BY Zenon DEF Tasks
<1>2. Cardinality(Tasks) = 0 /\ Cardinality(Tasks') = 0 BY <1>1, FS_EmptySet, Zenon
<1>3. spare' \in 0 .. Budget /\ spare' + Held' <= Budget
  BY <1>2, ConnectorAssumption DEF Return, ConnectorInv, ConnectorTypeOK, Held
<1>4. ConnectorTypeOK' BY <1>3 DEF Return, ConnectorInv, ConnectorTypeOK
<1> QED BY <1>1, <1>2, <1>3, <1>4 DEF Return, ConnectorInv, PlanIsExhausted

\* A step of the loop that moves no attempt and no unit.
LEMMA LoopMoves ==
    ASSUME ConnectorInv, at \in {"launch", "select"}, at' \in {"launch", "select", "drain"},
           Tasks # {}, fdBlocked' \in BOOLEAN, expired' \in BOOLEAN, launchDue' \in BOOLEAN,
           outcome' = IF at' = "drain" THEN "timeout" ELSE "none",
           UNCHANGED <<addresses, mixed, next, attempt, recycled, lastError, won, spare>>
    PROVE  ConnectorInv'
<1>1. Tasks' = Tasks BY Zenon DEF Tasks
<1>2. ConnectorTypeOK' BY Zenon DEF ConnectorInv, ConnectorTypeOK
<1>3. spare' + Held' <= Budget BY <1>1, Zenon DEF ConnectorInv, Held
<1> QED BY <1>1, <1>2, <1>3, Zenon DEF ConnectorInv, PlanIsExhausted

\* The steps of the launch loop and of the drain.
LEMMA DriverKeeps ==
    ASSUME ConnectorInv,
           NoUnit \/ LaunchDone \/ DeadlineBranch \/ LaunchBranch \/ DrainEnds
    PROVE  ConnectorInv'
<1>0. /\ fdBlocked \in BOOLEAN /\ expired \in BOOLEAN /\ launchDue \in BOOLEAN
      /\ at \in {"launch", "select"} => outcome = "none" /\ ~won
  BY Zenon DEF ConnectorInv, ConnectorTypeOK
<1>1. CASE NoUnit
  <2>1. CASE Tasks = {} BY <1>0, <1>1, <2>1, ReturnKeeps, Zenon DEF NoUnit
  <2>2. CASE Tasks # {} BY <1>0, <1>1, <2>2, LoopMoves, Zenon DEF NoUnit
  <2> QED BY <2>1, <2>2, Zenon
<1>2. CASE LaunchDone
  <2>1. CASE Tasks = {}
    <3>1. Cardinality(Tasks) = 0 BY <2>1, FS_EmptySet, Zenon
    <3>2. ~fdBlocked /\ launchDue /\ (next > 0 => lastError)
      BY <1>2, <2>1, Zenon DEF LaunchDone, ConnectorInv
    <3>3. ~(next < addresses) BY <1>2, <2>1, <3>1, <3>2 DEF LaunchDone, MayLaunch
    <3>4. next = addresses /\ lastError
      BY <3>2, <3>3, ConnectorAssumption DEF ConnectorInv, ConnectorTypeOK, Address
    <3> QED BY <1>0, <1>2, <2>1, <3>4, ReturnKeeps, Zenon DEF LaunchDone
  <2>2. CASE Tasks # {} BY <1>0, <1>2, <2>2, LoopMoves, Zenon DEF LaunchDone
  <2> QED BY <2>1, <2>2, Zenon
<1>3. CASE DeadlineBranch
  BY <1>0, <1>3, LoopMoves, Zenon DEF DeadlineBranch, ConnectorInv
<1>4. CASE LaunchBranch
  BY <1>0, <1>4, LoopMoves, Zenon DEF LaunchBranch, ConnectorInv
<1>5. CASE DrainEnds
  <2>1. outcome \in {"connected", "timeout"} BY <1>5, Zenon DEF DrainEnds, ConnectorInv
  <2> QED BY <1>5, <2>1, ReturnKeeps, Zenon DEF DrainEnds, Drained, ConnectorInv
<1> QED BY <1>1, <1>2, <1>3, <1>4, <1>5, Zenon

\* An attempt is joined: its unit is kept, goes to the winner or goes back.
LEMMA JoinKeeps ==
    ASSUME ConnectorInv, NEW i \in Address, JoinFailed(i) \/ JoinConnected(i) \/ Drain(i)
    PROVE  ConnectorInv'
<1>1. i \in Tasks BY Zenon DEF JoinFailed, JoinConnected, Drain, Tasks, Unjoined
<1>2. attempt' = [attempt EXCEPT ![i] = "gone"] BY Zenon DEF JoinFailed, JoinConnected, Drain
<1>3. Tasks' = Tasks \ {i} BY <1>2, Zenon DEF ConnectorInv, ConnectorTypeOK, Tasks, Unjoined
<1>4. IsFiniteSet(Tasks) /\ Cardinality(Tasks) \in Nat /\ (Cardinality(Tasks) = 0 <=> Tasks = {})
  BY TasksAreFinite, Zenon DEF ConnectorInv
<1>5. Cardinality(Tasks') = Cardinality(Tasks) - 1 BY <1>1, <1>3, <1>4, FS_RemoveElement, Zenon
<1>6. attempt' \in [Address -> Unjoined \cup {"none", "gone"}]
  BY <1>2, Zenon DEF ConnectorInv, ConnectorTypeOK
<1>7. \A j \in Address : j > next => attempt'[j] = "none"
  BY <1>1, <1>2, Zenon DEF ConnectorInv, ConnectorTypeOK, Tasks, Unjoined
<1>8. next' = next BY Zenon DEF JoinFailed, JoinConnected, Drain
<1>9. CASE JoinFailed(i)
  <2>1. recycled' \in 0 .. 2 /\ Cardinality(Tasks') + recycled' <= 2 /\ spare' + Held' <= Budget
    BY <1>4, <1>5, <1>9, <1>1, SMTT(20) DEF JoinFailed, ConnectorInv, ConnectorTypeOK, Held
  <2>2. ConnectorTypeOK'
    BY <1>6, <1>9, <2>1, Zenon DEF JoinFailed, ConnectorInv, ConnectorTypeOK, LaunchAfterFailure
  <2> QED BY <1>7, <1>8, <1>9, <2>1, <2>2, Zenon
          DEF JoinFailed, ConnectorInv, PlanIsExhausted, LaunchAfterFailure
<1>10. CASE JoinConnected(i)
  <2>0. won = FALSE BY <1>10, Zenon DEF JoinConnected, ConnectorInv, ConnectorTypeOK
  <2>1. Cardinality(Tasks') + recycled' <= 2 /\ spare' + Held' <= Budget
    BY <1>4, <1>5, <1>10, <2>0 DEF JoinConnected, ConnectorInv, ConnectorTypeOK, Held
  <2>2. ConnectorTypeOK' BY <1>6, <1>10, Zenon DEF JoinConnected, ConnectorInv, ConnectorTypeOK
  <2> QED BY <1>7, <1>8, <1>10, <2>1, <2>2, Zenon DEF JoinConnected, ConnectorInv, PlanIsExhausted
<1>11. CASE Drain(i)
  <2>1. /\ Cardinality(Tasks') + recycled' <= 2 /\ spare' + Held' <= Budget
        /\ spare' \in 0 .. Budget
    BY <1>1, <1>4, <1>5, <1>11, ConnectorAssumption
       DEF Drain, ConnectorInv, ConnectorTypeOK, Held
  <2>2. ConnectorTypeOK' BY <1>6, <1>11, <2>1, Zenon DEF Drain, ConnectorInv, ConnectorTypeOK
  <2> QED BY <1>7, <1>8, <1>11, <2>1, <2>2, Zenon DEF Drain, ConnectorInv, PlanIsExhausted
<1> QED BY <1>9, <1>10, <1>11, Zenon

\* The rest of the world: an attempt ends, time passes, others take and return.
LEMMA OutsideKeeps ==
    ASSUME ConnectorInv,
           \/ DelayPasses \/ DeadlinePasses \/ Others \/ UNCHANGED connectorVars
           \/ \E i \in Address : AttemptEnds(i)
    PROVE  ConnectorInv'
<1>0. IsFiniteSet(Tasks) /\ Cardinality(Tasks) \in Nat BY TasksAreFinite, Zenon DEF ConnectorInv
<1>1. ASSUME NEW i \in Address, AttemptEnds(i) PROVE ConnectorInv'
  <2>1. Tasks' = Tasks
    BY <1>1, Zenon DEF AttemptEnds, ConnectorInv, ConnectorTypeOK, Tasks, Unjoined
  <2>2. attempt' \in [Address -> Unjoined \cup {"none", "gone"}]
    BY <1>1, Zenon DEF AttemptEnds, ConnectorInv, ConnectorTypeOK, Unjoined
  <2>3. \A j \in Address : j > next => attempt'[j] = "none"
    BY <1>1, Zenon DEF AttemptEnds, ConnectorInv, ConnectorTypeOK
  <2>4. ConnectorTypeOK' BY <1>1, <2>2, ZenonT(60) DEF AttemptEnds, ConnectorInv, ConnectorTypeOK
  <2> QED BY <1>1, <2>1, <2>3, <2>4, Zenon DEF AttemptEnds, ConnectorInv, PlanIsExhausted, Held
<1>2. CASE DelayPasses \/ DeadlinePasses \/ UNCHANGED connectorVars
  <2>1. Tasks' = Tasks BY <1>2, Zenon DEF DelayPasses, DeadlinePasses, connectorVars, Tasks
  <2>2. ConnectorTypeOK'
    BY <1>2, ZenonT(60) DEF DelayPasses, DeadlinePasses, connectorVars, ConnectorInv, ConnectorTypeOK
  <2> QED BY <1>2, <2>1, <2>2
          DEF DelayPasses, DeadlinePasses, connectorVars, ConnectorInv, PlanIsExhausted, Held
<1>3. CASE Others
  <2>1. Tasks' = Tasks /\ Held' = Held BY <1>3, Zenon DEF Others, Tasks, Held
  <2>2. Held \in Nat BY <1>0 DEF Held, ConnectorInv, ConnectorTypeOK
  <2>3. spare' \in 0 .. Budget /\ spare' + Held' <= Budget
    <3>1. spare' \in 0 .. Budget - Held BY <1>3, Zenon DEF Others
    <3> QED BY <2>1, <2>2, <3>1, RoomLeft, ConnectorAssumption, Zenon
  <2>4. ConnectorTypeOK' BY <1>3, <2>3, ZenonT(60) DEF Others, ConnectorInv, ConnectorTypeOK
  <2> QED BY <1>3, <2>1, <2>3, <2>4, Zenon DEF Others, ConnectorInv, PlanIsExhausted
<1> QED BY <1>1, <1>2, <1>3, Zenon

\* ConnectorInv is an invariant of a connect.
LEMMA ConnectorInvHolds == ConnectorSpec => []ConnectorInv
<1>1. ConnectorInv /\ [ConnectorNext]_connectorVars => ConnectorInv'
  BY LaunchKeeps, DriverKeeps, JoinKeeps, OutsideKeeps, Zenon DEF ConnectorNext, Driver
<1> QED BY <1>1, ConnectorInitInv, PTL DEF ConnectorSpec

\* Once a connect returns, no attempt is left running and no descriptor unit is
\* held but the winner's.
THEOREM NothingButTheWinner == ConnectorSpec => []OnlyTheWinnerRemains
<1>1. ConnectorInv => OnlyTheWinnerRemains
  BY FS_EmptySet DEF ConnectorInv, ConnectorTypeOK, OnlyTheWinnerRemains, Held
<1> QED BY <1>1, ConnectorInvHolds, PTL

\* A connect reports an I/O error only after every address was tried and failed.
THEOREM IoErrorMeansAllTried == ConnectorSpec => []PlanIsExhausted
<1>1. ConnectorInv => PlanIsExhausted BY Zenon DEF ConnectorInv
<1> QED BY <1>1, ConnectorInvHolds, PTL

-----------------------------------------------------------------------------
(* The XUDP lease table *)

\* An association that is not closed knows what it claims, and the instant it
\* read is not in the future.
ClaimsAreKnown ==
    \A a \in Association : assoc[a] # "closed" =>
        /\ claim[a] \in [user : User, id : GlobalId, now : Instants]
        /\ claim[a].now <= wall

\* An identifier nobody holds runs its grace from the last release.
GraceIsRunning ==
    \A id \in GlobalId : globals[id] # NoEntry /\ globals[id].leases = 0 =>
        globals[id].expire = idleSince[id] + Grace

LeaseInv == LeaseTypeOK /\ ClaimsAreKnown /\ LeasesMatchHolders /\ GraceIsRunning

-----------------------------------------------------------------------------
\* What a count says of the holders.
LEMMA HoldersAreFinite ==
    ASSUME NEW id
    PROVE  /\ IsFiniteSet(LeaseHolders(id))
           /\ Cardinality(LeaseHolders(id)) \in Nat
           /\ Cardinality(LeaseHolders(id)) = 0 <=> LeaseHolders(id) = {}
<1>1. LeaseHolders(id) \in SUBSET Association BY Zenon DEF LeaseHolders
<1>2. IsFiniteSet(LeaseHolders(id)) BY <1>1, FS_Subset, LeaseAssumption, Zenon
<1> QED BY <1>2, FS_EmptySet, FS_CardinalityType, Zenon

\* A holder's identifier is in the table, with a positive count.
LEMMA HolderIsCounted ==
    ASSUME LeaseInv, NEW a \in Association, assoc[a] \in {"held", "closing"}
    PROVE  LET id == claim[a].id IN
           /\ id \in GlobalId /\ a \in LeaseHolders(id)
           /\ globals[id] \in Entry /\ globals[id] # NoEntry
           /\ globals[id].leases >= 1
           /\ globals[id].owner = claim[a].user
<1> DEFINE id == claim[a].id
<1>1. id \in GlobalId BY Zenon DEF LeaseInv, ClaimsAreKnown
<1>2. a \in LeaseHolders(id) BY Zenon DEF LeaseHolders
<1>3. globals[id] # NoEntry /\ globals[id].leases = Cardinality(LeaseHolders(id))
                            /\ globals[id].owner = claim[a].user
  BY <1>1, <1>2, Zenon DEF LeaseInv, LeasesMatchHolders
<1>4. globals[id] \in Entry BY <1>1, <1>3, Zenon DEF LeaseInv, LeaseTypeOK
<1>5. globals[id].leases # 0 BY <1>2, <1>3, HoldersAreFinite, Zenon
<1> QED BY <1>1, <1>2, <1>3, <1>4, <1>5 DEF Entry

\* What acquire leaves of the table before it looks at its own identifier.
LEMMA PurgeKeepsTheHeld ==
    ASSUME LeaseInv, NEW instant \in Instants, instant <= wall, NEW id \in GlobalId
    PROVE  /\ Purged(instant)[id] \in Entry \cup {NoEntry}
           /\ Purged(instant)[id] # globals[id] =>
                 /\ globals[id] # NoEntry /\ Purged(instant)[id] = NoEntry
                 /\ LeaseHolders(id) = {} /\ wall >= idleSince[id] + Grace
<1>1. Purged(instant)[id] = IF globals[id] # NoEntry /\ globals[id].leases = 0
                              /\ instant >= globals[id].expire
                        THEN NoEntry ELSE globals[id]
  BY Zenon DEF Purged
<1>2. globals[id] \in Entry \cup {NoEntry} BY Zenon DEF LeaseInv, LeaseTypeOK
<1>3. ASSUME globals[id] # NoEntry, globals[id].leases = 0, instant >= globals[id].expire
      PROVE  LeaseHolders(id) = {} /\ wall >= idleSince[id] + Grace
  <2>1. globals[id].leases = Cardinality(LeaseHolders(id))
    BY <1>3, Zenon DEF LeaseInv, LeasesMatchHolders
  <2>2. LeaseHolders(id) = {} BY <1>3, <2>1, HoldersAreFinite, Zenon
  <2>3. globals[id].expire = idleSince[id] + Grace BY <1>3, Zenon DEF LeaseInv, GraceIsRunning
  <2>4. wall \in Int /\ instant \in Int /\ idleSince[id] + Grace \in Int
    BY LeaseAssumption DEF LeaseInv, LeaseTypeOK, Instants
  <2> QED BY <1>3, <2>2, <2>3, <2>4
<1> QED BY <1>1, <1>2, <1>3, Zenon

-----------------------------------------------------------------------------
\* The table is empty and nobody holds anything.
LEMMA LeaseInitInv == LeaseInit => LeaseInv
<1> SUFFICES ASSUME LeaseInit PROVE LeaseInv BY Zenon
<1>1. LeaseTypeOK BY LeaseAssumption DEF LeaseInit, LeaseTypeOK, Instants
<1>2. ClaimsAreKnown /\ GraceIsRunning BY Zenon DEF LeaseInit, ClaimsAreKnown, GraceIsRunning
<1>3. LeasesMatchHolders BY Zenon DEF LeaseInit, LeasesMatchHolders, LeaseHolders
<1> QED BY <1>1, <1>2, <1>3, Zenon DEF LeaseInv

\* A step that leaves the table, the holders and their users alone.
LEMMA SameHolders ==
    ASSUME LeaseInv, UNCHANGED <<globals, idleSince>>,
           \A id \in GlobalId : LeaseHolders(id)' = LeaseHolders(id),
           \A id \in GlobalId : \A a \in LeaseHolders(id) : claim'[a].user = claim[a].user
    PROVE  LeasesMatchHolders' /\ GraceIsRunning'
<1>1. GraceIsRunning' BY Zenon DEF LeaseInv, GraceIsRunning
<1>2. LeasesMatchHolders' BY Zenon DEF LeaseInv, LeasesMatchHolders
<1> QED BY <1>1, <1>2, Zenon

\* A new association claims an identifier and holds nothing yet.
LEMMA OpenKeepsInv ==
    ASSUME LeaseInv, NEW a \in Association, NEW u \in User, NEW i \in GlobalId, OpenAs(a, u, i)
    PROVE  LeaseInv'
<1>1. LeaseTypeOK' BY Zenon DEF LeaseInv, LeaseTypeOK, OpenAs, Instants
<1>2. ClaimsAreKnown' BY DEF LeaseInv, LeaseTypeOK, OpenAs, ClaimsAreKnown, Instants
<1>3. \A id \in GlobalId : LeaseHolders(id)' = LeaseHolders(id)
  BY Zenon DEF LeaseInv, LeaseTypeOK, OpenAs, LeaseHolders
<1>4. \A id \in GlobalId : \A b \in LeaseHolders(id) : claim'[b].user = claim[b].user
  BY Zenon DEF LeaseInv, LeaseTypeOK, OpenAs, LeaseHolders
<1>5. LeasesMatchHolders' /\ GraceIsRunning' BY <1>3, <1>4, SameHolders, Zenon DEF OpenAs
<1> QED BY <1>1, <1>2, <1>5, Zenon DEF LeaseInv

\* Closing begins by reading the clock.
LEMMA BeginCloseKeepsInv ==
    ASSUME LeaseInv, NEW a \in Association, BeginClose(a)
    PROVE  LeaseInv'
<1>0. claim[a] \in [user : User, id : GlobalId, now : Instants]
  BY Zenon DEF LeaseInv, ClaimsAreKnown, BeginClose
<1>1. LeaseTypeOK' BY <1>0, Zenon DEF LeaseInv, LeaseTypeOK, BeginClose, Instants
<1>2. ClaimsAreKnown' BY <1>0 DEF LeaseInv, LeaseTypeOK, BeginClose, ClaimsAreKnown, Instants
<1>3. \A b \in Association : claim'[b].user = claim[b].user /\ claim'[b].id = claim[b].id
  BY <1>0, Zenon DEF LeaseInv, LeaseTypeOK, BeginClose
<1>4. \A id \in GlobalId : LeaseHolders(id)' = LeaseHolders(id)
  BY <1>3, ZenonT(60) DEF LeaseInv, LeaseTypeOK, BeginClose, LeaseHolders
<1>5. \A id \in GlobalId : \A b \in LeaseHolders(id) : claim'[b].user = claim[b].user
  BY <1>3, Zenon DEF LeaseHolders
<1>6. LeasesMatchHolders' /\ GraceIsRunning' BY <1>4, <1>5, SameHolders, Zenon DEF BeginClose
<1> QED BY <1>1, <1>2, <1>6, Zenon DEF LeaseInv

\* Time passes.
LEMMA WallTickKeepsInv ==
    ASSUME LeaseInv, WallTick
    PROVE  LeaseInv'
<1>1. LeaseTypeOK' BY LeaseAssumption DEF LeaseInv, LeaseTypeOK, WallTick, Instants
<1>2. ClaimsAreKnown' BY DEF LeaseInv, LeaseTypeOK, WallTick, ClaimsAreKnown, Instants
<1>3. \A id \in GlobalId : LeaseHolders(id)' = LeaseHolders(id) BY Zenon DEF WallTick, LeaseHolders
<1>4. LeasesMatchHolders' /\ GraceIsRunning' BY <1>3, SameHolders, Zenon DEF WallTick
<1> QED BY <1>1, <1>2, <1>4, Zenon DEF LeaseInv

\* release_lease: one holder fewer of one identifier; the count was positive.
LEMMA ReleaseKeepsInv ==
    ASSUME LeaseInv, NEW a \in Association, ReleaseLease(a)
    PROVE  LeaseInv'
<1>id. PICK id \in GlobalId : id = claim[a].id BY HolderIsCounted, Zenon DEF ReleaseLease
<1> DEFINE e == globals[id]
           f == [e EXCEPT !.leases = @ - 1, !.expire = GraceFrom(e, claim[a].now)]
<1>0. assoc[a] = "closing" BY Zenon DEF ReleaseLease
<1>1. /\ id \in GlobalId /\ a \in LeaseHolders(id) /\ e \in Entry /\ e # NoEntry /\ e.leases >= 1
  BY <1>0, <1>id, HolderIsCounted, Zenon
<1>2. claim[a].now \in Instants BY <1>0, Zenon DEF LeaseInv, ClaimsAreKnown
<1>3. /\ f \in Entry /\ f.leases = e.leases - 1 /\ f.owner = e.owner
      /\ f.leases = 0 => f.expire = claim[a].now + Grace
  <2>1. GraceFrom(e, claim[a].now) \in 0 .. MaxClock + Grace
    BY <1>1, <1>2, LeaseAssumption DEF GraceFrom, Entry, Instants
  <2>2. f \in Entry
    <3>1. e.leases - 1 \in Nat BY <1>1 DEF Entry
    <3> QED BY <1>1, <2>1, <3>1, Zenon DEF Entry
  <2>3. f.leases = e.leases - 1 /\ f.owner = e.owner /\ f.expire = GraceFrom(e, claim[a].now)
    BY <1>1, Zenon DEF Entry
  <2> QED BY <1>1, <2>2, <2>3 DEF GraceFrom, Entry
<1>4. globals' = [globals EXCEPT ![id] = f] BY <1>1, <1>id, Zenon DEF ReleaseLease
<1>5. idleSince' = [idleSince EXCEPT ![id] = claim[a].now] BY <1>id, Zenon DEF ReleaseLease
<1>6. LeaseTypeOK'
  <2>1. globals' \in [GlobalId -> Entry \cup {NoEntry}]
    BY <1>3, <1>4, Zenon DEF LeaseInv, LeaseTypeOK
  <2>2. idleSince' \in [GlobalId -> Instants] BY <1>2, <1>5, Zenon DEF LeaseInv, LeaseTypeOK
  <2>3. /\ assoc' \in [Association -> {"closed", "opening", "held", "closing"}]
        /\ claim' \in [Association -> [user : User, id : GlobalId, now : Instants] \cup {NoClaim}]
        /\ wall' \in Instants
    BY Zenon DEF LeaseInv, LeaseTypeOK, ReleaseLease
  <2> QED BY <2>1, <2>2, <2>3, Zenon DEF LeaseTypeOK
<1>7. ClaimsAreKnown' BY Zenon DEF LeaseInv, LeaseTypeOK, ReleaseLease, ClaimsAreKnown
<1>8. \A j \in GlobalId : LeaseHolders(j)' = IF j = id THEN LeaseHolders(j) \ {a} ELSE LeaseHolders(j)
  BY <1>0, <1>id, Zenon DEF LeaseInv, LeaseTypeOK, ReleaseLease, LeaseHolders
<1>9. \A j \in GlobalId : \A b \in LeaseHolders(j)' : claim'[b].user = claim[b].user
  BY <1>8, Zenon DEF LeaseInv, LeaseTypeOK, ReleaseLease, LeaseHolders
<1>10. Cardinality(LeaseHolders(id)) = e.leases BY <1>1, Zenon DEF LeaseInv, LeasesMatchHolders
<1>11. Cardinality(LeaseHolders(id)') = e.leases - 1
  BY <1>1, <1>8, <1>10, HoldersAreFinite, FS_RemoveElement, SMTT(20)
<1>12. LeasesMatchHolders'
  <2> SUFFICES ASSUME NEW j \in GlobalId
               PROVE  IF globals'[j] = NoEntry THEN LeaseHolders(j)' = {}
                      ELSE /\ globals'[j].leases = Cardinality(LeaseHolders(j)')
                           /\ \A b \in LeaseHolders(j)' : claim'[b].user = globals'[j].owner
    BY Zenon DEF LeasesMatchHolders
  <2>1. CASE j = id
    <3>1. globals'[j] = f BY <1>4, <2>1, Zenon DEF LeaseInv, LeaseTypeOK
    <3>2. f # NoEntry BY <1>3, Zenon DEF Entry, NoEntry
    <3>3. \A b \in LeaseHolders(j)' : claim[b].user = e.owner
      BY <1>1, <1>8, <2>1, Zenon DEF LeaseInv, LeasesMatchHolders
    <3> QED BY <1>3, <1>9, <1>11, <2>1, <3>1, <3>2, <3>3, ZenonT(60)
  <2>2. CASE j # id
    <3>1. globals'[j] = globals[j] BY <1>4, <2>2, Zenon DEF LeaseInv, LeaseTypeOK
    <3>2. LeaseHolders(j)' = LeaseHolders(j) BY <1>8, <2>2, Zenon
    <3> QED BY <1>9, <3>1, <3>2 DEF LeaseInv, LeasesMatchHolders
  <2> QED BY <2>1, <2>2, Zenon
<1>13. GraceIsRunning'
  BY <1>1, <1>2, <1>3, <1>4, <1>5, Zenon DEF LeaseInv, LeaseTypeOK, GraceIsRunning
<1> QED BY <1>6, <1>7, <1>12, <1>13, Zenon DEF LeaseInv

\* acquire: expired identifiers go, and at most one identifier gains a holder,
\* who owns it.
LEMMA AcquireKeepsInv ==
    ASSUME LeaseInv, NEW a \in Association, Acquire(a)
    PROVE  LeaseInv'
<1>0. /\ assoc[a] = "opening" /\ claim[a] \in [user : User, id : GlobalId, now : Instants]
      /\ claim[a].now <= wall
  BY Zenon DEF Acquire, LeaseInv, ClaimsAreKnown
<1>id. PICK id \in GlobalId : id = claim[a].id BY <1>0, Zenon
<1>now. PICK instant \in Instants : instant = claim[a].now BY <1>0, Zenon
<1>live. PICK live : live = Purged(instant) BY Zenon
<1>1. live \in [GlobalId -> Entry \cup {NoEntry}]
  BY <1>0, <1>now, <1>live, PurgeKeepsTheHeld, ZenonT(30) DEF Purged
<1>2. \A j \in GlobalId : live[j] # globals[j] => live[j] = NoEntry /\ LeaseHolders(j) = {}
  BY <1>0, <1>now, <1>live, PurgeKeepsTheHeld, Zenon
<1>3. \A j \in GlobalId : a \notin LeaseHolders(j) BY <1>0, Zenon DEF LeaseHolders
<1>4. \A j \in GlobalId :
        /\ live[j] = NoEntry => LeaseHolders(j) = {}
        /\ live[j] # NoEntry => /\ live[j].leases = Cardinality(LeaseHolders(j))
                                /\ \A b \in LeaseHolders(j) : claim[b].user = live[j].owner
                                /\ live[j].leases = 0 => live[j].expire = idleSince[j] + Grace
  BY <1>2, ZenonT(60) DEF LeaseInv, LeasesMatchHolders, GraceIsRunning
<1>5. ASSUME globals' = live, assoc' = [assoc EXCEPT ![a] = "closed"],
             claim' = [claim EXCEPT ![a] = NoClaim], UNCHANGED <<wall, idleSince>>
      PROVE  LeaseInv'
  <2>1. LeaseTypeOK' BY <1>1, <1>5, Zenon DEF LeaseInv, LeaseTypeOK
  <2>2. ClaimsAreKnown' BY <1>5, Zenon DEF LeaseInv, LeaseTypeOK, ClaimsAreKnown
  <2>3. \A j \in GlobalId : LeaseHolders(j)' = LeaseHolders(j)
    BY <1>0, <1>5, Zenon DEF LeaseInv, LeaseTypeOK, LeaseHolders
  <2>4. \A j \in GlobalId : \A b \in LeaseHolders(j) : claim'[b].user = claim[b].user
    BY <1>3, <1>5, Zenon DEF LeaseInv, LeaseTypeOK, LeaseHolders
  <2>5. LeasesMatchHolders' BY <1>4, <1>5, <2>3, <2>4, ZenonT(60) DEF LeasesMatchHolders
  <2>6. GraceIsRunning' BY <1>4, <1>5, Zenon DEF GraceIsRunning
  <2> QED BY <2>1, <2>2, <2>5, <2>6, Zenon DEF LeaseInv
<1>6. ASSUME NEW f \in Entry, globals' = [live EXCEPT ![id] = f],
             f.leases = Cardinality(LeaseHolders(id)) + 1, f.owner = claim[a].user,
             \A b \in LeaseHolders(id) : claim[b].user = f.owner,
             assoc' = [assoc EXCEPT ![a] = "held"], claim' = claim, UNCHANGED <<wall, idleSince>>
      PROVE  LeaseInv'
  <2>1. LeaseTypeOK' BY <1>1, <1>6, Zenon DEF LeaseInv, LeaseTypeOK
  <2>2. ClaimsAreKnown' BY <1>0, <1>6, Zenon DEF LeaseInv, LeaseTypeOK, ClaimsAreKnown
  <2>3. \A j \in GlobalId : LeaseHolders(j)' = IF j = id THEN LeaseHolders(j) \cup {a}
                                               ELSE LeaseHolders(j)
    BY <1>0, <1>id, <1>6, ZenonT(60) DEF LeaseInv, LeaseTypeOK, LeaseHolders
  <2>4. Cardinality(LeaseHolders(id)') = f.leases
    BY <1>3, <1>6, <2>3, HoldersAreFinite, FS_AddElement
  <2>5. f # NoEntry /\ f.leases # 0
    <3>1. Cardinality(LeaseHolders(id)) \in Nat BY HoldersAreFinite, Zenon
    <3>2. f.leases \in Nat /\ f.leases = Cardinality(LeaseHolders(id)) + 1 BY <1>6, Zenon DEF Entry
    <3>3. f.leases # 0 /\ f.leases # -1 BY <3>1, <3>2
    <3>4. NoEntry.leases = -1 BY Zenon DEF NoEntry
    <3> QED BY <3>3, <3>4, Zenon
  <2>6. LeasesMatchHolders'
    <3> SUFFICES ASSUME NEW j \in GlobalId
                 PROVE  IF globals'[j] = NoEntry THEN LeaseHolders(j)' = {}
                        ELSE /\ globals'[j].leases = Cardinality(LeaseHolders(j)')
                             /\ \A b \in LeaseHolders(j)' : claim'[b].user = globals'[j].owner
      BY Zenon DEF LeasesMatchHolders
    <3>1. CASE j = id BY <1>1, <1>6, <2>3, <2>4, <2>5, <3>1, Zenon
    <3>2. CASE j # id
      <4>1. globals'[j] = live[j] /\ LeaseHolders(j)' = LeaseHolders(j)
        BY <1>1, <1>6, <2>3, <3>2, Zenon
      <4> QED BY <1>4, <1>6, <4>1, ZenonT(60)
    <3> QED BY <3>1, <3>2, Zenon
  <2>7. GraceIsRunning' BY <1>1, <1>4, <1>6, <2>5, Zenon DEF GraceIsRunning
  <2> QED BY <2>1, <2>2, <2>6, <2>7, Zenon DEF LeaseInv
<1> DEFINE present == live[id] # NoEntry
           denied == \/ present /\ live[id].owner # claim[a].user
                     \/ ~present /\ Cardinality({i \in GlobalId : live[i] # NoEntry}) >= MaxAssociations
<1>7. CASE denied
  <2>1. /\ globals' = live /\ assoc' = [assoc EXCEPT ![a] = "closed"]
        /\ claim' = [claim EXCEPT ![a] = NoClaim] /\ UNCHANGED <<wall, idleSince>>
    BY <1>7, <1>id, <1>now, <1>live, Zenon DEF Acquire
  <2> QED BY <1>5, <2>1, Zenon
<1>8. CASE ~denied /\ present
  <2> DEFINE f == [live[id] EXCEPT !.leases = @ + 1]
  <2>1. /\ globals' = [live EXCEPT ![id] = f] /\ assoc' = [assoc EXCEPT ![a] = "held"]
        /\ claim' = [claim EXCEPT ![a] = claim[a]] /\ UNCHANGED <<wall, idleSince>>
    BY <1>8, <1>id, <1>now, <1>live, Zenon DEF Acquire
  <2>2. live[id] \in Entry BY <1>1, <1>8, Zenon
  <2>3. live[id].leases + 1 \in Nat BY <2>2 DEF Entry
  <2>4. f \in Entry /\ f.leases = live[id].leases + 1 /\ f.owner = live[id].owner
    BY <2>2, <2>3, Zenon DEF Entry
  <2>5. claim' = claim BY <2>1, Zenon DEF LeaseInv, LeaseTypeOK
  <2> QED BY <1>4, <1>6, <1>8, <2>1, <2>4, <2>5, Zenon
<1>9. CASE ~denied /\ ~present
  <2> DEFINE f == [expire |-> instant + Grace, leases |-> 1, owner |-> claim[a].user]
  <2>1. /\ globals' = [live EXCEPT ![id] = f] /\ assoc' = [assoc EXCEPT ![a] = "held"]
        /\ claim' = [claim EXCEPT ![a] = claim[a]] /\ UNCHANGED <<wall, idleSince>>
    BY <1>9, <1>id, <1>now, <1>live, Zenon DEF Acquire
  <2>2. f \in Entry BY <1>0, LeaseAssumption DEF Entry, Instants
  <2>3. LeaseHolders(id) = {} /\ Cardinality(LeaseHolders(id)) = 0
    BY <1>4, <1>9, HoldersAreFinite, Zenon
  <2>4. claim' = claim BY <2>1, Zenon DEF LeaseInv, LeaseTypeOK
  <2>5. f.leases = Cardinality(LeaseHolders(id)) + 1 /\ f.owner = claim[a].user BY <2>3
  <2>6. \A b \in LeaseHolders(id) : claim[b].user = f.owner BY <2>3, Zenon
  <2> HIDE DEF f
  <2> QED BY <1>6, <2>1, <2>2, <2>4, <2>5, <2>6, Zenon
<1> QED BY <1>7, <1>8, <1>9, Zenon

\* Every step, and stuttering, keeps the invariant.
LEMMA LeaseStepInv == LeaseInv /\ [LeaseNext]_leaseVars => LeaseInv'
<1> SUFFICES ASSUME LeaseInv, [LeaseNext]_leaseVars PROVE LeaseInv' BY Zenon
<1>1. ASSUME NEW a \in Association, NEW u \in User, NEW id \in GlobalId, OpenAs(a, u, id)
      PROVE  LeaseInv'
  BY <1>1, OpenKeepsInv, Zenon
<1>2. ASSUME NEW a \in Association, Acquire(a) \/ BeginClose(a) \/ ReleaseLease(a)
      PROVE  LeaseInv'
  BY <1>2, AcquireKeepsInv, BeginCloseKeepsInv, ReleaseKeepsInv, Zenon
<1>3. CASE WallTick BY <1>3, WallTickKeepsInv, Zenon
<1>4. CASE UNCHANGED leaseVars
  <2>1. LeaseTypeOK' /\ ClaimsAreKnown'
    BY <1>4, Zenon DEF leaseVars, LeaseInv, LeaseTypeOK, ClaimsAreKnown
  <2>2. \A id \in GlobalId : LeaseHolders(id)' = LeaseHolders(id)
    BY <1>4, Zenon DEF leaseVars, LeaseHolders
  <2>3. LeasesMatchHolders' /\ GraceIsRunning' BY <1>4, <2>2, SameHolders, Zenon DEF leaseVars
  <2> QED BY <2>1, <2>3, Zenon DEF LeaseInv
<1> QED BY <1>1, <1>2, <1>3, <1>4, Zenon DEF LeaseNext

\* However associations open, fail and close, an identifier's lease count is
\* the number of its holders, all of whom belong to its owner: release_lease's
\* unchecked decrement never wraps.
THEOREM LeasesAreCounted == LeaseSpec => []LeasesMatchHolders
<1>1. LeaseInv => LeasesMatchHolders BY Zenon DEF LeaseInv
<1> QED BY <1>1, LeaseInitInv, LeaseStepInv, PTL DEF LeaseSpec

\* A step takes an identifier from its owner only by acquire's purge, after the
\* whole grace period that began at the last release.
THEOREM GraceIsHonoured == LeaseSpec => OwnerKeepsGrace
<1> DEFINE Lost(id) == globals[id] # NoEntry
                       /\ (globals'[id] = NoEntry \/ globals'[id].owner # globals[id].owner)
           Kept == \A id \in GlobalId : Lost(id) => LeaseHolders(id) = {} /\ wall >= idleSince[id] + Grace
<1>1. LeaseInv /\ [LeaseNext]_leaseVars => [Kept]_leaseVars
  <2> SUFFICES ASSUME LeaseInv, LeaseNext, NEW id \in GlobalId, Lost(id)
               PROVE  LeaseHolders(id) = {} /\ wall >= idleSince[id] + Grace
    BY Zenon
  <2>1. globals[id] \in Entry BY Zenon DEF LeaseInv, LeaseTypeOK
  <2>2. PICK a \in Association : Acquire(a) \/ ReleaseLease(a)
    BY <2>1, Zenon DEF LeaseNext, OpenAs, BeginClose, WallTick, NoEntry, Entry
  <2>3. CASE Acquire(a)
    <3>1. claim[a].id \in GlobalId /\ claim[a].now \in Instants /\ claim[a].now <= wall
      BY <2>3, Zenon DEF Acquire, LeaseInv, ClaimsAreKnown
    <3>2. PICK live : live = Purged(claim[a].now) BY Zenon
    <3>3. /\ live[id] \in Entry \cup {NoEntry}
          /\ live[id] # globals[id] => LeaseHolders(id) = {} /\ wall >= idleSince[id] + Grace
      BY <3>1, <3>2, PurgeKeepsTheHeld, Zenon
    <3>4. live \in [GlobalId -> Entry \cup {NoEntry}]
      BY <3>1, <3>2, PurgeKeepsTheHeld, Zenon DEF Purged
    <3>5. live[id] # globals[id]
      <4> SUFFICES ASSUME live[id] = globals[id] PROVE FALSE BY Zenon
      <4>1. globals'[id] = live[id] \/ globals'[id] = [live[id] EXCEPT !.leases = @ + 1]
        BY <2>3, <3>2, <3>4, Zenon DEF Acquire
      <4>2. globals'[id] # NoEntry /\ globals'[id].owner = globals[id].owner
        BY <2>1, <4>1, Zenon DEF Entry, NoEntry
      <4> QED BY <4>2, Zenon
    <3> QED BY <3>3, <3>5, Zenon
  <2>4. CASE ReleaseLease(a)
    <3>1. claim[a].id \in GlobalId BY <2>4, HolderIsCounted, Zenon DEF ReleaseLease
    <3>2. assoc[a] = "closing" BY <2>4, Zenon DEF ReleaseLease
    <3>3. globals[claim[a].id] \in Entry /\ globals[claim[a].id].leases >= 1
      BY <3>2, HolderIsCounted, Zenon
    <3>4. globals'[id] # NoEntry /\ globals'[id].owner = globals[id].owner
      BY <2>1, <2>4, <3>1, <3>3, Zenon DEF ReleaseLease, LeaseInv, LeaseTypeOK, Entry, NoEntry
    <3> QED BY <3>4, Zenon
  <2> QED BY <2>2, <2>3, <2>4, Zenon
<1>2. LeaseSpec => [][Kept]_leaseVars BY <1>1, LeaseInitInv, LeaseStepInv, PTL DEF LeaseSpec
<1> QED BY <1>2, Zenon DEF OwnerKeepsGrace
=============================================================================
