--------------------------- MODULE FakeDnsProofs ---------------------------
(***************************************************************************)
(* What FakeDns guarantees for every pool size, every set of domains and   *)
(* every limit on the forwards in flight.                                  *)
(*                                                                         *)
(* AnswersHold and OldestReplaced are not inductive: they rest on AgeOrder, *)
(* which says where in the ring the k-th allocation is.                    *)
(***************************************************************************)
EXTENDS FakeDns, FiniteSetTheorems, TLAPS

\* The ring read from next on holds the last PoolSize allocations, oldest
\* first; on the first lap the slots from next on are still empty.
AgeOrder ==
    /\ \A s \in Slots : s < next => /\ slots[s] # None
                                    /\ born[s] = allocs - next + s
    /\ \/ /\ allocs = next
          /\ \A s \in Slots : s >= next => slots[s] = None
       \/ \A s \in Slots : s >= next =>
              /\ slots[s] # None
              /\ born[s] = allocs - next + s - PoolSize

\* An answer is either current or so old that the ring has passed its slot.
AnswerAge ==
    \A a \in answers :
        \/ slots[a.slot] = a.domain /\ born[a.slot] = a.born
        \/ allocs > a.born + PoolSize

PoolInv == TypeOK /\ IndexesAgree /\ AgeOrder /\ AnswerAge

\* The ring arithmetic of allocate: one further, or back to the start.
LEMMA NextSlotStep ==
    ASSUME NEW n \in Slots
    PROVE  /\ NextSlot(n) \in Slots
           /\ n + 1 < PoolSize => NextSlot(n) = n + 1
           /\ n + 1 = PoolSize => NextSlot(n) = 0
  BY PoolAssumption DEF Slots, NextSlot

\* An empty pool and an idle server satisfy the invariant.
LEMMA InitPoolInv == Init => PoolInv
  BY PoolAssumption, LimitAssumption
  DEF Init, PoolInv, TypeOK, IndexesAgree, AgeOrder, AnswerAge, Slots, Threads

\* A fresh allocation keeps the invariant on the pool and its history.
LEMMA FreshPreserves ==
    ASSUME TypeOK, IndexesAgree, AgeOrder, AnswerAge,
           NEW d \in Managed, AllocateFresh(d)
    PROVE  /\ slots' \in [Slots -> Managed \cup {None}]
           /\ DOMAIN by_domain' \subseteq Managed
           /\ \A e \in DOMAIN by_domain' : by_domain'[e] \in Slots
           /\ next' \in Slots /\ allocs' \in Nat /\ born' \in [Slots -> Nat]
           /\ d \in DOMAIN by_domain' /\ by_domain'[d] = next
           /\ slots'[next] = d
           /\ IndexesAgree'
           /\ AgeOrder'
           /\ \A a \in answers :
                  \/ slots'[a.slot] = a.domain /\ born'[a.slot] = a.born
                  \/ allocs' > a.born + PoolSize
  <1> USE NoneAssumption
  <1>1. /\ next \in Slots /\ allocs \in Nat
        /\ slots \in [Slots -> Managed \cup {None}]
        /\ born \in [Slots -> Nat]
        /\ DOMAIN by_domain \subseteq Managed
    BY DEF TypeOK
  <1>2. /\ slots' = [slots EXCEPT ![next] = d]
        /\ born' = [born EXCEPT ![next] = allocs]
        /\ next' = NextSlot(next) /\ allocs' = allocs + 1
        /\ d \notin DOMAIN by_domain
    BY DEF AllocateFresh
  <1>3. by_domain' = [e \in (DOMAIN by_domain \ {slots[next]}) \cup {d} |->
                          IF e = d THEN next ELSE by_domain[e]]
    BY DEF AllocateFresh, Remap
  <1>4. /\ slots' \in [Slots -> Managed \cup {None}]
        /\ born' \in [Slots -> Nat] /\ allocs' \in Nat /\ slots'[next] = d
    BY <1>1, <1>2
  <1>5. next' \in Slots
    BY <1>1, <1>2, NextSlotStep
  <1>6. /\ DOMAIN by_domain' \subseteq Managed
        /\ \A e \in DOMAIN by_domain' : by_domain'[e] \in Slots
        /\ d \in DOMAIN by_domain' /\ by_domain'[d] = next
    BY <1>1, <1>3 DEF TypeOK
  <1>7. IndexesAgree'
    <2>1. ASSUME NEW e \in DOMAIN by_domain' PROVE slots'[by_domain'[e]] = e
      <3>1. CASE e = d
        BY <3>1, <1>1, <1>2, <1>3
      <3>2. CASE e # d
        <4>1. /\ e \in DOMAIN by_domain /\ e # slots[next]
              /\ by_domain'[e] = by_domain[e]
          BY <3>2, <1>3
        <4>2. by_domain[e] \in Slots /\ slots[by_domain[e]] = e
          BY <4>1 DEF TypeOK, IndexesAgree
        <4> QED BY <4>1, <4>2, <1>1, <1>2
      <3> QED BY <3>1, <3>2
    <2>2. ASSUME NEW s \in Slots, slots'[s] # None
          PROVE  slots'[s] \in DOMAIN by_domain' /\ by_domain'[slots'[s]] = s
      <3>1. CASE s = next
        BY <3>1, <1>1, <1>2, <1>3
      <3>2. CASE s # next
        <4>1. slots'[s] = slots[s]
          BY <3>2, <1>1, <1>2
        <4>2. slots[s] \in DOMAIN by_domain /\ by_domain[slots[s]] = s
          BY <4>1, <2>2 DEF IndexesAgree
        <4>3. slots[s] # slots[next]
          BY <4>2, <4>1, <2>2, <3>2, <1>1 DEF IndexesAgree
        <4>4. slots[s] # d
          BY <4>2, <1>2
        <4> QED BY <4>1, <4>2, <4>3, <4>4, <1>3
      <3> QED BY <3>1, <3>2
    <2> QED BY <2>1, <2>2 DEF IndexesAgree
  <1>8. AgeOrder'
    <2>1. CASE next + 1 < PoolSize
      <3>1. next' = next + 1
        BY <2>1, <1>1, <1>2, NextSlotStep
      <3>2. ASSUME NEW s \in Slots, s < next + 1
            PROVE  slots'[s] # None /\ born'[s] = (allocs + 1) - (next + 1) + s
        <4>1. CASE s = next
          BY <4>1, <1>1, <1>2 DEF Slots
        <4>2. CASE s < next
          <5>1. slots'[s] = slots[s] /\ born'[s] = born[s]
            BY <4>2, <1>1, <1>2 DEF Slots
          <5>2. slots[s] # None /\ born[s] = allocs - next + s
            BY <4>2 DEF AgeOrder
          <5> QED BY <5>1, <5>2, <1>1 DEF Slots
        <4> QED BY <4>1, <4>2, <3>2, <1>1 DEF Slots
      <3>3. ASSUME NEW s \in Slots, s >= next + 1
            PROVE  s >= next /\ slots'[s] = slots[s] /\ born'[s] = born[s]
        BY <3>3, <1>1, <1>2, PoolAssumption DEF Slots
      <3>4. CASE allocs = next /\ \A s \in Slots : s >= next => slots[s] = None
        BY <3>4, <3>1, <3>2, <3>3, <1>1, <1>2 DEF AgeOrder
      <3>5. CASE \A s \in Slots : s >= next =>
                     /\ slots[s] # None
                     /\ born[s] = allocs - next + s - PoolSize
        <4>1. ASSUME NEW s \in Slots, s >= next + 1
              PROVE  /\ slots'[s] # None
                     /\ born'[s] = (allocs + 1) - (next + 1) + s - PoolSize
          BY <4>1, <3>3, <3>5, <1>1, PoolAssumption DEF Slots
        <4> QED BY <4>1, <3>1, <3>2, <1>2 DEF AgeOrder
      <3> QED BY <3>4, <3>5 DEF AgeOrder
    <2>2. CASE next + 1 = PoolSize
      <3>1. next' = 0
        BY <2>2, <1>1, <1>2, NextSlotStep
      <3>2. ASSUME NEW s \in Slots
            PROVE  /\ slots'[s] # None
                   /\ born'[s] = (allocs + 1) - 0 + s - PoolSize
        <4>1. CASE s = next
          BY <4>1, <2>2, <1>1, <1>2, PoolAssumption DEF Slots
        <4>2. CASE s # next
          <5>1. s < next
            BY <4>2, <2>2, <1>1, PoolAssumption DEF Slots
          <5>2. slots'[s] = slots[s] /\ born'[s] = born[s]
            BY <4>2, <1>1, <1>2
          <5>3. slots[s] # None /\ born[s] = allocs - next + s
            BY <5>1 DEF AgeOrder
          <5> QED BY <5>2, <5>3, <2>2, <1>1, PoolAssumption DEF Slots
        <4> QED BY <4>1, <4>2
      <3>3. \A s \in Slots : ~(s < 0)
        BY DEF Slots
      <3> QED BY <3>1, <3>2, <3>3, <1>2 DEF AgeOrder
    <2> QED BY <2>1, <2>2, <1>1, PoolAssumption DEF Slots
  <1>9. ASSUME NEW a \in answers
        PROVE  \/ slots'[a.slot] = a.domain /\ born'[a.slot] = a.born
               \/ allocs' > a.born + PoolSize
    <2>1. a.slot \in Slots /\ a.born \in Nat /\ a.domain \in Managed
      BY DEF TypeOK
    <2>2. CASE slots[a.slot] = a.domain /\ born[a.slot] = a.born
      <3>1. CASE a.slot # next
        BY <3>1, <2>1, <2>2, <1>1, <1>2
      <3>2. CASE a.slot = next
        <4>1. slots[next] # None
          BY <3>2, <2>1, <2>2
        <4>2. born[next] = allocs - next + next - PoolSize
          BY <4>1, <1>1 DEF AgeOrder, Slots
        <4> QED BY <4>2, <3>2, <2>1, <2>2, <1>1, <1>2, PoolAssumption DEF Slots
      <3> QED BY <3>1, <3>2
    <2>3. CASE allocs > a.born + PoolSize
      BY <2>3, <2>1, <1>1, <1>2, PoolAssumption
    <2> QED BY <2>2, <2>3 DEF AnswerAge
  <1> QED BY <1>4, <1>5, <1>6, <1>7, <1>8, <1>9

\* Every step keeps the invariant: only AnswerFake touches the pool.
LEMMA NextPoolInv == PoolInv /\ [Next]_vars => PoolInv'
  <1> SUFFICES ASSUME PoolInv, [Next]_vars PROVE PoolInv'
    OBVIOUS
  <1> USE DEF PoolInv
  <1>1. ASSUME UNCHANGED <<slots, by_domain, next, allocs, born, answers>>
        PROVE  /\ IndexesAgree' /\ AgeOrder' /\ AnswerAge'
               /\ slots' \in [Slots -> Managed \cup {None}]
               /\ DOMAIN by_domain' \subseteq Managed
               /\ \A d \in DOMAIN by_domain' : by_domain'[d] \in Slots
               /\ next' \in Slots /\ allocs' \in Nat /\ born' \in [Slots -> Nat]
               /\ answers' \subseteq [domain : Managed, slot : Slots, born : Nat]
    BY <1>1 DEF TypeOK, IndexesAgree, AgeOrder, AnswerAge
  <1>2. CASE LoopTest
    BY <1>1, <1>2 DEF LoopTest, poolVars, fwdVars, TypeOK
  <1>3. CASE NoQuery
    BY <1>1, <1>3 DEF NoQuery, Received, poolVars, fwdVars, TypeOK
  <1>4. ASSUME NEW q \in Questions, AnswerFake(q) PROVE PoolInv'
    <2> DEFINE d == q.domain
    <2>1. d \in Managed
      BY <1>4 DEF AnswerFake, decide, normalize, Questions, Domains
    <2>2. /\ server' = "test" /\ UNCHANGED <<stop, stopper, inflight, fwd>>
          /\ answers' = answers \cup {[domain |-> d, slot |-> by_domain'[d],
                                       born |-> born'[by_domain'[d]]]}
      BY <1>4 DEF AnswerFake, Received, normalize, fwdVars
    <2>3. CASE AllocateKnown(d)
      <3>1. d \in DOMAIN by_domain /\ UNCHANGED <<slots, by_domain, next, allocs, born>>
        BY <2>3 DEF AllocateKnown, poolVars
      <3>2. by_domain[d] \in Slots /\ slots[by_domain[d]] = d
        BY <3>1 DEF TypeOK, IndexesAgree
      <3>3. TypeOK'
        BY <2>1, <2>2, <3>1, <3>2 DEF TypeOK
      <3>4. AnswerAge'
        BY <2>2, <3>1, <3>2 DEF AnswerAge
      <3> QED BY <3>1, <3>3, <3>4 DEF IndexesAgree, AgeOrder
    <2>4. CASE AllocateFresh(d)
      <3> HIDE DEF d
      <3>1. /\ slots' \in [Slots -> Managed \cup {None}]
            /\ DOMAIN by_domain' \subseteq Managed
            /\ \A e \in DOMAIN by_domain' : by_domain'[e] \in Slots
            /\ next' \in Slots /\ allocs' \in Nat /\ born' \in [Slots -> Nat]
            /\ by_domain'[d] = next /\ slots'[next] = d
            /\ IndexesAgree' /\ AgeOrder'
            /\ \A a \in answers :
                  \/ slots'[a.slot] = a.domain /\ born'[a.slot] = a.born
                  \/ allocs' > a.born + PoolSize
        BY <2>1, <2>4, FreshPreserves
      <3>2. next \in Slots
        BY DEF TypeOK
      <3>3. TypeOK'
        BY <2>1, <2>2, <3>1, <3>2 DEF TypeOK
      <3>4. AnswerAge'
        BY <2>2, <3>1 DEF AnswerAge
      <3> QED BY <3>1, <3>3, <3>4
    <2> QED BY <1>4, <2>3, <2>4 DEF AnswerFake, allocate, normalize
  <1>5. ASSUME NEW q \in Questions, AnswerLocal(q) PROVE PoolInv'
    BY <1>1, <1>5 DEF AnswerLocal, Received, poolVars, fwdVars, TypeOK
  <1>6. ASSUME NEW q \in Questions, Refuse(q) PROVE PoolInv'
    BY <1>1, <1>6 DEF Refuse, Received, poolVars, fwdVars, TypeOK
  <1>7. ASSUME NEW q \in Questions, NEW t \in Threads, Forward(q, t) PROVE PoolInv'
    BY <1>1, <1>7 DEF Forward, Received, poolVars, TypeOK
  <1>8. ASSUME NEW t \in Threads, ForwardThread(t) PROVE PoolInv'
    BY <1>1, <1>8
    DEF ForwardThread, ForwardDone, ForwardExit, poolVars, serverVars, TypeOK
  <1>9. CASE StopBegin
    BY <1>1, <1>9 DEF StopBegin, poolVars, fwdVars, TypeOK
  <1>10. CASE StopReturn
    BY <1>1, <1>10 DEF StopReturn, poolVars, fwdVars, TypeOK
  <1>11. CASE UNCHANGED vars
    BY <1>1, <1>11 DEF vars, poolVars, serverVars, fwdVars, TypeOK
  <1> QED
    BY <1>2, <1>3, <1>4, <1>5, <1>6, <1>7, <1>8, <1>9, <1>10, <1>11
    DEF Next, Serve, Terminated

\* The strengthened invariant of the pool holds in every reachable state.
THEOREM PoolInvariance == Spec => []PoolInv
  BY InitPoolInv, NextPoolInv, PTL DEF Spec

\* The variables of the DNS server keep their types.
THEOREM TypeCorrect == Spec => []TypeOK
  BY PoolInvariance, PTL DEF PoolInv

\* slots and by_domain stay inverses of each other through every allocation
\* and eviction (FakeIpPool::allocate).
THEOREM PoolIndexesAgree == Spec => []IndexesAgree
  BY PoolInvariance, PTL DEF PoolInv

\* An answered fake address keeps its meaning for the PoolSize allocations
\* after the one that gave it to its domain (FakeIpPool::allocate, domain_for),
\* whatever the pool's size and however often it is answered again.
THEOREM AnswersStayValid == Spec => []AnswersHold
  <1>1. PoolInv => AnswersHold
    BY PoolAssumption DEF PoolInv, AnswerAge, AnswersHold, domain_for, TypeOK
  <1> QED BY <1>1, PoolInvariance, PTL

\* allocate replaces a mapping only in a full pool, and then the oldest.
THEOREM ReplacesOldest == Spec => OldestReplaced
  <1> DEFINE Replace == \A s \in Slots : slots[s] # None /\ slots'[s] # slots[s] =>
                            \A r \in Slots : slots[r] # None /\ born[s] <= born[r]
  <1>1. ASSUME PoolInv, NEW d \in Managed, AllocateFresh(d) PROVE Replace
    <2>1. ASSUME NEW s \in Slots, slots[s] # None, slots'[s] # slots[s]
          PROVE  s = next
      BY <1>1, <2>1 DEF AllocateFresh, PoolInv, TypeOK
    <2>2. ASSUME slots[next] # None, NEW r \in Slots
          PROVE  slots[r] # None /\ born[next] <= born[r]
      BY <1>1, <2>2, PoolAssumption DEF PoolInv, TypeOK, AgeOrder, Slots
    <2> QED BY <2>1, <2>2
  <1>2. ASSUME slots' = slots PROVE Replace
    BY <1>2
  <1>3. PoolInv /\ [Next]_vars => [Replace]_vars
    <2> SUFFICES ASSUME PoolInv, Next PROVE Replace
      BY DEF vars
    <2> HIDE DEF Replace
    <2>1. ASSUME NEW q \in Questions, AnswerFake(q) PROVE Replace
      <3>1. normalize(q) \in Managed /\ allocate(normalize(q))
        BY <2>1 DEF AnswerFake, decide
      <3> QED BY <3>1, <1>1, <1>2 DEF allocate, AllocateKnown, poolVars
    <2> QED
      BY <2>1, <1>2
      DEF Next, Serve, LoopTest, NoQuery, AnswerLocal, Refuse, Forward, ForwardThread,
          ForwardDone, ForwardExit, StopBegin, StopReturn, Terminated, poolVars, vars
  <1> QED BY <1>3, PoolInvariance, PTL DEF Spec, OldestReplaced

-----------------------------------------------------------------------------
\* The forward threads that are running.
Busy == {t \in Threads : fwd[t] # "free"}

InflightInv == TypeOK /\ InflightExact

\* The counter is exact because the increment precedes the spawn and each
\* thread decrements once; the limit is tested by the only thread that
\* increments.
THEOREM InflightCorrect == Spec => []InflightExact
  <1>1. IsFiniteSet(Threads)
    BY LimitAssumption, FS_Interval DEF Threads
  <1>2. Init => InflightExact
    <2> SUFFICES ASSUME Init PROVE InflightExact
      OBVIOUS
    <2>1. {t \in Threads : fwd[t] # "free"} = {}
      BY DEF Init
    <2>2. Cardinality({t \in Threads : fwd[t] # "free"}) = 0
      BY <2>1, FS_EmptySet, Zenon
    <2> QED BY <2>2, LimitAssumption DEF Init, InflightExact
  <1>3. InflightInv /\ [Next]_vars => InflightExact'
    <2> SUFFICES ASSUME InflightInv, [Next]_vars PROVE InflightExact'
      OBVIOUS
    <2> USE DEF InflightInv
    <2>1. IsFiniteSet(Busy) /\ Cardinality(Busy) = inflight /\ inflight \in Nat
          /\ inflight <= MaxInflight
      BY <1>1, FS_Subset, FS_CardinalityType DEF Busy, InflightExact
    <2>2. ASSUME UNCHANGED <<inflight, fwd>> PROVE InflightExact'
      BY <2>2 DEF InflightExact
    <2>3. ASSUME NEW q \in Questions, NEW t \in Threads, Forward(q, t)
          PROVE  InflightExact'
      <3>1. Busy' = Busy \cup {t} /\ t \notin Busy
        BY <2>3 DEF Forward, Busy, TypeOK
      <3>2. Cardinality(Busy') = inflight + 1
        BY <2>1, <3>1, FS_AddElement
      <3> QED BY <2>1, <2>3, <3>2, LimitAssumption
              DEF Forward, MayForward, Busy, InflightExact
    <2>4. ASSUME NEW t \in Threads, ForwardDone(t) PROVE InflightExact'
      <3>1. Busy' = Busy
        BY <2>4 DEF ForwardDone, Busy, TypeOK
      <3> QED BY <2>1, <2>4, <3>1 DEF ForwardDone, Busy, InflightExact
    <2>5. ASSUME NEW t \in Threads, ForwardExit(t) PROVE InflightExact'
      <3>1. Busy' = Busy \ {t} /\ t \in Busy
        BY <2>5 DEF ForwardExit, Busy, TypeOK
      <3>2. Cardinality(Busy') = inflight - 1
        BY <2>1, <3>1, FS_RemoveElement
      <3> QED BY <2>1, <2>5, <3>2, LimitAssumption
              DEF ForwardExit, Busy, InflightExact
    <2> QED
      BY <2>2, <2>3, <2>4, <2>5
      DEF Next, Serve, LoopTest, NoQuery, AnswerFake, AnswerLocal, Refuse,
          ForwardThread, StopBegin, StopReturn, Terminated, fwdVars, vars
  <1> QED BY <1>2, <1>3, TypeCorrect, PTL DEF Spec, InflightInv
=============================================================================
