------------------------------ MODULE FakeDns ------------------------------
(***************************************************************************)
(* The fake-IP DNS server: the address pool (FakeIpPool), the decision it  *)
(* takes for a query (decide), its receive loop (serve) with the threads   *)
(* that forward a query upstream, and FakeDnsServer::stop.                 *)
(*                                                                         *)
(* An address of the fake range is identified with its slot (slot_ip adds  *)
(* a constant).  A name on the wire is a domain together with a spelling   *)
(* (letter case, trailing dot); normalize forgets the spelling.            *)
(***************************************************************************)
EXTENDS Integers, FiniteSets

CONSTANTS Managed,        \* managed TCP domains that need a fake address
          Static,         \* managed TCP domains with a routed static address
          Unmanaged,      \* every other domain
          Spellings,      \* ways to write one domain on the wire
          PoolSize,       \* FAKE_POOL_SIZE
          MaxInflight,    \* MAX_INFLIGHT_FORWARDS
          Upstream,       \* TRUE iff an upstream resolver is configured
          None,           \* the empty slot
          MaxAllocs       \* bound: fresh allocations in one behaviour

ASSUME PoolAssumption == PoolSize \in Nat \ {0}
ASSUME LimitAssumption == MaxInflight \in Nat /\ MaxAllocs \in Nat
ASSUME UpstreamAssumption == Upstream \in BOOLEAN
ASSUME NoneAssumption == None \notin Managed

Domains == Managed \cup Static \cup Unmanaged
Slots == 0 .. PoolSize - 1

\* A parsed Question: the name as spelled, whether it asks for an A record,
\* and whether its class is IN.
Questions == [domain : Domains, spelling : Spellings,
              type_a : BOOLEAN, class_in : BOOLEAN]

\* Names for forward threads: one more than may run at once, so that running
\* too many is expressible.
Threads == 1 .. MaxInflight + 1

VARIABLES
    slots,      \* PoolInner.slots : slot -> domain or None
    by_domain,  \* PoolInner.by_domain : a partial function domain -> slot
    next,       \* PoolInner.next
    server,     \* pc of serve: "test" | "recv" | "exited"
    stop,       \* FakeDnsServer.stop
    stopper,    \* pc of FakeDnsServer::stop: "idle" | "joining" | "returned"
    inflight,   \* the counter shared with the forward threads
    fwd,        \* thread -> "free" | "asking" | "leaving"
    \* History, never read by the program:
    allocs,     \* number of fresh allocations so far
    born,       \* slot -> number of the allocation that filled it
    answers     \* fake addresses answered: [domain, slot, born]

poolVars == <<slots, by_domain, next, allocs, born>>
serverVars == <<server, stop, stopper>>
fwdVars == <<inflight, fwd>>
vars == <<poolVars, serverVars, fwdVars, answers>>

Init ==
    /\ slots = [s \in Slots |-> None]
    /\ by_domain = [d \in {} |-> 0]
    /\ next = 0
    /\ server = "test"
    /\ stop = FALSE
    /\ stopper = "idle"
    /\ inflight = 0
    /\ fwd = [t \in Threads |-> "free"]
    /\ allocs = 0
    /\ born = [s \in Slots |-> 0]
    /\ answers = {}

-----------------------------------------------------------------------------
(* FakeIpPool                                                              *)

normalize(q) == q.domain

\* FakeIpPool::domain_for, for an address of the fake range.
domain_for(slot) == slots[slot]

\* Mutant of Remap: the replaced domain keeps its entry.
RemapKeepingPrevious(d, slot, previous) ==
    [e \in DOMAIN by_domain \cup {d} |-> IF e = d THEN slot ELSE by_domain[e]]

\* by_domain once d has taken the slot of previous (None: it was empty).
Remap(d, slot, previous) ==
    [e \in (DOMAIN by_domain \ {previous}) \cup {d} |->
        IF e = d THEN slot ELSE by_domain[e]]

\* Mutant of NextSlot: the last slot is never handed out.
NextSlotShort(slot) == (slot + 1) % (PoolSize - 1)

NextSlot(slot) == (slot + 1) % PoolSize

\* FakeIpPool::allocate for a domain that has a slot: it keeps the slot, which
\* grows no younger by the new answer.
AllocateKnown(d) ==
    /\ d \in DOMAIN by_domain
    /\ UNCHANGED poolVars

\* FakeIpPool::allocate for a new domain: it takes the next slot, whose
\* previous domain is forgotten.
AllocateFresh(d) ==
    /\ d \notin DOMAIN by_domain
    /\ allocs < MaxAllocs
    /\ by_domain' = Remap(d, next, slots[next])
    /\ slots' = [slots EXCEPT ![next] = d]
    /\ next' = NextSlot(next)
    /\ allocs' = allocs + 1
    /\ born' = [born EXCEPT ![next] = allocs]

allocate(d) == AllocateKnown(d) \/ AllocateFresh(d)

-----------------------------------------------------------------------------
(* serve                                                                   *)

\* decide: what to do with a question.
decide(q) ==
    CASE ~q.class_in \/ normalize(q) \in Unmanaged -> "forward"
      [] q.class_in /\ q.type_a /\ normalize(q) \in Managed -> "fake"
      [] OTHER -> "local"    \* a static address, or no data

\* Mutant of LoopTest: the stop flag is not re-tested.
LoopTestOnce ==
    /\ server = "test"
    /\ server' = "recv"
    /\ UNCHANGED <<poolVars, stop, stopper, fwdVars, answers>>

\* `while !stop`.
LoopTest ==
    /\ server = "test"
    /\ server' = IF stop THEN "exited" ELSE "recv"
    /\ UNCHANGED <<poolVars, stop, stopper, fwdVars, answers>>

\* recv_from: the loop is back at its test after one datagram, or after the
\* read timeout, a receive error or a query that does not parse.
Received == server = "recv" /\ server' = "test"

NoQuery == Received /\ UNCHANGED <<poolVars, stop, stopper, fwdVars, answers>>

AnswerFake(q) ==
    /\ Received
    /\ decide(q) = "fake"
    /\ allocate(normalize(q))
    /\ LET slot == by_domain'[normalize(q)]
       IN answers' = answers \cup {[domain |-> normalize(q), slot |-> slot,
                                    born |-> born'[slot]]}
    /\ UNCHANGED <<stop, stopper, fwdVars>>

AnswerLocal(q) ==
    /\ Received
    /\ decide(q) = "local"
    /\ UNCHANGED <<poolVars, stop, stopper, fwdVars, answers>>

\* Mutant of MayForward: the limit is off by one.
MayForwardOneMore == Upstream /\ inflight <= MaxInflight

MayForward == Upstream /\ inflight < MaxInflight

\* SERVFAIL, or nothing at all if the reply socket cannot be cloned.
Refuse(q) ==
    /\ Received
    /\ decide(q) = "forward"
    /\ UNCHANGED <<poolVars, stop, stopper, fwdVars, answers>>

Forward(q, t) ==
    /\ Received
    /\ decide(q) = "forward"
    /\ MayForward
    /\ fwd[t] = "free"
    /\ inflight' = inflight + 1
    /\ fwd' = [fwd EXCEPT ![t] = "asking"]
    /\ UNCHANGED <<poolVars, stop, stopper, answers>>

\* A forward thread: the upstream answers and the reply is sent, or
\* UPSTREAM_TIMEOUT passes and nothing is sent.
ForwardDone(t) ==
    /\ fwd[t] = "asking"
    /\ fwd' = [fwd EXCEPT ![t] = "leaving"]
    /\ UNCHANGED <<poolVars, serverVars, inflight, answers>>

\* It gives its place back and ends.
ForwardExit(t) ==
    /\ fwd[t] = "leaving"
    /\ fwd' = [fwd EXCEPT ![t] = "free"]
    /\ inflight' = inflight - 1
    /\ UNCHANGED <<poolVars, serverVars, answers>>

-----------------------------------------------------------------------------
(* FakeDnsServer::stop: set the flag, then join the server thread.         *)

StopBegin ==
    /\ stopper = "idle"
    /\ stop' = TRUE
    /\ stopper' = "joining"
    /\ UNCHANGED <<poolVars, server, fwdVars, answers>>

StopReturn ==
    /\ stopper = "joining"
    /\ server = "exited"
    /\ stopper' = "returned"
    /\ UNCHANGED <<poolVars, server, stop, fwdVars, answers>>

-----------------------------------------------------------------------------
Serve ==
    \/ LoopTest
    \/ NoQuery
    \/ \E q \in Questions : \/ AnswerFake(q)
                            \/ AnswerLocal(q)
                            \/ Refuse(q)
                            \/ \E t \in Threads : Forward(q, t)

ForwardThread(t) == ForwardDone(t) \/ ForwardExit(t)

\* Every thread has ended.
Terminated ==
    /\ stopper = "returned"
    /\ \A t \in Threads : fwd[t] = "free"
    /\ UNCHANGED vars

Next ==
    \/ Serve
    \/ \E t \in Threads : ForwardThread(t)
    \/ StopBegin
    \/ StopReturn
    \/ Terminated

\* Threads that can run do run: recv_from returns within its 200 ms timeout
\* and forward() within UPSTREAM_TIMEOUT.  Nobody has to call stop.
Fairness ==
    /\ WF_vars(Serve)
    /\ WF_vars(StopReturn)
    /\ \A t \in Threads : WF_vars(ForwardThread(t))

Spec == Init /\ [][Next]_vars
FairSpec == Spec /\ Fairness

-----------------------------------------------------------------------------
\* The values the variables range over.
TypeOK ==
    /\ slots \in [Slots -> Managed \cup {None}]
    /\ DOMAIN by_domain \subseteq Managed
    /\ \A d \in DOMAIN by_domain : by_domain[d] \in Slots
    /\ next \in Slots
    /\ server \in {"test", "recv", "exited"}
    /\ stop \in BOOLEAN
    /\ stopper \in {"idle", "joining", "returned"}
    /\ inflight \in Int
    /\ fwd \in [Threads -> {"free", "asking", "leaving"}]
    /\ allocs \in Nat
    /\ born \in [Slots -> Nat]
    /\ answers \subseteq [domain : Managed, slot : Slots, born : Nat]

\* The two indexes of the pool agree: slots and by_domain are inverses, so an
\* evicted domain is never answered with an address that stands for another
\* (allocate keeps both in step).
IndexesAgree ==
    /\ \A d \in DOMAIN by_domain : slots[by_domain[d]] = d
    /\ \A s \in Slots : slots[s] # None =>
           slots[s] \in DOMAIN by_domain /\ by_domain[slots[s]] = s

\* An address handed to an application keeps standing for the domain that
\* was asked for until PoolSize further domains have been allocated since the
\* domain was given the address, however queries interleave (the round-robin
\* of allocate).  The round counts from there, not from the answer: an answer
\* for a domain that has a slot does not refresh it, so an address may be
\* replaced right after it was answered again.
AnswersHold ==
    \A a \in answers :
        allocs <= a.born + PoolSize => domain_for(a.slot) = a.domain

\* A mapping is replaced only when every slot is in use, and then it is the
\* oldest one ("once the whole range has been used the oldest mapping is
\* replaced").
OldestReplaced ==
    [][\A s \in Slots : slots[s] # None /\ slots'[s] # slots[s] =>
           \A r \in Slots : slots[r] # None /\ born[s] <= born[r]]_vars

\* inflight counts the running forward threads exactly, and never more than
\* MAX_INFLIGHT_FORWARDS of them run at once.
InflightExact ==
    /\ inflight = Cardinality({t \in Threads : fwd[t] # "free"})
    /\ inflight <= MaxInflight

\* FakeDnsServer::stop returns, whatever queries keep arriving.
StopEnds == stopper = "joining" ~> stopper = "returned"
=============================================================================
