------------------------- MODULE FakeIPStoreProofs --------------------------
(***************************************************************************)
(* Proofs about the fake-IP store: any number of goroutines, any prefix.   *)
(***************************************************************************)
EXTENDS FakeIPStore, TLAPS

LEMMA ModBelow ==
    ASSUME NEW m \in Nat, NEW x \in Nat, x < m
    PROVE  x % m = x
OBVIOUS

LEMMA PoolBounds ==
    /\ first = Base + 1 /\ last = Base + Size - 2
    /\ Modulus \in Nat /\ first \in Nat /\ last \in Nat
    /\ first <= last /\ last + 1 < Modulus
<1> USE StoreAssumption
<1>1. first = Base + 1
  BY ModBelow DEF first
<1>2. CASE Size = Modulus
  <2>1. Base = 0 /\ size = 0
    BY <1>2 DEF size
  <2>2. (-2) % Modulus = Modulus - 2
    OBVIOUS
  <2> QED
    BY <1>1, <1>2, <2>1, <2>2 DEF last
<1>3. CASE Size # Modulus
  BY <1>1, <1>3, ModBelow DEF last, size
<1> QED
  BY <1>2, <1>3

-----------------------------------------------------------------------------
(* The inductive invariant.  LockInv: what the lock keeps apart.  TableInv: *)
(* addresses are given out in order, and the two maps differ only in the    *)
(* address whose allocation is under way.  CallInv: what a goroutine knows  *)
(* at each of its positions, once it has been told, for ever.               *)

LockInv ==
    \A w \in Workers :
        /\ pc[w] \in {"drain", "locked", "store"} => writer = w
        /\ pc[w] \in {"read", "readIP"} => w \in readers
        /\ pc[w] \in {"locked", "store"} => readers = {}

TableInv ==
    /\ \A h \in Hosts : byHost[h] # NoAddr =>
           /\ byHost[h] < next
           /\ \/ byIP[byHost[h]] = h
              \/ \E w \in Workers : pc[w] = "store" /\ host[w] = h
    /\ \A a \in Addrs : byIP[a] # NoHost => byHost[byIP[a]] = a
    /\ \A a \in Pool : a < next =>
           \/ byIP[a] # NoHost
           \/ \E w \in Workers : pc[w] = "store" /\ addr[w] = a

CallInv ==
    \A w \in Workers :
        /\ pc[w] \in {"rlock", "read", "lock", "drain", "locked"} =>
               host[w] # NoHost /\ addr[w] = NoAddr
        /\ pc[w] = "store" =>
               /\ host[w] # NoHost /\ addr[w] # NoAddr
               /\ byHost[host[w]] = addr[w] /\ byIP[addr[w]] = NoHost
        /\ pc[w] = "told" /\ addr[w] # NoAddr =>
               /\ host[w] # NoHost
               /\ byHost[host[w]] = addr[w] /\ byIP[addr[w]] = host[w]
        /\ pc[w] = "told" /\ addr[w] = NoAddr /\ host[w] # NoHost =>
               byHost[host[w]] = NoAddr /\ next > last
        /\ pc[w] \in {"rlockIP", "readIP", "found"} => addr[w] # NoAddr

IInv == TypeOK /\ LockInv /\ TableInv /\ CallInv

LEMMA InitInv == Init => IInv
<1> SUFFICES ASSUME Init PROVE IInv
  OBVIOUS
<1>1. TypeOK
  BY PoolBounds DEF Init, TypeOK, Pool, Addrs
<1> QED
  BY <1>1, PoolBounds, StoreAssumption DEF Init, IInv, LockInv, TableInv, CallInv, Pool

\* The lock does its work, whatever the maps hold.
LEMMA LockKept ==
    ASSUME IInv, NEW w \in Workers, Call(w) \/ Step(w) \/ Enter(w)
    PROVE  LockInv'
<1> USE StoreAssumption DEF IInv, TypeOK, LockInv, At
<1>1. CASE \E n \in Names : Ask(w, n)
  BY <1>1 DEF Ask, Free
<1>2. CASE EnterRead(w)
  BY <1>2 DEF EnterRead, RLock
<1>3. CASE Hit(w)
  BY <1>3 DEF Hit, RUnlock
<1>4. CASE Miss(w)
  BY <1>4 DEF Miss, RUnlock
<1>5. CASE Announce(w)
  BY <1>5 DEF Announce
<1>6. CASE EnterWrite(w)
  BY <1>6 DEF EnterWrite
<1>7. CASE HitLocked(w)
  BY <1>7 DEF HitLocked, Unlock
<1>8. CASE Exhausted(w)
  BY <1>8 DEF Exhausted, Unlock
<1>9. CASE Allocate(w)
  BY <1>9 DEF Allocate
<1>10. CASE Record(w)
  BY <1>10 DEF Record, Unlock
<1>11. CASE \E a \in Addrs : LookUp(w, a)
  BY <1>11 DEF LookUp, Free
<1>12. CASE EnterLookUp(w)
  BY <1>12 DEF EnterLookUp, RLock
<1>13. CASE Find(w)
  BY <1>13 DEF Find, RUnlock
<1> QED
  BY <1>1, <1>2, <1>3, <1>4, <1>5, <1>6, <1>7, <1>8, <1>9, <1>10, <1>11, <1>12, <1>13 DEF Call, Step, Enter

LEMMA TypeKept ==
    ASSUME IInv, NEW w \in Workers, Call(w) \/ Step(w) \/ Enter(w)
    PROVE  TypeOK'
<1> USE StoreAssumption, PoolBounds DEF IInv, TypeOK, At, Pool, Addrs
<1>1. CASE \E n \in Names : Ask(w, n)
  BY <1>1 DEF Ask, Free, maps
<1>2. CASE EnterRead(w)
  BY <1>2 DEF EnterRead, RLock, maps
<1>3. CASE Hit(w)
  BY <1>3 DEF Hit, RUnlock, maps, CallInv
<1>4. CASE Miss(w)
  BY <1>4 DEF Miss, RUnlock, maps
<1>5. CASE Announce(w)
  BY <1>5 DEF Announce, maps
<1>6. CASE EnterWrite(w)
  BY <1>6 DEF EnterWrite, maps
<1>7. CASE HitLocked(w)
  BY <1>7 DEF HitLocked, Unlock, maps, CallInv
<1>8. CASE Exhausted(w)
  BY <1>8 DEF Exhausted, Unlock, maps
<1>9. CASE Allocate(w)
  <2>0. next \in Pool /\ next + 1 \in Nat /\ next + 1 < Modulus
    BY <1>9 DEF Allocate
  <2>1. (next + 1) % Modulus = next + 1
    BY <2>0, ModBelow
  <2>2. host[w] \in Hosts
    BY <1>9 DEF Allocate, CallInv
  <2> QED
    BY <1>9, <2>0, <2>1, <2>2 DEF Allocate
<1>10. CASE Record(w)
  BY <1>10 DEF Record, Unlock, CallInv
<1>11. CASE \E a \in Addrs : LookUp(w, a)
  BY <1>11 DEF LookUp, Free, maps
<1>12. CASE EnterLookUp(w)
  BY <1>12 DEF EnterLookUp, RLock, maps
<1>13. CASE Find(w)
  BY <1>13 DEF Find, RUnlock, maps, CallInv
<1> QED
  BY <1>1, <1>2, <1>3, <1>4, <1>5, <1>6, <1>7, <1>8, <1>9, <1>10, <1>11, <1>12, <1>13 DEF Call, Step, Enter

\* When an address is allocated: nobody else is at it, and it is still unused.
LEMMA AllocateFacts ==
    ASSUME IInv, NEW w \in Workers, Allocate(w)
    PROVE  /\ next \in Pool /\ next # NoAddr /\ next <= last /\ next' = next + 1
           /\ host[w] \in Hosts /\ byHost[host[w]] = NoAddr /\ byIP[next] = NoHost
           /\ \A v \in Workers : pc[v] # "store"
<1> USE StoreAssumption, PoolBounds DEF IInv, TypeOK, At, Pool, Addrs
<1>1. next \in Pool /\ next \in Addrs /\ next # NoAddr /\ next <= last
  BY DEF Allocate, NoAddr
<1>2. next' = next + 1
  <2>1. next + 1 \in Nat /\ next + 1 < Modulus
    BY <1>1
  <2> QED
    BY <2>1, ModBelow DEF Allocate
<1>3. pc[w] = "locked" /\ byHost[host[w]] = NoAddr
  BY DEF Allocate
<1>4. host[w] \in Hosts
  BY <1>3 DEF CallInv
<1>5. byIP[next] = NoHost
  <2> SUFFICES ASSUME byIP[next] # NoHost PROVE FALSE
    OBVIOUS
  <2>1. byIP[next] \in Hosts /\ byHost[byIP[next]] = next
    BY <1>1 DEF TableInv
  <2> QED
    BY <1>1, <2>1 DEF TableInv
<1>6. \A v \in Workers : pc[v] # "store"
  BY <1>3 DEF LockInv
<1> QED
  BY <1>1, <1>2, <1>3, <1>4, <1>5, <1>6

LEMMA TableKept ==
    ASSUME IInv, NEW w \in Workers, Call(w) \/ Step(w) \/ Enter(w)
    PROVE  TableInv'
<1>0. TypeOK' /\ LockInv'
  BY TypeKept, LockKept
<1> USE StoreAssumption, PoolBounds DEF IInv, TypeOK, LockInv, TableInv, CallInv, At, Pool, Addrs, maps
<1>1. CASE \E n \in Names : Ask(w, n)
  BY <1>0, <1>1 DEF Ask, Free
<1>2. CASE EnterRead(w)
  BY <1>0, <1>2 DEF EnterRead, RLock
<1>3. CASE Hit(w)
  BY <1>0, <1>3 DEF Hit, RUnlock
<1>4. CASE Miss(w)
  BY <1>0, <1>4 DEF Miss, RUnlock
<1>5. CASE Announce(w)
  BY <1>0, <1>5 DEF Announce
<1>6. CASE EnterWrite(w)
  BY <1>0, <1>6 DEF EnterWrite
<1>7. CASE HitLocked(w)
  BY <1>0, <1>7 DEF HitLocked, Unlock
<1>8. CASE Exhausted(w)
  BY <1>0, <1>8 DEF Exhausted, Unlock
<1>9. CASE Allocate(w)
  <2>1. /\ next \in Pool /\ next # NoAddr /\ next <= last /\ next' = next + 1
        /\ host[w] \in Hosts /\ byHost[host[w]] = NoAddr /\ byIP[next] = NoHost
        /\ \A v \in Workers : pc[v] # "store"
    BY <1>9, AllocateFacts
  <2>4. pc'[w] = "store" /\ host'[w] = host[w] /\ addr'[w] = next
    BY <1>9 DEF Allocate
  <2>5. \A h \in Hosts : byHost'[h] = IF h = host[w] THEN next ELSE byHost[h]
    BY <1>9 DEF Allocate
  <2>6. byIP' = byIP
    BY <1>9 DEF Allocate
  <2>7. \A h \in Hosts : byHost'[h] # NoAddr =>
            /\ byHost'[h] < next'
            /\ byIP'[byHost'[h]] = h \/ \E v \in Workers : pc'[v] = "store" /\ host'[v] = h
    BY <2>1, <2>4, <2>5, <2>6
  <2>8. \A x \in Addrs : byIP'[x] # NoHost => byHost'[byIP'[x]] = x
    BY <2>1, <2>5, <2>6 DEF NoAddr
  <2>9. \A x \in Pool : x < next' =>
            byIP'[x] # NoHost \/ \E v \in Workers : pc'[v] = "store" /\ addr'[v] = x
    BY <2>1, <2>4, <2>6
  <2> QED
    BY <2>7, <2>8, <2>9
<1>10. CASE Record(w)
  BY <1>0, <1>10 DEF Record, Unlock
<1>11. CASE \E a \in Addrs : LookUp(w, a)
  BY <1>0, <1>11 DEF LookUp, Free
<1>12. CASE EnterLookUp(w)
  BY <1>0, <1>12 DEF EnterLookUp, RLock
<1>13. CASE Find(w)
  BY <1>0, <1>13 DEF Find, RUnlock
<1> QED
  BY <1>1, <1>2, <1>3, <1>4, <1>5, <1>6, <1>7, <1>8, <1>9, <1>10, <1>11, <1>12, <1>13 DEF Call, Step, Enter


LEMMA CallKept ==
    ASSUME IInv, NEW w \in Workers, Call(w) \/ Step(w) \/ Enter(w)
    PROVE  CallInv'
<1>0. TypeOK' /\ LockInv'
  BY TypeKept, LockKept
<1> USE StoreAssumption, PoolBounds DEF IInv, TypeOK, LockInv, TableInv, CallInv, At, Pool, Addrs, maps
<1>1. CASE \E n \in Names : Ask(w, n)
  BY <1>0, <1>1 DEF Ask, Free
<1>2. CASE EnterRead(w)
  BY <1>0, <1>2 DEF EnterRead, RLock
<1>3. CASE Hit(w)
  BY <1>0, <1>3 DEF Hit, RUnlock
<1>4. CASE Miss(w)
  BY <1>0, <1>4 DEF Miss, RUnlock
<1>5. CASE Announce(w)
  BY <1>0, <1>5 DEF Announce
<1>6. CASE EnterWrite(w)
  BY <1>0, <1>6 DEF EnterWrite
<1>7. CASE HitLocked(w)
  BY <1>0, <1>7 DEF HitLocked, Unlock
<1>8. CASE Exhausted(w)
  BY <1>0, <1>8 DEF Exhausted, Unlock
<1>9. CASE Allocate(w)
  <2>1. /\ next \in Pool /\ next # NoAddr /\ next <= last /\ next' = next + 1
        /\ host[w] \in Hosts /\ byHost[host[w]] = NoAddr /\ byIP[next] = NoHost
        /\ \A v \in Workers : pc[v] # "store"
    BY <1>9, AllocateFacts
  <2>4. /\ pc' = [pc EXCEPT ![w] = "store"] /\ host' = host
        /\ addr' = [addr EXCEPT ![w] = next] /\ byIP' = byIP
        /\ byHost' = [byHost EXCEPT ![host[w]] = next]
    BY <1>9 DEF Allocate
  <2>6. \A v \in Workers \ {w} : pc[v] = "told" => host[v] # host[w]
    BY <2>1
  <2> QED
    BY <2>1, <2>4, <2>6
<1>10. CASE Record(w)
  BY <1>0, <1>10 DEF Record, Unlock
<1>11. CASE \E a \in Addrs : LookUp(w, a)
  <2> PICK a \in Addrs : LookUp(w, a)
    BY <1>11
  <2>1. /\ pc' = [pc EXCEPT ![w] = "rlockIP"] /\ addr' = [addr EXCEPT ![w] = a]
        /\ host' = [host EXCEPT ![w] = NoHost] /\ a # NoAddr /\ UNCHANGED maps
    BY StoreAssumption DEF LookUp, Addrs, NoAddr
  <2> QED
    BY <2>1
<1>12. CASE EnterLookUp(w)
  BY <1>0, <1>12 DEF EnterLookUp, RLock
<1>13. CASE Find(w)
  BY <1>0, <1>13 DEF Find, RUnlock
<1> QED
  BY <1>1, <1>2, <1>3, <1>4, <1>5, <1>6, <1>7, <1>8, <1>9, <1>10, <1>11, <1>12, <1>13 DEF Call, Step, Enter

LEMMA NextInv == IInv /\ [Next]_vars => IInv'
<1> SUFFICES ASSUME IInv, [Next]_vars PROVE IInv'
  OBVIOUS
<1>1. CASE UNCHANGED vars
  BY <1>1 DEF IInv, TypeOK, LockInv, TableInv, CallInv, vars, maps
<1>2. CASE Next
  <2> PICK w \in Workers : Call(w) \/ Step(w) \/ Enter(w)
    BY <1>2 DEF Next
  <2>1. TypeOK'
    BY TypeKept
  <2>2. LockInv'
    BY LockKept
  <2>3. TableInv'
    BY TableKept
  <2>4. CallInv'
    BY CallKept
  <2> QED
    BY <2>1, <2>2, <2>3, <2>4 DEF IInv
<1> QED
  BY <1>1, <1>2

LEMMA InvariantHolds == Spec => []IInv
  BY InitInv, NextInv, PTL DEF Spec

-----------------------------------------------------------------------------
(* The theorems.                                                           *)

\* Types hold; no address outside the prefix's hosts is handed out and next
\* does not wrap around, for any prefix up to /30 (newFakeIPStore).
THEOREM TypeCorrect == Spec => []TypeOK
<1>1. IInv => TypeOK
  BY DEF IInv
<1> QED
  BY <1>1, InvariantHolds, PTL

\* byHost and byIP are inverse of each other outside an allocation, for any
\* number of goroutines that ask for any names.
THEOREM MapsStayInverse == Spec => []MapsAgree
<1>1. IInv => MapsAgree
  <2> SUFFICES ASSUME IInv, \A w \in Workers : pc[w] # "store",
                      NEW h \in Hosts, NEW a \in Addrs
               PROVE  byHost[h] = a <=> byIP[a] = h
    BY DEF MapsAgree
  <2>1. h # NoHost /\ a # NoAddr
    BY StoreAssumption, PoolBounds DEF Addrs, NoAddr
  <2>2. byHost[h] = a => byIP[a] = h
    BY <2>1 DEF IInv, TableInv
  <2>3. byIP[a] = h => byHost[h] = a
    BY <2>1 DEF IInv, TableInv
  <2> QED
    BY <2>2, <2>3
<1> QED
  BY <1>1, InvariantHolds, PTL

\* All goroutines are given the same answer for the same host, at the limit
\* of the pool as well, and different addresses for different hosts.
THEOREM AnswersAgree == Spec => []OneAnswer
<1>1. IInv => OneAnswer
  <2> SUFFICES ASSUME IInv, NEW v \in Workers, NEW w \in Workers,
                      pc[v] = "told", pc[w] = "told"
               PROVE  /\ host[v] = host[w] => addr[v] = addr[w]
                      /\ addr[v] = addr[w] /\ addr[v] # NoAddr => host[v] = host[w]
    BY DEF OneAnswer
  <2>1. ASSUME host[v] = host[w] PROVE addr[v] = addr[w]
    <3>1. CASE host[v] = NoHost
      BY <2>1, <3>1 DEF IInv, CallInv
    <3>2. CASE host[v] # NoHost
      BY <2>1, <3>2 DEF IInv, CallInv
    <3> QED
      BY <3>1, <3>2
  <2>2. ASSUME addr[v] = addr[w], addr[v] # NoAddr PROVE host[v] = host[w]
    BY <2>2 DEF IInv, CallInv
  <2> QED
    BY <2>1, <2>2
<1> QED
  BY <1>1, InvariantHolds, PTL

\* A flow to an address that a client was given is found under its host.
THEOREM ConnectionsFindHost == Spec => LookupFindsAnswer
<1>1. IInv /\ [Next]_vars =>
        [\A v, w \in Workers :
            /\ pc[v] = "told" /\ addr[v] # NoAddr
            /\ pc[w] = "readIP" /\ pc'[w] = "found" /\ addr[w] = addr[v]
            => host'[w] = host[v]]_vars
  <2> SUFFICES ASSUME IInv, Next, NEW v \in Workers, NEW w \in Workers,
                      pc[v] = "told", addr[v] # NoAddr,
                      pc[w] = "readIP", pc'[w] = "found", addr[w] = addr[v]
               PROVE  host'[w] = host[v]
    OBVIOUS
  <2>1. byIP[addr[w]] = host[v]
    BY DEF IInv, CallInv
  <2>2. PICK u \in Workers : Call(u) \/ Step(u) \/ Enter(u)
    BY DEF Next
  <2>3. pc \in [Workers -> {"idle", "rlock", "read", "lock", "drain", "locked", "store",
                           "told", "rlockIP", "readIP", "found"}]
        /\ host \in [Workers -> Hosts \union {NoHost}]
    BY DEF IInv, TypeOK
  <2>4. Find(u)
    BY <2>2, <2>3 DEF Call, Step, Enter, At, Ask, EnterRead, Hit, Miss, Announce, EnterWrite,
        HitLocked, Exhausted, Allocate, Record, LookUp, EnterLookUp, Free
  <2>5. u = w
    BY <2>3, <2>4 DEF Find, At
  <2> QED
    BY <2>1, <2>3, <2>4, <2>5 DEF Find
<1> QED
  BY <1>1, InvariantHolds, PTL DEF Spec, LookupFindsAnswer

-----------------------------------------------------------------------------
(* The refinement: the read under either lock is where a call takes effect, *)
(* and for an allocation it is the write of byIP.                           *)

LEMMA InitIsHostMap == Init => AsHostMap!Init
  BY DEF Init, AsHostMap!Init, HostMapCall

LEMMA StepIsHostMap ==
    ASSUME IInv, NEW w \in Workers, Call(w) \/ Step(w) \/ Enter(w)
    PROVE  [AsHostMap!Next]_(AsHostMap!vars)
<1> USE StoreAssumption DEF IInv, TypeOK, At, HostMapCall
<1>1. ASSUME NEW n \in Names, Ask(w, n)
      PROVE  AsHostMap!Ask(w) \/ AsHostMap!AskNothing(w)
  <2>1. ~AsHostMap!Calling(w)
    BY <1>1 DEF Ask, Free, AsHostMap!Calling
  <2>2. Canonical[n] \in Hosts \union {NoHost}
    OBVIOUS
  <2>3. CASE Canonical[n] = NoHost
    BY <1>1, <2>1, <2>3 DEF Ask, Free, maps, AsHostMap!AskNothing
  <2>4. CASE Canonical[n] # NoHost
    BY <1>1, <2>1, <2>2, <2>4 DEF Ask, Free, maps, AsHostMap!Ask
  <2> QED
    BY <2>3, <2>4
<1>2. CASE EnterRead(w) \/ Miss(w) \/ Announce(w) \/ EnterWrite(w) \/ EnterLookUp(w)
  BY <1>2 DEF EnterRead, Miss, Announce, EnterWrite, EnterLookUp, maps, AsHostMap!vars
<1>3. CASE Allocate(w)
  BY <1>3, AllocateFacts DEF Allocate, CallInv, AsHostMap!vars
<1>4. CASE Hit(w) \/ HitLocked(w)
  <2>1. /\ pc[w] \in {"read", "locked"} /\ pc' = [pc EXCEPT ![w] = "told"]
        /\ byHost[host[w]] # NoAddr /\ addr' = [addr EXCEPT ![w] = byHost[host[w]]]
        /\ byIP' = byIP /\ host' = host
    BY <1>4 DEF Hit, HitLocked, maps
  <2>2. host[w] \in Hosts /\ byHost[host[w]] \in Pool
    BY <2>1 DEF CallInv
  <2>3. \A v \in Workers : pc[v] # "store"
    BY <2>1 DEF LockInv
  <2>4. byIP[byHost[host[w]]] = host[w]
    BY <2>1, <2>2, <2>3 DEF TableInv
  <2>5. PICK a \in Pool : a = byHost[host[w]]
    BY <2>2
  <2>6. AsHostMap!Tell(w, a)
    BY <2>1, <2>3, <2>4, <2>5 DEF AsHostMap!Tell
  <2> QED
    BY <2>6 DEF AsHostMap!Next
<1>5. CASE Exhausted(w)
  <2>1. /\ pc[w] = "locked" /\ pc' = [pc EXCEPT ![w] = "told"]
        /\ byHost[host[w]] = NoAddr /\ next > last
        /\ byIP' = byIP /\ host' = host /\ addr' = addr
    BY <1>5 DEF Exhausted, maps
  <2>2. host[w] \in Hosts
    BY <2>1 DEF CallInv
  <2>3. \A v \in Workers : pc[v] # "store"
    BY <2>1 DEF LockInv
  <2>4. \A a \in Pool : a \in Addrs /\ a < next /\ a # NoAddr
    BY <2>1, PoolBounds DEF Pool, Addrs, NoAddr
  <2>5. \A a \in Pool : byIP[a] # NoHost /\ byIP[a] # host[w]
    BY <2>1, <2>2, <2>3, <2>4 DEF TableInv
  <2>6. AsHostMap!Refuse(w)
    BY <2>1, <2>5 DEF AsHostMap!Refuse
  <2> QED
    BY <2>6 DEF AsHostMap!Next
<1>6. CASE Record(w)
  <2>1. /\ pc[w] = "store" /\ pc' = [pc EXCEPT ![w] = "told"]
        /\ byIP' = [byIP EXCEPT ![addr[w]] = host[w]]
        /\ host' = host /\ addr' = addr
    BY <1>6 DEF Record
  <2>2. /\ host[w] # NoHost /\ byHost[host[w]] = addr[w] /\ byIP[addr[w]] = NoHost
        /\ addr[w] # NoAddr
    BY <2>1 DEF CallInv
  <2>3. host[w] \in Hosts /\ addr[w] \in Pool
    BY <2>2
  <2>4. \A b \in Addrs : byIP[b] # host[w]
    BY <2>2, <2>3 DEF TableInv
  <2>5. PICK a \in Pool : a = addr[w]
    BY <2>3
  <2>6. AsHostMap!Assign(w, a)
    BY <2>1, <2>2, <2>4, <2>5 DEF AsHostMap!Assign
  <2> QED
    BY <2>6 DEF AsHostMap!Next
<1>7. ASSUME NEW a \in Addrs, LookUp(w, a)
      PROVE  AsHostMap!LookUp(w)
  <2>1. ~AsHostMap!Calling(w)
    BY <1>7 DEF LookUp, Free, AsHostMap!Calling
  <2> QED
    BY <1>7, <2>1 DEF LookUp, Free, maps, AsHostMap!LookUp
<1>8. CASE Find(w)
  BY <1>8 DEF Find, maps, AsHostMap!Find, AsHostMap!Next
<1> QED
  BY <1>1, <1>2, <1>3, <1>4, <1>5, <1>6, <1>7, <1>8 DEF Call, Step, Enter, AsHostMap!Next

\* The locked store with its two maps is the lock-free HostMap: every call
\* takes effect at one instant between its start and its return.
THEOREM StoreIsHostMap == Spec => IsHostMap
<1>1. IInv /\ [Next]_vars => [AsHostMap!Next]_(AsHostMap!vars)
  <2>1. CASE Next
    BY <2>1, StepIsHostMap DEF Next
  <2>2. CASE UNCHANGED vars
    BY <2>2 DEF vars, maps, AsHostMap!vars, HostMapCall
  <2> QED
    BY <2>1, <2>2
<1> QED
  BY <1>1, InitIsHostMap, InvariantHolds, PTL DEF Spec, IsHostMap, AsHostMap!Spec

=============================================================================
