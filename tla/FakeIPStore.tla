---------------------------- MODULE FakeIPStore -----------------------------
(***************************************************************************)
(* The fake-IP store of netd (internal/hitman/fakeip.go).  Goroutines of   *)
(* the DNS server ask for a host's fake address (addrForHost), goroutines  *)
(* of the TUN stack look up the host of an address (hostForAddr).  Both    *)
(* maps are guarded by one sync.RWMutex; addrForHost first looks under the *)
(* read lock and looks again under the write lock before it allocates.     *)
(*                                                                         *)
(* Each step is the code between two lock operations; the two map writes   *)
(* of an allocation are two steps.  The lock is Go's: a writer first shuts *)
(* out new readers, then waits for those inside to leave.                  *)
(*                                                                         *)
(* Data: IPv4 addresses are unsigned integers modulo Modulus (2^32 in the  *)
(* code).  Canonical says what normalizeDomain makes of a name that is     *)
(* asked for: several spellings have one host, some have none.             *)
(***************************************************************************)
EXTENDS Integers

CONSTANTS
    Workers,        \* goroutines that use the store
    Hosts,          \* normalized names
    Names,          \* names as they are asked for
    Canonical,      \* normalizeDomain
    Modulus,        \* number of IPv4 addresses
    Base, Size      \* the masked prefix: its first address, and how many it has

NoHost   == ""
NoAddr   == -1
NoWorker == "none"

\* newFakeIPStore refuses a prefix longer than /30.
ASSUME StoreAssumption ==
    /\ NoHost \notin Hosts /\ NoWorker \notin Workers
    /\ Canonical \in [Names -> Hosts \union {NoHost}]
    /\ Modulus \in Nat /\ Base \in Nat /\ Size \in Nat
    /\ Size >= 4 /\ Base + Size <= Modulus

Addrs == 0..(Modulus - 1)

\* uint32(1) << (32 - bits) is 0 for the prefix of length 0.
size == IF Size = Modulus THEN 0 ELSE Size

first == (Base + 1) % Modulus

\* Mutant: the last address of the prefix, too, is given to a host.
lastOfPrefix == (Base + size - 1) % Modulus

last == (Base + size - 2) % Modulus

Pool == first..last

VARIABLES
    byHost, byIP, next,
    writer, readers,    \* who holds or has announced the lock, who holds RLock
    pc, host, addr      \* each goroutine's position, argument and result

maps == <<byHost, byIP, next>>
vars == <<maps, writer, readers, pc, host, addr>>

Init ==
    /\ byHost = [h \in Hosts |-> NoAddr]
    /\ byIP = [a \in Addrs |-> NoHost]
    /\ next = first
    /\ writer = NoWorker /\ readers = {}
    /\ pc = [w \in Workers |-> "idle"]
    /\ host = [w \in Workers |-> NoHost]
    /\ addr = [w \in Workers |-> NoAddr]

Free(w) == pc[w] \in {"idle", "told", "found"}

At(w, from, to) == pc[w] = from /\ pc' = [pc EXCEPT ![w] = to]

-----------------------------------------------------------------------------
(* sync.RWMutex.                                                           *)

RLock(w)   == writer = NoWorker /\ readers' = readers \union {w} /\ UNCHANGED writer
RUnlock(w) == readers' = readers \ {w} /\ UNCHANGED writer
Unlock(w)  == writer' = NoWorker /\ UNCHANGED readers

-----------------------------------------------------------------------------
(* addrForHost; it returns with pc "told", and NoAddr for an error.        *)

Ask(w, name) ==
    /\ Free(w)
    /\ host' = [host EXCEPT ![w] = Canonical[name]]
    /\ addr' = [addr EXCEPT ![w] = NoAddr]
    /\ pc' = [pc EXCEPT ![w] = IF Canonical[name] = NoHost THEN "told" ELSE "rlock"]
    /\ UNCHANGED <<maps, writer, readers>>

EnterRead(w) ==
    /\ At(w, "rlock", "read")
    /\ RLock(w)
    /\ UNCHANGED <<maps, host, addr>>

\* Mutant: the early return keeps the read lock.
HitKeepingRLock(w) ==
    /\ At(w, "read", "told")
    /\ byHost[host[w]] # NoAddr
    /\ addr' = [addr EXCEPT ![w] = byHost[host[w]]]
    /\ UNCHANGED <<maps, host, writer, readers>>

Hit(w) ==
    /\ At(w, "read", "told")
    /\ byHost[host[w]] # NoAddr
    /\ addr' = [addr EXCEPT ![w] = byHost[host[w]]]
    /\ RUnlock(w)
    /\ UNCHANGED <<maps, host>>

Miss(w) ==
    /\ At(w, "read", "lock")
    /\ byHost[host[w]] = NoAddr
    /\ RUnlock(w)
    /\ UNCHANGED <<maps, host, addr>>

\* Lock: one writer at a time announces itself and waits for the readers.
Announce(w) ==
    /\ At(w, "lock", "drain")
    /\ writer = NoWorker /\ writer' = w
    /\ UNCHANGED <<maps, readers, host, addr>>

EnterWrite(w) ==
    /\ At(w, "drain", "locked")
    /\ readers = {}
    /\ UNCHANGED <<maps, writer, readers, host, addr>>

\* Another goroutine has allocated the host's address in the meantime.
HitLocked(w) ==
    /\ At(w, "locked", "told")
    /\ byHost[host[w]] # NoAddr
    /\ addr' = [addr EXCEPT ![w] = byHost[host[w]]]
    /\ Unlock(w)
    /\ UNCHANGED <<maps, host>>

\* Mutant: the pool's last address is never given away.
ExhaustedAtLast(w) ==
    /\ At(w, "locked", "told")
    /\ byHost[host[w]] = NoAddr /\ next >= last
    /\ Unlock(w)
    /\ UNCHANGED <<maps, host, addr>>

Exhausted(w) ==
    /\ At(w, "locked", "told")
    /\ byHost[host[w]] = NoAddr /\ next > last
    /\ Unlock(w)
    /\ UNCHANGED <<maps, host, addr>>

\* Mutant: the map is not consulted again under the write lock.
AllocateUnchecked(w) ==
    /\ At(w, "locked", "store")
    /\ next <= last
    /\ addr' = [addr EXCEPT ![w] = next]
    /\ next' = (next + 1) % Modulus
    /\ byHost' = [byHost EXCEPT ![host[w]] = next]
    /\ UNCHANGED <<byIP, writer, readers, host>>

Allocate(w) ==
    /\ At(w, "locked", "store")
    /\ byHost[host[w]] = NoAddr /\ next <= last
    /\ addr' = [addr EXCEPT ![w] = next]
    /\ next' = (next + 1) % Modulus
    /\ byHost' = [byHost EXCEPT ![host[w]] = next]
    /\ UNCHANGED <<byIP, writer, readers, host>>

\* Mutant: the address is returned without its way back being recorded.
RecordNothing(w) ==
    /\ At(w, "store", "told")
    /\ Unlock(w)
    /\ UNCHANGED <<maps, host, addr>>

Record(w) ==
    /\ At(w, "store", "told")
    /\ byIP' = [byIP EXCEPT ![addr[w]] = host[w]]
    /\ Unlock(w)
    /\ UNCHANGED <<byHost, next, host, addr>>

-----------------------------------------------------------------------------
(* hostForAddr; it returns with pc "found", and NoHost for "not ok".       *)

LookUp(w, a) ==
    /\ Free(w)
    /\ addr' = [addr EXCEPT ![w] = a]
    /\ host' = [host EXCEPT ![w] = NoHost]
    /\ pc' = [pc EXCEPT ![w] = "rlockIP"]
    /\ UNCHANGED <<maps, writer, readers>>

EnterLookUp(w) ==
    /\ At(w, "rlockIP", "readIP")
    /\ RLock(w)
    /\ UNCHANGED <<maps, host, addr>>

Find(w) ==
    /\ At(w, "readIP", "found")
    /\ host' = [host EXCEPT ![w] = byIP[addr[w]]]
    /\ RUnlock(w)
    /\ UNCHANGED <<maps, addr>>

-----------------------------------------------------------------------------
Call(w) == (\E n \in Names : Ask(w, n)) \/ (\E a \in Addrs : LookUp(w, a))

Step(w) ==
    \/ Hit(w) \/ Miss(w) \/ EnterWrite(w)
    \/ HitLocked(w) \/ Exhausted(w) \/ Allocate(w) \/ Record(w)
    \/ Find(w)

Enter(w) == EnterRead(w) \/ EnterLookUp(w) \/ Announce(w)

Next == \E w \in Workers : Call(w) \/ Step(w) \/ Enter(w)

Spec == Init /\ [][Next]_vars

\* Goroutines are scheduled fairly, and so is the lock: sync.RWMutex lets the
\* readers it holds up in before the next writer, and sync.Mutex hands itself
\* to the waiter that has waited longest (starvation mode).
FairSpec ==
    /\ Spec
    /\ \A w \in Workers : WF_vars(Step(w)) /\ SF_vars(Enter(w))

-----------------------------------------------------------------------------
(* Properties.                                                             *)

\* Types; no address outside the pool is ever handed out, and next stays
\* at most one behind the pool: it does not wrap around.
TypeOK ==
    /\ byHost \in [Hosts -> Pool \union {NoAddr}]
    /\ byIP \in [Addrs -> Hosts \union {NoHost}]
    /\ next \in first..(last + 1)
    /\ writer \in Workers \union {NoWorker} /\ readers \subseteq Workers
    /\ pc \in [Workers -> {"idle", "rlock", "read", "lock", "drain", "locked", "store",
                           "told", "rlockIP", "readIP", "found"}]
    /\ host \in [Workers -> Hosts \union {NoHost}]
    /\ addr \in [Workers -> Addrs \union {NoAddr}]

\* The two maps are inverse of each other except while an allocation is
\* between its two writes; so no two hosts share an address and no host has
\* two, whatever goroutines asked for it at the same time.
MapsAgree ==
    (\A w \in Workers : pc[w] # "store") =>
        \A h \in Hosts, a \in Addrs : byHost[h] = a <=> byIP[a] = h

\* Every goroutine that asked for a host was told the same, an address or that
\* the pool is exhausted, and no address was told for two hosts: clients never
\* see a host change its address or share it, nor a host that was refused be
\* accepted later, at the limit of the pool.
OneAnswer ==
    \A v, w \in Workers :
        pc[v] = "told" /\ pc[w] = "told" =>
            /\ host[v] = host[w] => addr[v] = addr[w]
            /\ addr[v] = addr[w] /\ addr[v] # NoAddr => host[v] = host[w]

\* A lookup of an address that was given to a client finds the host it was
\* given for: JudgeFlow and NewConnectionEx do not drop a client's connection.
LookupFindsAnswer ==
    [][\A v, w \in Workers :
          /\ pc[v] = "told" /\ addr[v] # NoAddr
          /\ pc[w] = "readIP" /\ pc'[w] = "found" /\ addr[w] = addr[v]
          => host'[w] = host[v]]_vars

\* The store is the lock-free HostMap: each call takes effect at one instant.
HostMapCall == [w \in Workers |->
    CASE pc[w] \in {"rlock", "read", "lock", "drain", "locked", "store"} -> "asks"
      [] pc[w] \in {"rlockIP", "readIP"}                                 -> "looks up"
      [] OTHER                                                           -> pc[w]]

AsHostMap == INSTANCE HostMap WITH
    hostOf <- byIP,
    call   <- HostMapCall,
    addr   <- [w \in Workers |-> IF pc[w] = "store" THEN NoAddr ELSE addr[w]]
IsHostMap == AsHostMap!Spec

\* Every call returns: no goroutine waits for the lock for ever.
CallsReturn == \A w \in Workers : []<>Free(w)

=============================================================================
