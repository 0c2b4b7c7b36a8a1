------------------------------ MODULE HostMap -------------------------------
(***************************************************************************)
(* What the fake-IP store promises the goroutines that call it, free of    *)
(* locks: every call takes effect at one instant, on a table from          *)
(* addresses to hosts that only grows, holds no host twice, and is only    *)
(* refused a new host when no address of the pool is left.                 *)
(***************************************************************************)
CONSTANTS Workers, Hosts, NoHost, Pool, Addrs, NoAddr

VARIABLES
    hostOf,     \* the table
    call,       \* what each worker is doing
    host, addr  \* its host and its address: one is asked for, one is told

vars == <<hostOf, call, host, addr>>

Init ==
    /\ hostOf = [a \in Addrs |-> NoHost]
    /\ call = [w \in Workers |-> "idle"]
    /\ host = [w \in Workers |-> NoHost]
    /\ addr = [w \in Workers |-> NoAddr]

Calling(w) == call[w] \in {"asks", "looks up"}

Ask(w) ==
    /\ ~Calling(w)
    /\ \E h \in Hosts : host' = [host EXCEPT ![w] = h]
    /\ addr' = [addr EXCEPT ![w] = NoAddr]
    /\ call' = [call EXCEPT ![w] = "asks"]
    /\ UNCHANGED hostOf

\* A name that is no host is refused.
AskNothing(w) ==
    /\ ~Calling(w)
    /\ host' = [host EXCEPT ![w] = NoHost]
    /\ addr' = [addr EXCEPT ![w] = NoAddr]
    /\ call' = [call EXCEPT ![w] = "told"]
    /\ UNCHANGED hostOf

Tell(w, a) ==
    /\ call[w] = "asks"
    /\ hostOf[a] = host[w]
    /\ addr' = [addr EXCEPT ![w] = a]
    /\ call' = [call EXCEPT ![w] = "told"]
    /\ UNCHANGED <<hostOf, host>>

Assign(w, a) ==
    /\ call[w] = "asks"
    /\ hostOf[a] = NoHost
    /\ \A b \in Addrs : hostOf[b] # host[w]
    /\ hostOf' = [hostOf EXCEPT ![a] = host[w]]
    /\ addr' = [addr EXCEPT ![w] = a]
    /\ call' = [call EXCEPT ![w] = "told"]
    /\ UNCHANGED host

Refuse(w) ==
    /\ call[w] = "asks"
    /\ \A a \in Pool : hostOf[a] \notin {NoHost, host[w]}
    /\ call' = [call EXCEPT ![w] = "told"]
    /\ UNCHANGED <<hostOf, host, addr>>

LookUp(w) ==
    /\ ~Calling(w)
    /\ \E a \in Addrs : addr' = [addr EXCEPT ![w] = a]
    /\ host' = [host EXCEPT ![w] = NoHost]
    /\ call' = [call EXCEPT ![w] = "looks up"]
    /\ UNCHANGED hostOf

Find(w) ==
    /\ call[w] = "looks up"
    /\ host' = [host EXCEPT ![w] = hostOf[addr[w]]]
    /\ call' = [call EXCEPT ![w] = "found"]
    /\ UNCHANGED <<hostOf, addr>>

Next ==
    \E w \in Workers :
        \/ Ask(w) \/ AskNothing(w) \/ Refuse(w) \/ LookUp(w) \/ Find(w)
        \/ \E a \in Pool : Tell(w, a) \/ Assign(w, a)

Spec == Init /\ [][Next]_vars

=============================================================================
