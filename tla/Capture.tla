------------------------------ MODULE Capture -------------------------------
(***************************************************************************)
(* The way of one connection through hitman: its name is asked of the fake *)
(* DNS (internal/hitman/net_dns.go), its flow is judged and then piped by  *)
(* netd (netd.go), and what goes to the MITM is allowed or refused by the  *)
(* Host it names (proxy.go).  netd stops and starts between any two steps; *)
(* its table of fake addresses is lost, the answers it gave are not: the   *)
(* system may hold one for the 30 seconds of its TTL.                      *)
(*                                                                         *)
(* A name is the sequence of its parts, so that the two suffix rules, one  *)
(* at any position and one at a dot, can be told apart; names are already  *)
(* normalized.  The table is the abstract one FakeIPStore implements.      *)
(***************************************************************************)
EXTENDS Integers, SequencesExt

CONSTANTS
    Clients,
    Names,                      \* what clients connect to
    Domains, DomainSuffixes,    \* netd's targets
    AllowHosts,                 \* the MITM's upstream hosts; none allows all
    PoolSize,                   \* fake addresses there are
    MaxLives                    \* bound: starts of netd

NoName == << >>
NoAddr == 0
Real   == -1                    \* any address outside the pool

ASSUME CaptureAssumption ==
    /\ NoName \notin Names \union Domains \union DomainSuffixes \union AllowHosts
    /\ PoolSize \in Nat \ {0} /\ MaxLives \in Nat \ {0}

Pool == 1..PoolSize

matches(name) ==
    \/ name \in Domains
    \/ \E suffix \in DomainSuffixes : IsSuffix(suffix, name)

hostAllowed(name) ==
    \/ AllowHosts = {}
    \/ name \in AllowHosts
    \/ \E a \in AllowHosts : IsSuffix(<<".">> \o a, name)

VARIABLES
    up, life,       \* netd runs; how often it was started
    hostOf,         \* its table
    stage,          \* how far each client's connection is
    want,           \* the name it is for
    addr, issued,   \* the address it has, and in which life it was given
    to              \* the host the bytes go to

netd == <<up, life, hostOf>>
vars == <<netd, stage, want, addr, issued, to>>

Stages == {"idle", "resolved", "accepted", "mitm", "piped", "served", "refused"}

Init ==
    /\ up = TRUE /\ life = 1
    /\ hostOf = [a \in Pool |-> NoName]
    /\ stage = [c \in Clients |-> "idle"]
    /\ want = [c \in Clients |-> NoName]
    /\ addr = [c \in Clients |-> NoAddr]
    /\ issued = [c \in Clients |-> 0]
    /\ to = [c \in Clients |-> NoName]

Moves(c, from, into) == stage[c] = from /\ stage' = [stage EXCEPT ![c] = into]

-----------------------------------------------------------------------------
(* The fake DNS.  A name that cannot be answered (the pool is used up, the *)
(* upstream does not answer) is SERVFAIL, and one asked for by another     *)
(* type than A is told nothing: both leave the client where it was.        *)

Answered(c, name, a) ==
    /\ Moves(c, "idle", "resolved")
    /\ want' = [want EXCEPT ![c] = name]
    /\ addr' = [addr EXCEPT ![c] = a]
    /\ issued' = [issued EXCEPT ![c] = life]
    /\ UNCHANGED <<up, life, to>>

AddrsOf(name) == {a \in Pool : hostOf[a] = name}
Unused        == AddrsOf(NoName)

\* Mutant: a pool that is used up gives its first address away again.
addrForHostRecycling(name) ==
    IF AddrsOf(name) # {} THEN CHOOSE a \in AddrsOf(name) : TRUE
    ELSE IF Unused # {} THEN CHOOSE a \in Unused : TRUE
    ELSE 1

\* 0 when there is none.
addrForHost(name) ==
    IF AddrsOf(name) # {} THEN CHOOSE a \in AddrsOf(name) : TRUE
    ELSE IF Unused # {} THEN CHOOSE a \in Unused : TRUE
    ELSE NoAddr

\* Mutant: the error of a pool that is used up is ignored.
AnswerUnchecked(c, name) ==
    LET a == addrForHost(name) IN
    /\ up /\ matches(name)
    /\ Answered(c, name, a)
    /\ hostOf' = [hostOf EXCEPT ![a] = name]

AnswerTarget(c, name) ==
    LET a == addrForHost(name) IN
    /\ up /\ matches(name)
    /\ a # NoAddr
    /\ Answered(c, name, a)
    /\ hostOf' = [hostOf EXCEPT ![a] = name]

Forward(c, name) ==
    /\ up /\ ~matches(name)
    /\ Answered(c, name, Real)
    /\ UNCHANGED hostOf

\* With netd down, a resolver of the system's own may answer.
AnswerElsewhere(c, name) ==
    /\ ~up
    /\ Answered(c, name, Real)
    /\ UNCHANGED hostOf

Expire(c) ==
    /\ Moves(c, "resolved", "idle")
    /\ addr' = [addr EXCEPT ![c] = NoAddr]
    /\ UNCHANGED <<netd, want, issued, to>>

-----------------------------------------------------------------------------
(* netd.  Only fake addresses are routed to it; a flow it drops leaves the *)
(* client with its address.                                                *)

\* Mutant: an address of the prefix is enough.
JudgeFlowByPrefix(c) ==
    /\ up /\ addr[c] \in Pool
    /\ Moves(c, "resolved", "accepted")
    /\ UNCHANGED <<netd, want, addr, issued, to>>

JudgeFlow(c) ==
    /\ up /\ addr[c] \in Pool
    /\ hostOf[addr[c]] # NoName
    /\ Moves(c, "resolved", "accepted")
    /\ UNCHANGED <<netd, want, addr, issued, to>>

\* The lookup of the process may miss, or know too little: any verdict.
matchesProcess == BOOLEAN

NewConnectionEx(c) ==
    LET host == hostOf[addr[c]] IN
    \E matched \in matchesProcess :
        /\ up
        /\ Moves(c, "accepted",
                 IF host = NoName \/ ~matches(host) THEN "refused"
                 ELSE IF matched THEN "mitm" ELSE "piped")
        /\ to' = [to EXCEPT ![c] = IF stage'[c] = "piped" THEN host ELSE NoName]
        /\ UNCHANGED <<netd, want, addr, issued>>

\* The MITM or the upstream cannot be dialled.
DialFails(c) ==
    /\ up
    /\ Moves(c, "accepted", "refused")
    /\ UNCHANGED <<netd, want, addr, issued, to>>

-----------------------------------------------------------------------------
(* The MITM sees the Host of the request, which is what the client wants.  *)

ServeHTTP(c) ==
    /\ Moves(c, "mitm", IF hostAllowed(want[c]) THEN "served" ELSE "refused")
    /\ to' = [to EXCEPT ![c] = IF stage'[c] = "served" THEN want[c] ELSE NoName]
    /\ UNCHANGED <<netd, want, addr, issued>>

\* The address may be used again.
Close(c) ==
    /\ stage[c] \in {"piped", "served", "refused"}
    /\ stage' = [stage EXCEPT ![c] = "resolved"]
    /\ to' = [to EXCEPT ![c] = NoName]
    /\ UNCHANGED <<netd, want, addr, issued>>

-----------------------------------------------------------------------------
(* netd stops: the connections in its TUN end, its table is gone.          *)

StopNetd ==
    /\ up /\ up' = FALSE
    /\ life < MaxLives
    /\ hostOf' = [a \in Pool |-> NoName]
    /\ stage' = [c \in Clients |-> IF stage[c] = "idle" THEN "idle" ELSE "resolved"]
    /\ to' = [c \in Clients |-> NoName]
    /\ UNCHANGED <<life, want, addr, issued>>

StartNetd ==
    /\ ~up /\ up' = TRUE
    /\ life' = life + 1
    /\ UNCHANGED <<hostOf, stage, want, addr, issued, to>>

-----------------------------------------------------------------------------
Step(c) ==
    \/ \E name \in Names :
        \/ AnswerTarget(c, name)
        \/ Forward(c, name)
        \/ AnswerElsewhere(c, name)
    \/ Expire(c) \/ JudgeFlow(c) \/ NewConnectionEx(c) \/ DialFails(c)
    \/ ServeHTTP(c) \/ Close(c)

Next == StopNetd \/ StartNetd \/ \E c \in Clients : Step(c)

Spec == Init /\ [][Next]_vars

-----------------------------------------------------------------------------
(* Types; and a client has an address except when it has nothing.          *)
TypeOK ==
    /\ up \in BOOLEAN /\ life \in 1..MaxLives
    /\ hostOf \in [Pool -> Names \union {NoName}]
    /\ stage \in [Clients -> Stages]
    /\ want \in [Clients -> Names \union {NoName}]
    /\ addr \in [Clients -> Pool \union {NoAddr, Real}]
    /\ \A c \in Clients : addr[c] = NoAddr <=> stage[c] = "idle"
    /\ issued \in [Clients -> 0..life]
    /\ to \in [Clients -> Names \union {NoName}]

(* A flow JudgeFlow let in still has a target for its host when            *)
(* NewConnectionEx looks again (netd.go:201-209): its two refusals, made   *)
(* against a table that changed in between, are never needed.              *)
VerdictHolds ==
    \A c \in Clients : stage[c] = "accepted" => matches(hostOf[addr[c]])

(* Bytes go to the host the client asked for, unless netd was started anew *)
(* after the answer and the connection is passed through: the table gives  *)
(* no address twice, and what the MITM forwards goes by the request's own  *)
(* Host whatever address the client was using (proxy.go:92-94).            *)
ReachesWanted ==
    \A c \in Clients :
        to[c] # NoName /\ (stage[c] = "served" \/ issued[c] = life) => to[c] = want[c]

(* A name that is no target is never taken out of its own address: neither *)
(* netd nor the MITM has anything to do with its connection.               *)
OthersUntouched ==
    \A c \in Clients :
        want[c] \in Names /\ ~matches(want[c]) => stage[c] \in {"idle", "resolved"}

(* README.md:14: the implementation covers Vertex Gemini                   *)
(* "*-aiplatform.googleapis.com"; README.md:255: the suffix "matches       *)
(* Vertex region hosts".  So the MITM serves what netd captures for it.    *)
CapturedIsServed ==
    [][\A c \in Clients : ServeHTTP(c) => stage'[c] = "served"]_vars

=============================================================================
