--------------------------- MODULE CaptureProofs ----------------------------
(***************************************************************************)
(* Proofs about Capture: any number of connections, any targets and any    *)
(* allowlist, a pool of any size, and any number of starts of netd.        *)
(***************************************************************************)
EXTENDS Capture, TLAPS

(* The inductive invariant.  AddrInv: only targets are given a fake        *)
(* address.  TableInv: the table holds targets.  FreshInv: an answer of    *)
(* netd's present life is still in its table.  StageInv: what a connection *)
(* that netd has let in rests on.                                          *)

\* The bound on the starts is never reached by a netd that is down.
LifeInv == ~up => life < MaxLives

AddrInv ==
    \A c \in Clients :
        addr[c] \in Pool => want[c] \in Names /\ matches(want[c])

TableInv ==
    \A a \in Pool : hostOf[a] # NoName => matches(hostOf[a])

FreshInv ==
    \A c \in Clients :
        up /\ addr[c] \in Pool /\ issued[c] = life => hostOf[addr[c]] = want[c]

StageInv ==
    \A c \in Clients :
        /\ stage[c] \notin {"idle", "resolved"} => up /\ addr[c] \in Pool
        /\ stage[c] = "accepted" => hostOf[addr[c]] # NoName
        /\ to[c] # NoName => stage[c] \in {"piped", "served"}
        /\ stage[c] = "served" => to[c] = want[c]
        /\ stage[c] = "piped" /\ issued[c] = life => to[c] = want[c]

IInv == TypeOK /\ LifeInv /\ AddrInv /\ TableInv /\ FreshInv /\ StageInv

-----------------------------------------------------------------------------
LEMMA Numbers ==
    /\ PoolSize \in Nat /\ PoolSize >= 1
    /\ MaxLives \in Nat /\ MaxLives >= 1
    /\ NoAddr \notin Pool /\ Real \notin Pool /\ Real # NoAddr
    /\ NoName \notin Names
BY CaptureAssumption DEF Pool, NoAddr, Real

(* What the store tells: an address of the pool that holds the name asked  *)
(* for, or nothing.                                                        *)
LEMMA Told ==
    ASSUME NEW name \in Names, addrForHost(name) # NoAddr
    PROVE  addrForHost(name) \in Pool /\ hostOf[addrForHost(name)] \in {name, NoName}
BY DEF addrForHost, AddrsOf, Unused

(* Initially nobody has an address.                                        *)
LEMMA InitInv == Init => IInv
BY Numbers DEF Init, IInv, TypeOK, LifeInv, AddrInv, TableInv, FreshInv, StageInv, Stages

-----------------------------------------------------------------------------
(* One lemma for each step.                                                *)

LEMMA AnswerTargetInv ==
    ASSUME IInv, NEW c \in Clients, NEW name \in Names, AnswerTarget(c, name)
    PROVE  IInv'
<1> DEFINE a == addrForHost(name)
<1>1. /\ a \in Pool /\ hostOf[a] \in {name, NoName}
      /\ up /\ matches(name) /\ Answered(c, name, a)
      /\ hostOf' = [hostOf EXCEPT ![a] = name]
  BY Told DEF AnswerTarget
<1> HIDE DEF a
<1> USE <1>1, Numbers DEF IInv, Answered, Moves
<1>2. TypeOK' /\ LifeInv'
  BY DEF TypeOK, Stages, LifeInv
<1>3. AddrInv'
  BY DEF TypeOK, AddrInv
<1>4. TableInv'
  BY DEF TypeOK, TableInv
<1>5. FreshInv'
  BY DEF TypeOK, AddrInv, FreshInv
<1>6. StageInv'
  BY DEF TypeOK, StageInv
<1> QED
  BY <1>2, <1>3, <1>4, <1>5, <1>6

LEMMA RealAnswerInv ==
    ASSUME IInv, NEW c \in Clients, NEW name \in Names,
           Answered(c, name, Real), UNCHANGED hostOf
    PROVE  IInv'
<1> USE Numbers DEF IInv, Answered, Moves
<1>1. TypeOK' /\ LifeInv'
  BY DEF TypeOK, Stages, LifeInv
<1>2. AddrInv' /\ TableInv' /\ FreshInv'
  BY DEF TypeOK, AddrInv, TableInv, FreshInv
<1>3. StageInv'
  BY DEF TypeOK, StageInv
<1> QED
  BY <1>1, <1>2, <1>3

LEMMA ConnectionInv ==
    ASSUME IInv, NEW c \in Clients,
           \/ Expire(c) \/ JudgeFlow(c) \/ NewConnectionEx(c) \/ DialFails(c)
           \/ ServeHTTP(c) \/ Close(c)
    PROVE  IInv'
<1> USE Numbers DEF IInv, netd, Moves
<1>1. CASE Expire(c)
  BY <1>1 DEF Expire, TypeOK, Stages, LifeInv, AddrInv, TableInv, FreshInv, StageInv
<1>2. CASE JudgeFlow(c)
  BY <1>2 DEF JudgeFlow, TypeOK, Stages, LifeInv, AddrInv, TableInv, FreshInv, StageInv
<1>3. CASE NewConnectionEx(c)
  BY <1>3 DEF NewConnectionEx, TypeOK, Stages, LifeInv, AddrInv, TableInv, FreshInv, StageInv
<1>4. CASE DialFails(c)
  BY <1>4 DEF DialFails, TypeOK, Stages, LifeInv, AddrInv, TableInv, FreshInv, StageInv
<1>5. CASE ServeHTTP(c)
  BY <1>5 DEF ServeHTTP, TypeOK, Stages, LifeInv, AddrInv, TableInv, FreshInv, StageInv
<1>6. CASE Close(c)
  BY <1>6 DEF Close, TypeOK, Stages, LifeInv, AddrInv, TableInv, FreshInv, StageInv
<1> QED
  BY <1>1, <1>2, <1>3, <1>4, <1>5, <1>6

LEMMA NetdInv ==
    ASSUME IInv, StopNetd \/ StartNetd
    PROVE  IInv'
<1> USE Numbers DEF IInv
<1>1. CASE StopNetd
  BY <1>1 DEF StopNetd, TypeOK, Stages, LifeInv, AddrInv, TableInv, FreshInv, StageInv
<1>2. CASE StartNetd
  BY <1>2 DEF StartNetd, TypeOK, Stages, LifeInv, AddrInv, TableInv, FreshInv, StageInv
<1> QED
  BY <1>1, <1>2

LEMMA StutterInv ==
    ASSUME IInv, UNCHANGED vars
    PROVE  IInv'
BY DEF IInv, TypeOK, LifeInv, AddrInv, TableInv, FreshInv, StageInv, vars, netd

LEMMA StepInv == IInv /\ [Next]_vars => IInv'
<1> SUFFICES ASSUME IInv, [Next]_vars PROVE IInv'
  OBVIOUS
<1>1. CASE UNCHANGED vars
  BY <1>1, StutterInv
<1>2. CASE StopNetd \/ StartNetd
  BY <1>2, NetdInv
<1>3. ASSUME NEW c \in Clients, Step(c) PROVE IInv'
  <2>1. CASE \E name \in Names : AnswerTarget(c, name)
    BY <2>1, AnswerTargetInv
  <2>2. CASE \E name \in Names : Forward(c, name) \/ AnswerElsewhere(c, name)
    BY <2>2, RealAnswerInv DEF Forward, AnswerElsewhere
  <2>3. CASE \/ Expire(c) \/ JudgeFlow(c) \/ NewConnectionEx(c) \/ DialFails(c)
             \/ ServeHTTP(c) \/ Close(c)
    BY <2>3, ConnectionInv
  <2> QED
    BY <1>3, <2>1, <2>2, <2>3 DEF Step
<1> QED
  BY <1>1, <1>2, <1>3 DEF Next

LEMMA Invariance == Spec => []IInv
BY InitInv, StepInv, PTL DEF Spec

-----------------------------------------------------------------------------
(* Variables keep their types, and an address the client has came from an  *)
(* answer (net_dns.go:76-119).                                             *)
THEOREM TypeCorrect == Spec => []TypeOK
<1>1. IInv => TypeOK
  BY DEF IInv
<1> QED
  BY <1>1, Invariance, PTL

(* What JudgeFlow let in is still a target when NewConnectionEx looks it   *)
(* up: the two refusals at netd.go:201-209 are not needed.                 *)
THEOREM VerdictIsKept == Spec => []VerdictHolds
<1>1. IInv => VerdictHolds
  BY DEF IInv, TypeOK, TableInv, StageInv, VerdictHolds
<1> QED
  BY <1>1, Invariance, PTL

(* A passed-through connection with an answer of this life, and every      *)
(* connection the MITM serves, reaches the host it is for.                 *)
THEOREM BytesReachWanted == Spec => []ReachesWanted
<1>1. IInv => ReachesWanted
  BY DEF IInv, StageInv, ReachesWanted
<1> QED
  BY <1>1, Invariance, PTL

(* netd and the MITM have nothing to do with names that are no targets.    *)
THEOREM OthersLeftAlone == Spec => []OthersUntouched
<1>1. IInv => OthersUntouched
  BY DEF IInv, TypeOK, Stages, AddrInv, StageInv, OthersUntouched
<1> QED
  BY <1>1, Invariance, PTL

=============================================================================
