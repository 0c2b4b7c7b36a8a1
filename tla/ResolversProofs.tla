-------------------------- MODULE ResolversProofs ---------------------------
(***************************************************************************)
(* Proofs about Resolvers: any domains and configurations, any number of   *)
(* edits, faults and files of other programs, and any number of commands   *)
(* of the user.                                                            *)
(***************************************************************************)
EXTENDS Resolvers, TLAPS

In(d, s) == \E i \in DOMAIN s : s[i] = d

\* A list is its head and its tail.
LEMMA InNothing == \A d : ~In(d, <<>>)
BY DEF In

LEMMA InSeq ==
    ASSUME NEW s \in Seq(Domains), s # <<>>
    PROVE  /\ Head(s) \in Domains /\ Tail(s) \in Seq(Domains)
           /\ In(Head(s), s)
           /\ \A d : In(d, s) <=> d = Head(s) \/ In(d, Tail(s))
<1>1. Len(s) \in Nat /\ Len(s) > 0 /\ DOMAIN s = 1..Len(s)
  OBVIOUS
<1>2. Head(s) = s[1] /\ Head(s) \in Domains /\ Tail(s) \in Seq(Domains)
  BY <1>1
<1>3. DOMAIN Tail(s) = 1..(Len(s) - 1)
  BY <1>1
<1>4. \A i \in 1..(Len(s) - 1) : Tail(s)[i] = s[i + 1]
  BY <1>1
<1>5. ASSUME NEW d, In(d, s)
      PROVE  d = Head(s) \/ In(d, Tail(s))
  <2>1. PICK i \in DOMAIN s : s[i] = d
    BY <1>5 DEF In
  <2>2. CASE i = 1
    BY <2>1, <2>2, <1>2
  <2>3. CASE i # 1
    <3>1. i - 1 \in 1..(Len(s) - 1) /\ (i - 1) + 1 = i
      BY <2>1, <2>3, <1>1
    <3>2. Tail(s)[i - 1] = d
      BY <3>1, <2>1, <1>4
    <3> QED
      BY <3>1, <3>2, <1>3 DEF In
  <2> QED
    BY <2>2, <2>3
<1>6. In(Head(s), s)
  BY <1>1, <1>2 DEF In
<1>7. ASSUME NEW d, In(d, Tail(s))
      PROVE  In(d, s)
  <2>1. PICK i \in 1..(Len(s) - 1) : Tail(s)[i] = d
    BY <1>7, <1>3 DEF In
  <2>2. i + 1 \in DOMAIN s /\ s[i + 1] = d
    BY <2>1, <1>1, <1>4
  <2> QED
    BY <2>2 DEF In
<1> QED
  BY <1>2, <1>5, <1>6, <1>7

-----------------------------------------------------------------------------
(* The inductive invariant.                                                *)

Starting == pc \in {"listen", "check", "open", "write"}

\* netd will still come by the file of d with its cleanup.
Covers(d) ==
    \/ Starting /\ In(d, mine)
    \/ pc \in {"run", "close"} /\ In(d, mine)
    \/ pc \in {"sweep", "remove"} /\ In(d, todo)

\* An `off` that removes files has taken the job out, or is known not to have.
LoadInv == cli \in {"sweep", "remove"} => ~loaded \/ stuck

\* What a start has still to install is part of its configuration.
OwnInv == Starting => \A d \in Domains : In(d, todo) => In(d, mine)

\* Without a crash or a failing call, every file of hitman's is one that netd
\* will clean up.
MarkInv == faults = 0 /\ missed = 0 => \A d \in Domains : Marked(d) => Covers(d)

\* What a start has already passed stays in place while it is to run.
InstInv ==
    loaded /\ ~stuck /\ foreign = 0 =>
        \A d \in Domains : In(d, mine) =>
            /\ Starting => Marked(d) \/ In(d, todo)
            /\ pc = "run" => Marked(d)

IInv == TypeOK /\ LoadInv /\ OwnInv /\ MarkInv /\ InstInv

LEMMA Numbers ==
    /\ MaxEdits \in Nat /\ MaxFaults \in Nat /\ MaxMissed \in Nat /\ MaxForeign \in Nat
    /\ Lists \subseteq Seq(Domains) /\ <<>> \in Seq(Domains)
BY ResolversAssumption

\* The head and the tail of the lists that the loops go through.
LEMMA Loops ==
    ASSUME TypeOK
    PROVE  /\ todo # <<>> =>
                /\ Head(todo) \in Domains /\ Tail(todo) \in Seq(Domains)
                /\ In(Head(todo), todo)
                /\ \A d : In(d, todo) <=> d = Head(todo) \/ In(d, Tail(todo))
           /\ left # <<>> =>
                /\ Head(left) \in Domains /\ Tail(left) \in Seq(Domains)
                /\ In(Head(left), left)
                /\ \A d : In(d, left) <=> d = Head(left) \/ In(d, Tail(left))
BY InSeq DEF TypeOK

\* A file that is passed over is counted.
LEMMA Misses ==
    ASSUME TypeOK, Miss \/ UNCHANGED missed
    PROVE  /\ missed' \in 0..MaxMissed
           /\ missed' = 0 => missed = 0 /\ ~Miss
BY Numbers DEF Miss, TypeOK

LEMMA InitInv == Init => IInv
<1> SUFFICES ASSUME Init PROVE IInv
  OBVIOUS
<1>1. TypeOK
  <2>1. file \in [Domains -> {"absent", "hitman", "empty", "foreign"}]
    BY DEF Init
  <2>2. todo \in Seq(Domains) /\ left \in Seq(Domains)
    BY Numbers DEF Init
  <2>3. /\ edits \in 0..MaxEdits /\ faults \in 0..MaxFaults
        /\ missed \in 0..MaxMissed /\ foreign \in 0..MaxForeign
    BY Numbers DEF Init
  <2> QED
    BY <2>1, <2>2, <2>3 DEF Init, TypeOK
<1>2. LoadInv /\ OwnInv /\ MarkInv /\ InstInv
  BY DEF Init, LoadInv, OwnInv, MarkInv, InstInv, Starting, Marked
<1> QED
  BY <1>1, <1>2 DEF IInv

-----------------------------------------------------------------------------
(* One lemma for each group of steps.                                      *)

LEMMA StartInv ==
    ASSUME IInv,
           Launch \/ Listen \/ Check \/ Open \/ Write \/ WriteFails \/ Plumb
    PROVE  IInv'
<1> USE Numbers, Loops, InNothing
    DEF IInv, Fail, Free, netd, world, others,
        TypeOK, LoadInv, OwnInv, MarkInv, InstInv, Starting, Covers, Marked
<1>1. CASE Launch
  BY <1>1 DEF Launch
<1>2. CASE Listen
  BY <1>2 DEF Listen
<1>3. CASE Check
  <2> USE <1>3 DEF Check
  <2>1. missed' \in 0..MaxMissed /\ (missed' = 0 => missed = 0 /\ ~Miss)
    BY Misses
  <2>2. TypeOK' /\ LoadInv'
    BY <2>1
  <2>3. OwnInv' /\ MarkInv'
    BY <2>1
  <2>4. InstInv'
    BY <2>1
  <2> QED
    BY <2>2, <2>3, <2>4
<1>4. CASE Open
  BY <1>4 DEF Open
<1>5. CASE Write
  BY <1>5 DEF Write
<1>6. CASE WriteFails
  BY <1>6 DEF WriteFails
<1>7. CASE Plumb
  BY <1>7 DEF Plumb
<1> QED
  BY <1>1, <1>2, <1>3, <1>4, <1>5, <1>6, <1>7

LEMMA EndInv ==
    ASSUME IInv, Heed \/ Close \/ Sweep \/ Remove \/ Kill
    PROVE  IInv'
<1> USE Numbers, Loops, InNothing
    DEF IInv, netd, world, others,
        TypeOK, LoadInv, OwnInv, MarkInv, InstInv, Starting, Covers, Marked
<1>1. CASE Heed
  BY <1>1 DEF Heed
<1>2. CASE Close
  BY <1>2 DEF Close
<1>3. CASE Sweep
  <2> USE <1>3 DEF Sweep
  <2>1. missed' \in 0..MaxMissed /\ (missed' = 0 => missed = 0 /\ ~Miss)
    BY Misses
  <2>2. TypeOK' /\ LoadInv'
    BY <2>1
  <2>3. OwnInv' /\ MarkInv'
    BY <2>1
  <2>4. InstInv'
    BY <2>1
  <2> QED
    BY <2>2, <2>3, <2>4
<1>4. CASE Remove
  <2> USE <1>4 DEF Remove
  <2>1. missed' \in 0..MaxMissed /\ (missed' = 0 => missed = 0 /\ ~Miss)
    BY Misses
  <2>2. TypeOK' /\ LoadInv'
    BY <2>1
  <2>3. OwnInv' /\ MarkInv'
    BY <2>1
  <2>4. InstInv'
    BY <2>1
  <2> QED
    BY <2>2, <2>3, <2>4
<1>5. CASE Kill
  BY <1>5 DEF Kill
<1> QED
  BY <1>1, <1>2, <1>3, <1>4, <1>5

LEMMA BootInv ==
    ASSUME IInv, Bootstrap \/ Kickstart
    PROVE  IInv'
<1> USE Numbers DEF IInv, netd
<1>1. CASE Bootstrap
  <2>1. TypeOK' /\ LoadInv'
    BY <1>1 DEF Bootstrap, TypeOK, LoadInv
  <2>2. OwnInv' /\ MarkInv'
    BY <1>1 DEF Bootstrap, TypeOK, OwnInv, MarkInv, Starting, Covers, Marked
  <2>3. InstInv'
    BY <1>1 DEF Bootstrap, TypeOK, InstInv, Starting, Marked
  <2> QED
    BY <2>1, <2>2, <2>3
<1>2. CASE Kickstart
  <2> USE <1>2 DEF Kickstart
  <2>1. faults' \in 0..MaxFaults /\ pc' \in {pc, "down"} /\ stop' \in BOOLEAN
    <3>1. CASE UNCHANGED faults
      BY <3>1 DEF TypeOK
    <3>2. CASE /\ faults < MaxFaults /\ faults' = faults + 1
               /\ UNCHANGED stop /\ pc' = "down"
      BY <3>2 DEF TypeOK
    <3> QED
      BY <3>1, <3>2
  <2>2. TypeOK' /\ LoadInv'
    BY <2>1 DEF TypeOK, LoadInv
  <2>3. OwnInv' /\ MarkInv'
    BY <2>1 DEF TypeOK, OwnInv, MarkInv, Starting, Covers, Marked
  <2>4. InstInv'
    BY <2>1 DEF TypeOK, InstInv, Starting, Marked
  <2> QED
    BY <2>2, <2>3, <2>4
<1> QED
  BY <1>1, <1>2

LEMMA CommandInv ==
    ASSUME IInv, Command
    PROVE  IInv'
<1> USE Numbers, Loops, InNothing
    DEF IInv, netd, Bootout, Waiting,
        TypeOK, LoadInv, OwnInv, MarkInv, InstInv, Starting, Covers, Marked
<1>1. CASE Off
  <2> USE <1>1 DEF Off
  <2>1. TypeOK' /\ LoadInv'
    OBVIOUS
  <2>2. OwnInv' /\ MarkInv'
    OBVIOUS
  <2>3. InstInv'
    OBVIOUS
  <2> QED
    BY <2>1, <2>2, <2>3
<1>2. CASE OffSweep
  <2> USE <1>2 DEF OffSweep
  <2>1. missed' \in 0..MaxMissed /\ (missed' = 0 => missed = 0 /\ ~Miss)
    BY Misses
  <2>2. TypeOK' /\ LoadInv'
    BY <2>1
  <2>3. OwnInv' /\ MarkInv'
    BY <2>1
  <2>4. InstInv'
    BY <2>1
  <2> QED
    BY <2>2, <2>3, <2>4
<1>3. CASE OffRemove
  <2> USE <1>3 DEF OffRemove
  <2>1. TypeOK' /\ LoadInv'
    OBVIOUS
  <2>2. OwnInv' /\ MarkInv'
    OBVIOUS
  <2>3. InstInv'
    OBVIOUS
  <2> QED
    BY <2>1, <2>2, <2>3
<1>4. CASE On
  <2> USE <1>4 DEF On
  <2>1. TypeOK' /\ LoadInv'
    OBVIOUS
  <2>2. OwnInv' /\ MarkInv'
    OBVIOUS
  <2>3. InstInv'
    OBVIOUS
  <2> QED
    BY <2>1, <2>2, <2>3
<1> QED
  BY <1>1, <1>2, <1>3, <1>4, BootInv DEF Command

LEMMA OutsideInv ==
    ASSUME IInv, Edit \/ (\E d \in Domains : ForeignWrite(d)) \/ UNCHANGED vars
    PROVE  IInv'
<1> USE Numbers, Loops
    DEF IInv, netd, world, others,
        TypeOK, LoadInv, OwnInv, MarkInv, InstInv, Starting, Covers, Marked
<1>1. CASE Edit
  BY <1>1 DEF Edit
<1>2. ASSUME NEW e \in Domains, ForeignWrite(e)
      PROVE  IInv'
  BY <1>2 DEF ForeignWrite
<1>3. CASE UNCHANGED vars
  BY <1>3 DEF vars
<1> QED
  BY <1>1, <1>2, <1>3

LEMMA NextInv ==
    ASSUME IInv, [Next]_vars
    PROVE  IInv'
BY StartInv, EndInv, CommandInv, OutsideInv DEF Next, Daemon

-----------------------------------------------------------------------------
(* What `off` rests on when the configuration stays as it is: every file   *)
(* of hitman's is named by it, and is one that the command, or netd, will  *)
(* still come by.                                                          *)

OffInv ==
    edits = 0 =>
        /\ pc # "down" => mine = config
        /\ \A d \in Domains : Marked(d) => In(d, config)
        /\ cli \in {"sweep", "remove", "off"} /\ ~loaded /\ missed = 0 =>
             \A d \in Domains : Marked(d) =>
                 Covers(d) \/ (cli # "off" /\ In(d, left))

LEMMA OffInit == Init => OffInv
BY DEF Init, OffInv, Marked

LEMMA OffStart ==
    ASSUME IInv, OffInv,
           Launch \/ Listen \/ Check \/ Open \/ Write \/ WriteFails \/ Plumb
    PROVE  OffInv'
<1> USE Loops DEF IInv, OffInv, Fail, Free, netd, world, others, Starting, Covers, Marked
<1>1. CASE Launch
  BY <1>1 DEF Launch, TypeOK, LoadInv
<1>2. CASE Listen
  BY <1>2 DEF Listen
<1>3. CASE Check
  BY <1>3 DEF Check
<1>4. CASE Open
  BY <1>4 DEF Open, TypeOK
<1>5. CASE Write
  BY <1>5 DEF Write, TypeOK, OwnInv
<1>6. CASE WriteFails
  BY <1>6 DEF WriteFails
<1>7. CASE Plumb
  BY <1>7 DEF Plumb
<1> QED
  BY <1>1, <1>2, <1>3, <1>4, <1>5, <1>6, <1>7

LEMMA OffEnd ==
    ASSUME IInv, OffInv, Heed \/ Close \/ Sweep \/ Remove \/ Kill
    PROVE  OffInv'
<1> USE Loops, InNothing DEF IInv, OffInv, netd, world, others, Starting, Covers, Marked
<1>1. CASE Heed
  BY <1>1 DEF Heed
<1>2. CASE Close
  BY <1>2 DEF Close
<1>3. CASE Sweep
  <2>1. missed' = 0 => missed = 0 /\ ~Miss
    BY <1>3, Misses DEF Sweep
  <2> QED
    BY <1>3, <2>1 DEF Sweep
<1>4. CASE Remove
  <2>1. missed' = 0 => missed = 0 /\ ~Miss
    BY <1>4, Misses DEF Remove
  <2> QED
    BY <1>4, <2>1 DEF Remove, TypeOK
<1>5. CASE Kill
  BY <1>5 DEF Kill, LoadInv
<1> QED
  BY <1>1, <1>2, <1>3, <1>4, <1>5

LEMMA OffCommand ==
    ASSUME IInv, OffInv, Command
    PROVE  OffInv'
<1> USE Loops, InNothing
    DEF IInv, OffInv, netd, Starting, Covers, Marked, Bootout, Waiting
<1>1. CASE Off
  BY <1>1 DEF Off
<1>2. CASE OffSweep
  <2>1. missed' = 0 => missed = 0 /\ ~Miss
    BY <1>2, Misses DEF OffSweep
  <2> QED
    BY <1>2, <2>1 DEF OffSweep
<1>3. CASE OffRemove
  BY <1>3 DEF OffRemove, TypeOK
<1>4. CASE On
  BY <1>4 DEF On
<1>5. CASE Bootstrap
  BY <1>5 DEF Bootstrap
<1>6. CASE Kickstart
  BY <1>6 DEF Kickstart
<1> QED
  BY <1>1, <1>2, <1>3, <1>4, <1>5, <1>6 DEF Command

LEMMA OffOutside ==
    ASSUME IInv, OffInv,
           Edit \/ (\E d \in Domains : ForeignWrite(d)) \/ UNCHANGED vars
    PROVE  OffInv'
<1> USE DEF IInv, OffInv, netd, world, others, Starting, Covers, Marked
<1>1. CASE Edit
  BY <1>1, Numbers DEF Edit, TypeOK
<1>2. ASSUME NEW e \in Domains, ForeignWrite(e)
      PROVE  OffInv'
  BY <1>2 DEF ForeignWrite, TypeOK
<1>3. CASE UNCHANGED vars
  BY <1>3 DEF vars
<1> QED
  BY <1>1, <1>2, <1>3

LEMMA OffNext ==
    ASSUME IInv, OffInv, [Next]_vars
    PROVE  OffInv'
BY OffStart, OffEnd, OffCommand, OffOutside DEF Next, Daemon

-----------------------------------------------------------------------------
(* What the checks of a file are worth when no other program writes one    *)
(* between the check and the write, or the removal.                        *)

CheckedInv ==
    foreign = 0 /\ missed = 0 =>
        /\ pc \in {"open", "write", "remove"} => file[Head(todo)] # "foreign"
        /\ cli = "remove" => file[Head(left)] # "foreign"

ForeignStep == \A d \in Domains : file[d] = "foreign" => file'[d] = "foreign"

LEMMA CheckedInit == Init => CheckedInv
BY DEF Init, CheckedInv

LEMMA CheckedNext ==
    ASSUME IInv, CheckedInv, [Next]_vars
    PROVE  CheckedInv' /\ (foreign = 0 /\ missed = 0 => ForeignStep)
<1> USE Loops DEF IInv, CheckedInv, ForeignStep, netd, world, others, Marked, Free, Fail
<1>1. CASE Open \/ Write \/ OffRemove
  BY <1>1 DEF Open, Write, OffRemove, TypeOK
<1>2. CASE Launch \/ Listen \/ WriteFails \/ Plumb \/ Heed \/ Close \/ Kill
  BY <1>2 DEF Launch, Listen, WriteFails, Plumb, Heed, Close, Kill
<1>3. CASE Off \/ On \/ Bootstrap \/ Kickstart
  BY <1>3 DEF Off, On, Bootstrap, Kickstart, Bootout, Waiting
<1>4. CASE Check \/ Sweep \/ Remove \/ OffSweep
  <2>1. missed' = 0 => missed = 0 /\ ~Miss
    BY <1>4, Misses DEF Check, Sweep, Remove, OffSweep
  <2>2. CASE Check
    BY <2>1, <2>2 DEF Check
  <2>3. CASE Sweep
    BY <2>1, <2>3 DEF Sweep
  <2>4. CASE Remove
    BY <2>1, <2>4 DEF Remove, TypeOK
  <2>5. CASE OffSweep
    BY <2>1, <2>5 DEF OffSweep
  <2> QED
    BY <1>4, <2>2, <2>3, <2>4, <2>5
<1>5. CASE Edit \/ UNCHANGED vars
  BY <1>5 DEF Edit, vars
<1>6. ASSUME NEW e \in Domains, ForeignWrite(e)
      PROVE  CheckedInv' /\ (foreign = 0 /\ missed = 0 => ForeignStep)
  BY <1>6, Numbers DEF ForeignWrite, TypeOK
<1> QED
  BY <1>1, <1>2, <1>3, <1>4, <1>5, <1>6 DEF Next, Daemon, Command

-----------------------------------------------------------------------------
(* The theorems.                                                           *)

LEMMA Invariant == Spec => []IInv /\ []OffInv /\ []CheckedInv
<1>1. Init => IInv /\ OffInv /\ CheckedInv
  BY InitInv, OffInit, CheckedInit
<1>2. IInv /\ OffInv /\ CheckedInv /\ [Next]_vars
          => (IInv /\ OffInv /\ CheckedInv)'
  BY NextInv, OffNext, CheckedNext
<1> QED
  BY <1>1, <1>2, PTL DEF Spec

\* The variables keep their types (netd.go, resolver_darwin.go, control.go).
THEOREM TypeCorrect == Spec => []TypeOK
<1>1. IInv => TypeOK
  BY DEF IInv
<1> QED
  BY <1>1, Invariant, PTL

\* A netd that ended without a crash, and could read and remove its files, has
\* left no resolver file that points at it, whatever was done to the
\* configuration in the meantime: Close goes by the domains of its own start
\* (netd.go, resolver_darwin.go).
THEOREM EndedIsClean == Spec => []DownMeansClean
<1>1. IInv => DownMeansClean
  BY DEF IInv, MarkInv, DownMeansClean, Covers, Starting
<1> QED
  BY <1>1, Invariant, PTL

\* A netd that is to run has all its resolver files in place: the cleanups
\* of earlier commands and processes are over.  Only an `off` whose bootout
\* failed takes them from under it (control.go:203), until its next start.
THEOREM UpIsInstalled == Spec => []UpMeansInstalled
<1>1. IInv => UpMeansInstalled
  <2> SUFFICES ASSUME IInv, pc = "run", loaded, ~stuck, foreign = 0,
                      NEW i \in DOMAIN mine
               PROVE  Marked(mine[i])
    BY DEF UpMeansInstalled
  <2>1. mine \in Seq(Domains)
    BY Numbers DEF IInv, TypeOK
  <2>2. mine[i] \in Domains /\ In(mine[i], mine)
    BY <2>1 DEF In
  <2> QED
    BY <2>2 DEF IInv, InstInv
<1> QED
  BY <1>1, Invariant, PTL

\* An `off` that took the job out leaves no resolver file of hitman's once netd
\* is gone, unless a file could not be read or removed, or the configuration was
\* edited and netd also crashed: each of these two alone does no harm
\* (control.go, cleanupManagedResolverFiles; netd.go, Close).
THEOREM OffLeavesNothing == Spec => []OffCleansButOrphans
<1>1. IInv /\ OffInv => OffCleansButOrphans
  <2> SUFFICES ASSUME IInv, OffInv, cli = "off", ~loaded, pc = "down",
                      missed = 0, edits = 0 \/ faults = 0
               PROVE  \A d \in Domains : ~Marked(d)
    BY DEF OffCleansButOrphans, OffCleans
  <2>1. CASE edits = 0
    BY <2>1 DEF OffInv, Covers, Starting
  <2>2. CASE faults = 0
    BY <2>2 DEF IInv, MarkInv, Covers, Starting
  <2> QED
    BY <2>1, <2>2
<1> QED
  BY <1>1, Invariant, PTL

\* A resolver file that another program wrote before, and that can be read, stays
\* as it is, in every interleaving of netd, its crashes, the commands and edits of the
\* configuration (resolver_darwin.go, installResolvers, cleanupResolvers).
THEOREM ForeignIsKept == Spec => ForeignKeptButRaces
<1>1. IInv /\ CheckedInv /\ [Next]_vars => [foreign = 0 /\ missed = 0 => ForeignStep]_vars
  BY CheckedNext
<1>2. Spec => [][foreign = 0 /\ missed = 0 => ForeignStep]_vars
  BY <1>1, Invariant, PTL DEF Spec
<1> QED
  BY <1>2, PTL DEF ForeignKeptButRaces, ForeignStep

=============================================================================
