---------------------------- MODULE DeployProofs ----------------------------
(***************************************************************************)
(* Theorems about module Deploy, for every set of places, releases and     *)
(* configurations, and any number of commands and of faults: what launchd  *)
(* may start is whole whatever was killed, and a command that reports      *)
(* success has done what it was asked for.                                 *)
(*                                                                         *)
(* The argument: the steps of every command come in one order (Rank), so   *)
(* that a step that is not ahead is done, or was never needed; and what a  *)
(* done step has brought stays, since the steps that could undo it come    *)
(* before it.  IInv says, for each step, what holds once it is not ahead.  *)
(***************************************************************************)
EXTENDS Deploy, TLAPS

-----------------------------------------------------------------------------
(* The steps to go.                                                        *)

\* The order of the steps: whatever the command, they come in this one.
RankOf(what, s) ==
    LET later == IF s = "net" THEN 10 ELSE 0
    IN  CASE what = "write-tmp"    -> 1
          [] what = "rename-tmp"   -> 2
          [] what = "if-installed" -> later + 3
          [] what = "cut-root"     -> later + 4
          [] what = "copy-root"    -> later + 5
          [] what = "plist"        -> later + 6
          [] what = "bootout"      -> later + 7
          [] what = "bootstrap"    -> later + 8
          [] what = "loaded?"      -> later + 9
          [] what = "kickstart"    -> later + 10
          [] what = "unplist"      -> later + 21
          [] what = "remove-root"  -> 32
          [] what = "download"     -> 33
          [] what = "verify"       -> 34
          [] what = "cut-new"      -> 35
          [] what = "copy-new"     -> 36
          [] what = "rename-new"   -> 37
          [] what = "copy-by-hand" -> 38
          [] OTHER                 -> 39

Rank(step) == RankOf(step.do, step.on)

Sorted(q) == \A i, j \in DOMAIN q : i < j => Rank(q[i]) < Rank(q[j])

\* A step of this kind for this service is among those of q.
In(q, what, s) == \E i \in DOMAIN q : q[i].do = what /\ q[i].on = s

Ahead(what, s) == In(todo, what, s)

Starting == {"bootout", "bootstrap", "loaded?", "kickstart"}
Installing == {"cut-root", "copy-root", "plist"} \union Starting

\* The kinds of steps of a command.
KindsOf(c) ==
    CASE c = "install" -> Installing
      [] c = "restart" -> {"if-installed", "cut-root", "copy-root"} \union Starting
      [] c = "off" -> {"bootout"}
      [] c = "uninstall" -> {"bootout", "unplist", "remove-root"}
      [] c = "upstream" -> {"write-tmp", "rename-tmp", "if-installed"} \union Installing
      [] c = "update" -> {"download", "verify", "cut-new", "copy-new", "rename-new", "copy-by-hand"}
      [] OTHER -> {}

\* What a command does with a service that is installed.
Restarted == installRootDaemonBinary \o StartService("net")
Nested(c, s) ==
    IF s = "user" THEN cmdInstallUser ELSE IF c = "restart" THEN Restarted ELSE cmdInstallNet

\* The steps that a command may have.
StepsFor(c) ==
    {step \in [do : Steps, on : Services, then : {<<>>, cmdInstallUser, cmdInstallNet, Restarted}] :
        /\ step.do \in KindsOf(c)
        /\ step.do = "if-installed" => step.then = Nested(c, step.on)
        /\ step.do \in {"cut-root", "copy-root", "remove-root"} => step.on = "net"
        /\ step.do \in {"write-tmp", "rename-tmp", "download", "verify", "cut-new",
                        "copy-new", "rename-new", "copy-by-hand"} => step.on = "user"}

Starts == command \in {"install", "restart", "upstream"}

TodoInv == todo \in Seq(StepsFor(command)) /\ Sorted(todo)

\* What is begun is ahead to its end; and nothing of what is done only with an
\* installed service is ahead before it is known to be one.
ChainInv ==
    Starts =>
        /\ \A s \in Services :
              /\ \A what \in Installing : Ahead(what, s) => Ahead("kickstart", s)
              /\ Ahead("plist", s) => Ahead("bootout", s)
              /\ Ahead("if-installed", s) => \A what \in Installing : ~Ahead(what, s)
              /\ Ahead("rename-tmp", "user") => Ahead("if-installed", s)
        /\ Ahead("cut-root", "net") => Ahead("copy-root", "net")
        /\ Ahead("write-tmp", "user") => Ahead("rename-tmp", "user")
        /\ command = "restart" => ~Ahead("if-installed", "user")
        /\ command = "install" => \A s \in Services : ~Ahead("if-installed", s)

-----------------------------------------------------------------------------
(* What the steps that are done have brought.                              *)

\* A job names a place; and the user's is never started from root's.
PathInv == path["user"] # Root /\ \A s \in Services : job[s] = "in" => path[s] # NoPlace

\* s is to be started by the command, or was.
Engaged(s) == plist[s] # NoPlace \/ (command = "restart" /\ s = "user")

\* s is loaded, from its plist, and runs what launchd can start of what is on
\* the disk, be it nothing.
Fresh(s) == LaunchdHas(s) /\ proc[s] = Started(path[s])

\* A job that was booted out comes back from the plist that is there.
JobInv(s) ==
    /\ (Engaged(s) \/ Ahead("kickstart", s)) /\ s \notin stuck
       /\ ~Ahead("bootout", s) /\ ~Ahead("if-installed", s)
          => (job[s] = "in" => path[s] = plist[s])
    /\ Engaged(s) /\ s \notin stuck
       /\ ~Ahead("kickstart", s) /\ ~Ahead("if-installed", s)
          => Fresh(s)

\* The user's plist names the place that the command was started from.
PlistInv ==
    ~Ahead("plist", "user") /\ ~Ahead("if-installed", "user") /\ command # "restart"
        /\ plist["user"] # NoPlace => plist["user"] = exe

\* Root's copy is what the command was started from.
RootInv ==
    ~Ahead("copy-root", "net") /\ ~Ahead("if-installed", "net")
        /\ (plist["net"] # NoPlace \/ command = "install") => bin[Root] = bin[exe]

\* What install has installed is there; what upstream installs was there.
PresentInv ==
    \A s \in Services :
        /\ command = "install" /\ ~Ahead("plist", s) => plist[s] # NoPlace
        /\ command = "upstream" /\ Ahead("plist", s) => plist[s] # NoPlace

StartInv == Starts => (\A s \in Services : JobInv(s)) /\ PlistInv /\ RootInv /\ PresentInv

ConfigInv ==
    command = "upstream" =>
        /\ arg \in Configs
        /\ Ahead("rename-tmp", "user") /\ ~Ahead("write-tmp", "user") => tmp = arg
        /\ ~Ahead("rename-tmp", "user") => config = arg

StopInv ==
    /\ command \in {"off", "uninstall"} =>
          \A s \in Services :
              (s = "net" \/ command = "uninstall") /\ ~Ahead("bootout", s) /\ s \notin stuck
                  => job[s] # "in"
    /\ command = "uninstall" /\ ~Ahead("unplist", "user") => plist["user"] = NoPlace

UpdateInv ==
    command = "update" =>
        /\ arg \in Versions
        /\ Ahead("download", "user") => Ahead("verify", "user")
        /\ Ahead("verify", "user") \/ Ahead("cut-new", "user") => Ahead("copy-new", "user")
        /\ ~Ahead("download", "user") => archive \in {arg, Damaged}
        /\ ~Ahead("verify", "user") => archive = arg
        /\ Ahead("rename-new", "user") /\ ~Ahead("copy-new", "user") => new = archive
        /\ ~Ahead("rename-new", "user") /\ ~Ahead("copy-by-hand", "user") => bin[exe] = arg

DoneInv == StartInv /\ ConfigInv /\ StopInv /\ UpdateInv

IInv == TypeOK /\ NothingTorn /\ PathInv /\ TodoInv /\ ChainInv /\ DoneInv

\* Only an update touches the binary that it was started from; and netd's plist
\* names root's copy.
OwnInv == (Starts => bin[exe] \in Versions) /\ plist["net"] \in {NoPlace, Root}

-----------------------------------------------------------------------------
(* Lemmas about sequences of steps.                                        *)

\* A rank is a number.
LEMMA RankType == \A what, s : RankOf(what, s) \in Int /\ 1 <= RankOf(what, s) /\ RankOf(what, s) <= 39
BY DEF RankOf

\* The first of some steps is among them, and is of the command's.
LEMMA First ==
    ASSUME NEW c, NEW q \in Seq(StepsFor(c)), q # <<>>
    PROVE  Head(q) \in StepsFor(c) /\ In(q, Head(q).do, Head(q).on)
<1>1. 1 \in DOMAIN q /\ Head(q) = q[1] OBVIOUS
<1> QED BY <1>1 DEF In

\* The others come after it.
LEMMA Behind ==
    ASSUME NEW c, NEW q \in Seq(StepsFor(c)), Sorted(q), q # <<>>,
           NEW what, NEW s, In(q, what, s), what # Head(q).do \/ s # Head(q).on
    PROVE  RankOf(Head(q).do, Head(q).on) < RankOf(what, s)
<1>1. PICK i \in DOMAIN q : q[i].do = what /\ q[i].on = s BY DEF In
<1>2. 1 \in DOMAIN q /\ Head(q) = q[1] /\ DOMAIN q = 1..Len(q) OBVIOUS
<1>3. 1 < i BY <1>1, <1>2
<1> QED BY <1>1, <1>2, <1>3 DEF Sorted, Rank

\* When the first is done the others are left.
LEMMA Dropped ==
    ASSUME NEW c, NEW q \in Seq(StepsFor(c)), Sorted(q), q # <<>>
    PROVE  /\ Tail(q) \in Seq(StepsFor(c)) /\ Sorted(Tail(q))
           /\ \A what, s :
                In(Tail(q), what, s) <=> In(q, what, s) /\ ~(what = Head(q).do /\ s = Head(q).on)
<1>1. /\ Tail(q) \in Seq(StepsFor(c)) /\ DOMAIN q = 1..Len(q) /\ Len(q) \in Nat \ {0}
      /\ DOMAIN Tail(q) = 1..(Len(q) - 1) /\ Head(q) = q[1]
      OBVIOUS
<1>2. \A i \in DOMAIN Tail(q) : i + 1 \in DOMAIN q /\ Tail(q)[i] = q[i + 1] BY <1>1
<1>3. Sorted(Tail(q)) BY <1>1, <1>2 DEF Sorted
<1>4. ASSUME NEW what, NEW s, In(Tail(q), what, s)
      PROVE  In(q, what, s) /\ ~(what = Head(q).do /\ s = Head(q).on)
  <2>1. PICK i \in DOMAIN Tail(q) : Tail(q)[i].do = what /\ Tail(q)[i].on = s
        BY <1>4 DEF In
  <2>2. i + 1 \in DOMAIN q /\ 1 \in DOMAIN q /\ 1 < i + 1 BY <2>1, <1>1
  <2>3. q[i + 1].do = what /\ q[i + 1].on = s BY <2>1, <1>2
  <2>4. Rank(q[1]) < RankOf(what, s) BY <2>2, <2>3 DEF Sorted, Rank
  <2>5. ~(what = Head(q).do /\ s = Head(q).on)
    <3>1. SUFFICES ASSUME what = q[1].do, s = q[1].on PROVE FALSE BY <1>1
    <3>2. Rank(q[1]) = RankOf(what, s) BY <3>1 DEF Rank
    <3>3. RankOf(what, s) \in Int BY RankType
    <3> QED BY <3>2, <3>3, <2>4
  <2> QED BY <2>2, <2>3, <2>5 DEF In
<1>5. ASSUME NEW what, NEW s, In(q, what, s), ~(what = Head(q).do /\ s = Head(q).on)
      PROVE  In(Tail(q), what, s)
  <2>1. PICK i \in DOMAIN q : q[i].do = what /\ q[i].on = s BY <1>5 DEF In
  <2>2. i # 1 BY <2>1, <1>5, <1>1
  <2>3. i - 1 \in DOMAIN Tail(q) /\ Tail(q)[i - 1] = q[i] BY <2>2, <2>1, <1>1, <1>2
  <2> QED BY <2>1, <2>3 DEF In
<1> QED BY <1>1, <1>3, <1>4, <1>5

\* What is among two sequences one after the other.
LEMMA InBoth ==
    ASSUME NEW S, NEW q \in Seq(S), NEW r \in Seq(S)
    PROVE  \A what, s : In(q \o r, what, s) <=> In(q, what, s) \/ In(r, what, s)
<1>1. /\ DOMAIN q = 1..Len(q) /\ DOMAIN r = 1..Len(r) /\ Len(q) \in Nat /\ Len(r) \in Nat
      /\ DOMAIN (q \o r) = 1..(Len(q) + Len(r))
      OBVIOUS
<1>2. \A i \in DOMAIN q : i \in DOMAIN (q \o r) /\ (q \o r)[i] = q[i] BY <1>1
<1>3. \A i \in DOMAIN r : Len(q) + i \in DOMAIN (q \o r) /\ (q \o r)[Len(q) + i] = r[i]
      BY <1>1
<1>4. \A i \in DOMAIN (q \o r) : i \in DOMAIN q \/ i - Len(q) \in DOMAIN r BY <1>1
<1>5. \A i \in DOMAIN (q \o r) :
          (q \o r)[i] = IF i \in DOMAIN q THEN q[i] ELSE r[i - Len(q)]
      BY <1>1
<1> QED BY <1>2, <1>3, <1>4, <1>5 DEF In

\* Steps of a command, in their order, between two ranks.
Steady(q, c, lo, hi) ==
    /\ q \in Seq(StepsFor(c)) /\ Sorted(q)
    /\ \A i \in DOMAIN q : lo <= Rank(q[i]) /\ Rank(q[i]) <= hi

\* One such sequence may follow another.
LEMMA Joined ==
    ASSUME NEW c, NEW q, NEW r, NEW a \in Nat, NEW b \in Nat, NEW d \in Nat, NEW e \in Nat,
           Steady(q, c, a, b), Steady(r, c, d, e), a <= d, b < d, b <= e
    PROVE  Steady(q \o r, c, a, e)
<1> DEFINE S == StepsFor(c)
<1>0. q \in Seq(S) /\ r \in Seq(S) BY DEF Steady
<1> HIDE DEF S
<1>1. /\ DOMAIN q = 1..Len(q) /\ DOMAIN r = 1..Len(r) /\ Len(q) \in Nat /\ Len(r) \in Nat
      /\ DOMAIN (q \o r) = 1..(Len(q) + Len(r)) /\ q \o r \in Seq(S)
      BY <1>0
<1>2. \A i \in DOMAIN (q \o r) : i \in DOMAIN q \/ i - Len(q) \in DOMAIN r BY <1>1
<1>3. \A i \in DOMAIN (q \o r) :
          (q \o r)[i] = IF i \in DOMAIN q THEN q[i] ELSE r[i - Len(q)]
      BY <1>0, <1>1
<1>4. \A i \in DOMAIN q : a <= Rank(q[i]) /\ Rank(q[i]) <= b BY DEF Steady
<1>5. \A i \in DOMAIN r : d <= Rank(r[i]) /\ Rank(r[i]) <= e BY DEF Steady
<1>6. \A x : Rank(x) \in Nat BY RankType DEF Rank
<1>7. ASSUME NEW i \in DOMAIN (q \o r), NEW j \in DOMAIN (q \o r), i < j
      PROVE  Rank((q \o r)[i]) < Rank((q \o r)[j])
  <2>1. CASE j \in DOMAIN q
    <3>1. i \in DOMAIN q BY <2>1, <1>7, <1>1
    <3>2. Rank(q[i]) < Rank(q[j]) BY <3>1, <2>1, <1>7 DEF Steady, Sorted
    <3> QED BY <3>1, <3>2, <2>1, <1>3
  <2>2. CASE j \notin DOMAIN q /\ i \in DOMAIN q
    <3>1. Rank(q[i]) <= b /\ d <= Rank(r[j - Len(q)]) BY <2>2, <1>2, <1>4, <1>5
    <3>2. Rank(q[i]) < Rank(r[j - Len(q)]) BY <3>1, <1>6
    <3> QED BY <3>2, <2>2, <1>3
  <2>3. CASE j \notin DOMAIN q /\ i \notin DOMAIN q
    <3>1. i - Len(q) \in DOMAIN r /\ j - Len(q) \in DOMAIN r BY <2>3, <1>2
    <3>2. i - Len(q) < j - Len(q) BY <1>7, <1>1
    <3>3. Rank(r[i - Len(q)]) < Rank(r[j - Len(q)]) BY <3>1, <3>2 DEF Steady, Sorted
    <3> QED BY <3>3, <2>3, <1>3
  <2> QED BY <2>1, <2>2, <2>3
<1>8. Sorted(q \o r) BY <1>7 DEF Sorted
<1>9. ASSUME NEW i \in DOMAIN (q \o r)
      PROVE  a <= Rank((q \o r)[i]) /\ Rank((q \o r)[i]) <= e
  <2>1. CASE i \in DOMAIN q BY <2>1, <1>3, <1>4, <1>6
  <2>2. CASE i \notin DOMAIN q
    <3>1. d <= Rank(r[i - Len(q)]) /\ Rank(r[i - Len(q)]) <= e BY <2>2, <1>2, <1>5
    <3> QED BY <3>1, <2>2, <1>3, <1>6
  <2> QED BY <2>1, <2>2
<1> QED BY <1>1, <1>8, <1>9 DEF Steady, S

-----------------------------------------------------------------------------
(* The sequences that the commands are made of.                            *)

\* What a service is started with.
LEMMA StartSteps ==
    ASSUME NEW c \in {"install", "restart", "upstream"}, NEW s \in Services
    PROVE  /\ Steady(StartService(s), c, IF s = "net" THEN 17 ELSE 7, IF s = "net" THEN 20 ELSE 10)
           /\ \A what, t : In(StartService(s), what, t) <=> what \in Starting /\ t = s
<1> DEFINE q == StartService(s)
<1>1. /\ q = <<Do("bootout", s), Do("bootstrap", s), Do("loaded?", s), Do("kickstart", s)>>
      /\ DOMAIN q = 1..4
      BY DEF StartService
<1>2. /\ q[1] = Do("bootout", s) /\ q[2] = Do("bootstrap", s)
      /\ q[3] = Do("loaded?", s) /\ q[4] = Do("kickstart", s)
      BY <1>1
<1>3. \A what \in Starting : Do(what, s) \in StepsFor(c)
      BY DEF StepsFor, Do, Starting, KindsOf, Installing, Steps
<1>4. q \in Seq(StepsFor(c)) BY <1>1, <1>3 DEF Starting
<1> HIDE DEF q
<1>5. /\ Rank(q[1]) = IF s = "net" THEN 17 ELSE 7
      /\ Rank(q[2]) = IF s = "net" THEN 18 ELSE 8
      /\ Rank(q[3]) = IF s = "net" THEN 19 ELSE 9
      /\ Rank(q[4]) = IF s = "net" THEN 20 ELSE 10
      BY <1>2 DEF Rank, RankOf, Do, Services
<1>6. \A i \in DOMAIN q : Rank(q[i]) = (IF s = "net" THEN 16 ELSE 6) + i
      BY <1>1, <1>5 DEF Services
<1>7. Sorted(q) BY <1>1, <1>6 DEF Sorted
<1>8. Steady(q, c, IF s = "net" THEN 17 ELSE 7, IF s = "net" THEN 20 ELSE 10)
      BY <1>1, <1>4, <1>6, <1>7 DEF Steady
<1>9. \A what, t : In(q, what, t) <=> what \in Starting /\ t = s
      BY <1>1, <1>2 DEF In, Starting, Do
<1> QED BY <1>8, <1>9 DEF q

\* What root's copy is installed with.
LEMMA RootSteps ==
    ASSUME NEW c \in {"install", "restart", "upstream"}
    PROVE  /\ Steady(installRootDaemonBinary, c, 14, 15)
           /\ \A what, t : In(installRootDaemonBinary, what, t)
                              <=> what \in {"cut-root", "copy-root"} /\ t = "net"
<1> DEFINE q == installRootDaemonBinary
           one == Do("cut-root", "net")
           two == Do("copy-root", "net")
<1>1. q = <<one, two>> BY DEF installRootDaemonBinary
<1>2. one \in StepsFor(c) /\ two \in StepsFor(c)
      BY DEF StepsFor, Do, KindsOf, Installing, Steps, Services
<1>3. Rank(one) = 14 /\ Rank(two) = 15 BY DEF Rank, RankOf, Do
<1>4. one.do = "cut-root" /\ two.do = "copy-root" /\ one.on = "net" /\ two.on = "net"
      BY DEF Do
<1> HIDE DEF q, one, two
<1>5. q \in Seq(StepsFor(c)) /\ DOMAIN q = 1..2 /\ q[1] = one /\ q[2] = two BY <1>1, <1>2
<1>6. \A i \in DOMAIN q : Rank(q[i]) = 13 + i BY <1>3, <1>5
<1>7. Sorted(q) BY <1>5, <1>6 DEF Sorted
<1>8. Steady(q, c, 14, 15) BY <1>5, <1>6, <1>7 DEF Steady
<1>9. \A what, t : In(q, what, t) <=> what \in {"cut-root", "copy-root"} /\ t = "net"
      BY <1>4, <1>5 DEF In
<1> QED BY <1>8, <1>9 DEF q

\* A single step.
LEMMA OneStep ==
    ASSUME NEW c, NEW step \in StepsFor(c), NEW k, Rank(step) = k
    PROVE  /\ Steady(<<step>>, c, k, k)
           /\ \A what, t : In(<<step>>, what, t) <=> what = step.do /\ t = step.on
<1> DEFINE q == <<step>>
<1>1. q \in Seq(StepsFor(c)) /\ DOMAIN q = 1..1 /\ q[1] = step OBVIOUS
<1>2. k \in Int BY RankType DEF Rank
<1> HIDE DEF q
<1>3. Steady(q, c, k, k) BY <1>1, <1>2 DEF Steady, Sorted
<1>4. \A what, t : In(q, what, t) <=> what = step.do /\ t = step.on BY <1>1 DEF In
<1> QED BY <1>3, <1>4 DEF q

\* What two sequences of a command have together.
LEMMA Together ==
    ASSUME NEW c, NEW q, NEW r, NEW a, NEW b, NEW d, NEW e,
           Steady(q, c, a, b), Steady(r, c, d, e)
    PROVE  \A what, s : In(q \o r, what, s) <=> In(q, what, s) \/ In(r, what, s)
<1>1. q \in Seq(StepsFor(c)) /\ r \in Seq(StepsFor(c)) BY DEF Steady
<1> QED BY <1>1, InBoth

\* What the user's service is installed with.
LEMMA UserSteps ==
    ASSUME NEW c \in {"install", "upstream"}
    PROVE  /\ Steady(cmdInstallUser, c, 6, 10)
           /\ \A what, t : In(cmdInstallUser, what, t)
                              <=> what \in {"plist"} \union Starting /\ t = "user"
<1> DEFINE q == <<Do("plist", "user")>>
           r == StartService("user")
<1>1. Do("plist", "user") \in StepsFor(c) /\ Rank(Do("plist", "user")) = 6
      BY DEF StepsFor, Do, Starting, KindsOf, Installing, Steps, Services, Rank, RankOf
<1>2. /\ Steady(q, c, 6, 6)
      /\ \A what, t : In(q, what, t) <=> what = "plist" /\ t = "user"
      BY <1>1, OneStep DEF Do
<1>3. /\ Steady(r, c, 7, 10)
      /\ \A what, t : In(r, what, t) <=> what \in Starting /\ t = "user"
      BY StartSteps DEF Services
<1> HIDE DEF q, r
<1>4. Steady(q \o r, c, 6, 10) BY <1>2, <1>3, Joined
<1>5. \A what, s : In(q \o r, what, s) <=> In(q, what, s) \/ In(r, what, s)
      BY <1>2, <1>3, Together
<1>6. cmdInstallUser = q \o r BY DEF cmdInstallUser, q, r
<1> QED BY <1>2, <1>3, <1>4, <1>5, <1>6

\* What the network service is installed with.
LEMMA NetSteps ==
    ASSUME NEW c \in {"install", "upstream"}
    PROVE  /\ Steady(cmdInstallNet, c, 14, 20)
           /\ \A what, t : In(cmdInstallNet, what, t) <=> what \in Installing /\ t = "net"
<1> DEFINE p == installRootDaemonBinary
           q == <<Do("plist", "net")>>
           r == StartService("net")
<1>1. Do("plist", "net") \in StepsFor(c) /\ Rank(Do("plist", "net")) = 16
      BY DEF StepsFor, Do, Starting, KindsOf, Installing, Steps, Services, Rank, RankOf
<1>2. /\ Steady(q, c, 16, 16)
      /\ \A what, t : In(q, what, t) <=> what = "plist" /\ t = "net"
      BY <1>1, OneStep DEF Do
<1>3. /\ Steady(r, c, 17, 20)
      /\ \A what, t : In(r, what, t) <=> what \in Starting /\ t = "net"
      BY StartSteps DEF Services
<1>4. /\ Steady(p, c, 14, 15)
      /\ \A what, t : In(p, what, t) <=> what \in {"cut-root", "copy-root"} /\ t = "net"
      BY RootSteps
<1> HIDE DEF p, q, r
<1>5. Steady(p \o q, c, 14, 16) BY <1>2, <1>4, Joined
<1>6. Steady(p \o q \o r, c, 14, 20) BY <1>5, <1>3, Joined
<1>7. \A what, s : In(p \o q, what, s) <=> In(p, what, s) \/ In(q, what, s)
      BY <1>2, <1>4, Together
<1>8. \A what, s : In(p \o q \o r, what, s) <=> In(p \o q, what, s) \/ In(r, what, s)
      BY <1>3, <1>5, Together
<1>9. cmdInstallNet = p \o q \o r BY DEF cmdInstallNet, p, q, r
<1>10. \A what, t : In(p \o q \o r, what, t) <=> what \in Installing /\ t = "net"
       BY <1>2, <1>3, <1>4, <1>7, <1>8 DEF Installing
<1> QED BY <1>6, <1>9, <1>10

\* What restart does with the network service.
LEMMA RestartedSteps ==
    /\ Steady(Restarted, "restart", 14, 20)
    /\ \A what, t : In(Restarted, what, t)
                       <=> what \in {"cut-root", "copy-root"} \union Starting /\ t = "net"
<1> DEFINE p == installRootDaemonBinary
           r == StartService("net")
<1>1. /\ Steady(p, "restart", 14, 15)
      /\ \A what, t : In(p, what, t) <=> what \in {"cut-root", "copy-root"} /\ t = "net"
      BY RootSteps
<1>2. /\ Steady(r, "restart", 17, 20)
      /\ \A what, t : In(r, what, t) <=> what \in Starting /\ t = "net"
      BY StartSteps DEF Services
<1> HIDE DEF p, r
<1>3. Steady(p \o r, "restart", 14, 20) BY <1>1, <1>2, Joined
<1>4. \A what, s : In(p \o r, what, s) <=> In(p, what, s) \/ In(r, what, s)
      BY <1>1, <1>2, Together
<1>5. Restarted = p \o r BY DEF Restarted, p, r
<1> QED BY <1>1, <1>2, <1>3, <1>4, <1>5

\* Some steps of known ranks.
LEMMA Explicit ==
    ASSUME NEW c, NEW q \in Seq(StepsFor(c)), NEW lo \in Nat, NEW hi \in Nat,
           \A i \in DOMAIN q : lo <= Rank(q[i]) /\ Rank(q[i]) <= hi,
           \A i, j \in DOMAIN q : i < j => Rank(q[i]) < Rank(q[j])
    PROVE  Steady(q, c, lo, hi)
BY DEF Steady, Sorted

\* The steps of `hitman install`.
LEMMA InstallPlan ==
    /\ Steady(cmdInstall, "install", 6, 20)
    /\ \A what, t : In(cmdInstall, what, t)
          <=> \/ what \in {"plist"} \union Starting /\ t = "user"
              \/ what \in Installing /\ t = "net"
<1> DEFINE q == cmdInstallUser
           r == cmdInstallNet
<1>1. /\ Steady(q, "install", 6, 10)
      /\ \A what, t : In(q, what, t) <=> what \in {"plist"} \union Starting /\ t = "user"
      BY UserSteps
<1>2. /\ Steady(r, "install", 14, 20)
      /\ \A what, t : In(r, what, t) <=> what \in Installing /\ t = "net"
      BY NetSteps
<1>3. cmdInstall = q \o r BY DEF cmdInstall
<1> HIDE DEF q, r
<1>4. Steady(q \o r, "install", 6, 20) BY <1>1, <1>2, Joined
<1>5. \A what, s : In(q \o r, what, s) <=> In(q, what, s) \/ In(r, what, s)
      BY <1>1, <1>2, Together
<1> QED BY <1>1, <1>2, <1>3, <1>4, <1>5

\* The steps of `hitman restart`.
LEMMA RestartPlan ==
    /\ Steady(cmdRestart, "restart", 7, 13)
    /\ \A what, t : In(cmdRestart, what, t)
          <=> \/ what \in Starting /\ t = "user"
              \/ what = "if-installed" /\ t = "net"
<1> DEFINE one == If("net", Restarted)
           q == StartService("user")
           r == <<one>>
<1>1. /\ Steady(q, "restart", 7, 10)
      /\ \A what, t : In(q, what, t) <=> what \in Starting /\ t = "user"
      BY StartSteps DEF Services
<1>2. one \in StepsFor("restart")
      BY DEF If, StepsFor, Nested, KindsOf, Steps, Services
<1>3. Rank(one) = 13 /\ one.do = "if-installed" /\ one.on = "net"
      BY DEF If, Rank, RankOf
<1>4. cmdRestart = q \o r BY DEF cmdRestart, Restarted
<1> HIDE DEF one, q
<1>5. /\ Steady(r, "restart", 13, 13)
      /\ \A what, t : In(r, what, t) <=> what = "if-installed" /\ t = "net"
      BY <1>2, <1>3, OneStep
<1> HIDE DEF r
<1>6. Steady(q \o r, "restart", 7, 13) BY <1>1, <1>5, Joined
<1>7. \A what, s : In(q \o r, what, s) <=> In(q, what, s) \/ In(r, what, s)
      BY <1>1, <1>5, Together
<1> QED BY <1>1, <1>4, <1>5, <1>6, <1>7

\* The step of `hitman off`.
LEMMA OffPlan ==
    /\ Steady(cmdOff, "off", 17, 17)
    /\ \A what, t : In(cmdOff, what, t) <=> what = "bootout" /\ t = "net"
<1> DEFINE one == Do("bootout", "net")
<1>1. one \in StepsFor("off") BY DEF Do, StepsFor, KindsOf, Steps, Services
<1>2. Rank(one) = 17 /\ one.do = "bootout" /\ one.on = "net" BY DEF Do, Rank, RankOf
<1>3. cmdOff = <<one>> BY DEF cmdOff
<1> HIDE DEF one
<1> QED BY <1>1, <1>2, <1>3, OneStep

\* The steps of `hitman uninstall`.
LEMMA UninstallPlan ==
    /\ Steady(cmdUninstall, "uninstall", 7, 32)
    /\ \A what, t : In(cmdUninstall, what, t)
          <=> \/ what \in {"bootout", "unplist"} /\ t \in Services
              \/ what = "remove-root" /\ t = "net"
<1> DEFINE q == cmdUninstall
           a == Do("bootout", "user")
           b == Do("bootout", "net")
           c == Do("unplist", "user")
           d == Do("unplist", "net")
           e == Do("remove-root", "net")
<1>1. q = <<a, b, c, d, e>> BY DEF cmdUninstall
<1>2. {a, b, c, d, e} \subseteq StepsFor("uninstall")
      BY DEF Do, StepsFor, KindsOf, Steps, Services
<1>3. Rank(a) = 7 /\ Rank(b) = 17 /\ Rank(c) = 21 /\ Rank(d) = 31 /\ Rank(e) = 32
      BY DEF Do, Rank, RankOf
<1>4. /\ a.do = "bootout" /\ b.do = "bootout" /\ c.do = "unplist" /\ d.do = "unplist"
      /\ e.do = "remove-root"
      /\ a.on = "user" /\ b.on = "net" /\ c.on = "user" /\ d.on = "net" /\ e.on = "net"
      BY DEF Do
<1> HIDE DEF q, a, b, c, d, e
<1>5. /\ q \in Seq(StepsFor("uninstall")) /\ DOMAIN q = 1..5
      /\ q[1] = a /\ q[2] = b /\ q[3] = c /\ q[4] = d /\ q[5] = e
      BY <1>1, <1>2
<1>6. /\ \A i \in DOMAIN q : 7 <= Rank(q[i]) /\ Rank(q[i]) <= 32
      /\ \A i, j \in DOMAIN q : i < j => Rank(q[i]) < Rank(q[j])
      BY <1>3, <1>5
<1>7. Steady(q, "uninstall", 7, 32) BY <1>5, <1>6, Explicit
<1>8. \A what, t : In(q, what, t) <=> \E step \in {a, b, c, d, e} : what = step.do /\ t = step.on
      BY <1>5 DEF In
<1>9. \A what, t : In(q, what, t)
          <=> \/ what \in {"bootout", "unplist"} /\ t \in Services
              \/ what = "remove-root" /\ t = "net"
      BY <1>4, <1>8 DEF Services
<1> QED BY <1>7, <1>9 DEF q

\* The steps of `hitman upstream`.
LEMMA UpstreamPlan ==
    /\ Steady(cmdUpstream, "upstream", 1, 13)
    /\ \A what, t : In(cmdUpstream, what, t)
          <=> \/ what \in {"write-tmp", "rename-tmp"} /\ t = "user"
              \/ what = "if-installed" /\ t \in Services
<1> DEFINE q == cmdUpstream
           a == Do("write-tmp", "user")
           b == Do("rename-tmp", "user")
           c == If("user", cmdInstallUser)
           d == If("net", cmdInstallNet)
<1>1. q = <<a, b, c, d>> BY DEF cmdUpstream
<1>2. {a, b, c, d} \subseteq StepsFor("upstream")
      BY DEF Do, If, StepsFor, KindsOf, Steps, Services, Nested
<1>3. Rank(a) = 1 /\ Rank(b) = 2 /\ Rank(c) = 3 /\ Rank(d) = 13
      BY DEF Do, If, Rank, RankOf
<1>4. /\ a.do = "write-tmp" /\ b.do = "rename-tmp" /\ c.do = "if-installed"
      /\ d.do = "if-installed"
      /\ a.on = "user" /\ b.on = "user" /\ c.on = "user" /\ d.on = "net"
      BY DEF Do, If
<1> HIDE DEF q, a, b, c, d
<1>5. /\ q \in Seq(StepsFor("upstream")) /\ DOMAIN q = 1..4
      /\ q[1] = a /\ q[2] = b /\ q[3] = c /\ q[4] = d
      BY <1>1, <1>2
<1>6. /\ \A i \in DOMAIN q : 1 <= Rank(q[i]) /\ Rank(q[i]) <= 13
      /\ \A i, j \in DOMAIN q : i < j => Rank(q[i]) < Rank(q[j])
      BY <1>3, <1>5
<1>7. Steady(q, "upstream", 1, 13) BY <1>5, <1>6, Explicit
<1>8. \A what, t : In(q, what, t)
          <=> \/ what \in {"write-tmp", "rename-tmp"} /\ t = "user"
              \/ what = "if-installed" /\ t \in Services
      BY <1>4, <1>5 DEF In, Services
<1> QED BY <1>7, <1>8 DEF q

\* The steps of `hitman update`.
LEMMA UpdatePlan ==
    /\ Steady(cmdUpdate, "update", 33, 37)
    /\ \A what, t : In(cmdUpdate, what, t)
          <=> what \in {"download", "verify", "cut-new", "copy-new", "rename-new"} /\ t = "user"
<1> DEFINE q == cmdUpdate
           a == Do("download", "user")
           b == Do("verify", "user")
           c == Do("cut-new", "user")
           d == Do("copy-new", "user")
           e == Do("rename-new", "user")
<1>1. q = <<a, b, c, d, e>> BY DEF cmdUpdate
<1>2. {a, b, c, d, e} \subseteq StepsFor("update")
      BY DEF Do, StepsFor, KindsOf, Steps, Services
<1>3. Rank(a) = 33 /\ Rank(b) = 34 /\ Rank(c) = 35 /\ Rank(d) = 36 /\ Rank(e) = 37
      BY DEF Do, Rank, RankOf
<1>4. /\ a.do = "download" /\ b.do = "verify" /\ c.do = "cut-new" /\ d.do = "copy-new"
      /\ e.do = "rename-new"
      /\ a.on = "user" /\ b.on = "user" /\ c.on = "user" /\ d.on = "user" /\ e.on = "user"
      BY DEF Do
<1> HIDE DEF q, a, b, c, d, e
<1>5. /\ q \in Seq(StepsFor("update")) /\ DOMAIN q = 1..5
      /\ q[1] = a /\ q[2] = b /\ q[3] = c /\ q[4] = d /\ q[5] = e
      BY <1>1, <1>2
<1>6. /\ \A i \in DOMAIN q : 33 <= Rank(q[i]) /\ Rank(q[i]) <= 37
      /\ \A i, j \in DOMAIN q : i < j => Rank(q[i]) < Rank(q[j])
      BY <1>3, <1>5
<1>7. Steady(q, "update", 33, 37) BY <1>5, <1>6, Explicit
<1>8. \A what, t : In(q, what, t)
          <=> what \in {"download", "verify", "cut-new", "copy-new", "rename-new"} /\ t = "user"
      BY <1>4, <1>5 DEF In
<1> QED BY <1>7, <1>8 DEF q

-----------------------------------------------------------------------------
(* The steps of a command, in general.                                     *)

\* The step that is first: it is of the command, and all others come later.
LEMMA FirstStep ==
    ASSUME TodoInv, NEW what, Is(what)
    PROVE  /\ Head(todo) \in StepsFor(command) /\ Head(todo).on \in Services
           /\ what \in KindsOf(command) /\ Ahead(what, Head(todo).on)
           /\ \A w, t : Ahead(w, t) /\ ~(w = what /\ t = Head(todo).on)
                            => RankOf(what, Head(todo).on) < RankOf(w, t)
<1>1. todo \in Seq(StepsFor(command)) /\ Sorted(todo) /\ todo # <<>> /\ Head(todo).do = what
      BY DEF TodoInv, Is
<1>2. Head(todo) \in StepsFor(command) /\ Ahead(what, Head(todo).on)
      BY <1>1, First DEF Ahead
<1>3. \A w, t : Ahead(w, t) /\ ~(w = what /\ t = Head(todo).on)
                    => RankOf(what, Head(todo).on) < RankOf(w, t)
      BY <1>1, Behind DEF Ahead
<1> QED BY <1>1, <1>2, <1>3 DEF StepsFor

\* A step that is done: the others are still ahead, in their order, and what
\* is begun is ahead to its end.
LEMMA Passing ==
    ASSUME TodoInv, ChainInv, todo # <<>>, Passes
    PROVE  /\ TodoInv' /\ ChainInv'
           /\ \A w, t : Ahead(w, t)' <=> Ahead(w, t) /\ ~(w = Head(todo).do /\ t = Head(todo).on)
<1>1. todo \in Seq(StepsFor(command)) /\ Sorted(todo) BY DEF TodoInv
<1>2. todo' = Tail(todo) /\ command' = command BY DEF Passes
<1>3. /\ todo' \in Seq(StepsFor(command)) /\ Sorted(todo')
      /\ \A w, t : In(todo', w, t) <=> In(todo, w, t) /\ ~(w = Head(todo).do /\ t = Head(todo).on)
      BY <1>1, <1>2, Dropped
<1>4. TodoInv' BY <1>2, <1>3 DEF TodoInv
<1>5. \A w, t : In(todo, w, t) /\ ~(w = Head(todo).do /\ t = Head(todo).on)
                    => RankOf(Head(todo).do, Head(todo).on) < RankOf(w, t)
      BY <1>1, Behind
<1>6. ASSUME Starts PROVE ChainInv'
  <2>1. ASSUME NEW s \in Services, NEW what \in Installing, In(todo', what, s)
        PROVE  In(todo', "kickstart", s)
    <3>1. In(todo, "kickstart", s) BY <2>1, <1>3, <1>6 DEF ChainInv, Ahead
    <3>2. CASE what = "kickstart" BY <3>2, <2>1
    <3>3. CASE what # "kickstart"
      <4>1. RankOf(what, s) < RankOf("kickstart", s)
            BY <3>3 DEF RankOf, Installing, Starting
      <4>2. ~(Head(todo).do = "kickstart" /\ Head(todo).on = s)
        <5>1. SUFFICES ASSUME Head(todo).do = "kickstart", Head(todo).on = s PROVE FALSE
              OBVIOUS
        <5>2. RankOf("kickstart", s) < RankOf(what, s) BY <5>1, <2>1, <1>3, <1>5
        <5>3. RankOf("kickstart", s) \in Int /\ RankOf(what, s) \in Int BY RankType
        <5> QED BY <5>2, <5>3, <4>1
      <4> QED BY <4>2, <3>1, <1>3
    <3> QED BY <3>2, <3>3
  <2>2. ASSUME NEW s \in Services, In(todo', "plist", s) PROVE In(todo', "bootout", s)
    <3>1. In(todo, "bootout", s) /\ In(todo, "plist", s)
          BY <2>2, <1>3, <1>6 DEF ChainInv, Ahead
    <3>2. RankOf("plist", s) < RankOf("bootout", s) BY DEF RankOf
    <3>3. ~(Head(todo).do = "bootout" /\ Head(todo).on = s)
      <4>1. SUFFICES ASSUME Head(todo).do = "bootout", Head(todo).on = s PROVE FALSE
            OBVIOUS
      <4>2. RankOf("bootout", s) < RankOf("plist", s) BY <4>1, <3>1, <1>5
      <4>3. RankOf("plist", s) \in Int /\ RankOf("bootout", s) \in Int BY RankType
      <4> QED BY <4>2, <4>3, <3>2
    <3> QED BY <3>1, <3>3, <1>3
  <2>3. ASSUME NEW s \in Services, In(todo', "if-installed", s), NEW what \in Installing
        PROVE  ~In(todo', what, s)
        BY <2>3, <1>3, <1>6 DEF ChainInv, Ahead
  <2>4. ASSUME NEW s \in Services, In(todo', "rename-tmp", "user")
        PROVE  In(todo', "if-installed", s)
    <3>1. In(todo, "if-installed", s) /\ In(todo, "rename-tmp", "user")
          BY <2>4, <1>3, <1>6 DEF ChainInv, Ahead
    <3>2. RankOf("rename-tmp", "user") < RankOf("if-installed", s) BY DEF RankOf
    <3>3. ~(Head(todo).do = "if-installed" /\ Head(todo).on = s)
      <4>1. SUFFICES ASSUME Head(todo).do = "if-installed", Head(todo).on = s PROVE FALSE
            OBVIOUS
      <4>2. RankOf("if-installed", s) < RankOf("rename-tmp", "user") BY <4>1, <3>1, <1>5
      <4>3. RankOf("if-installed", s) \in Int /\ RankOf("rename-tmp", "user") \in Int
            BY RankType
      <4> QED BY <4>2, <4>3, <3>2
    <3> QED BY <3>1, <3>3, <1>3
  <2>5. ASSUME In(todo', "cut-root", "net") PROVE In(todo', "copy-root", "net")
    <3>1. In(todo, "cut-root", "net") /\ In(todo, "copy-root", "net")
          BY <2>5, <1>3, <1>6 DEF ChainInv, Ahead
    <3>2. RankOf("cut-root", "net") = 14 /\ RankOf("copy-root", "net") = 15 BY DEF RankOf
    <3>3. ~(Head(todo).do = "copy-root" /\ Head(todo).on = "net") BY <3>1, <3>2, <1>5
    <3> QED BY <3>1, <3>3, <1>3
  <2>6. ASSUME In(todo', "write-tmp", "user") PROVE In(todo', "rename-tmp", "user")
    <3>1. In(todo, "write-tmp", "user") /\ In(todo, "rename-tmp", "user")
          BY <2>6, <1>3, <1>6 DEF ChainInv, Ahead
    <3>2. RankOf("write-tmp", "user") = 1 /\ RankOf("rename-tmp", "user") = 2 BY DEF RankOf
    <3>3. ~(Head(todo).do = "rename-tmp" /\ Head(todo).on = "user") BY <3>1, <3>2, <1>5
    <3> QED BY <3>1, <3>3, <1>3
  <2>7. /\ command = "restart" => ~In(todo', "if-installed", "user")
        /\ command = "install" => \A s \in Services : ~In(todo', "if-installed", s)
        BY <1>3, <1>6 DEF ChainInv, Ahead
  <2> QED BY <2>1, <2>2, <2>3, <2>4, <2>5, <2>6, <2>7, <1>2 DEF ChainInv, Ahead
<1>7. ASSUME ~Starts PROVE ChainInv' BY <1>7, <1>2 DEF ChainInv, Starts
<1> QED BY <1>3, <1>4, <1>6, <1>7 DEF Ahead

\* A command that ends early leaves nothing to hold.
LEMMA GivingUp ==
    ASSUME GivesUp
    PROVE  TodoInv' /\ ChainInv' /\ DoneInv'
<1>1. todo' = <<>> /\ command' = "none" BY DEF GivesUp
<1>2. TodoInv' BY <1>1 DEF TodoInv, Sorted
<1> QED BY <1>1, <1>2 DEF ChainInv, DoneInv, StartInv, Starts, ConfigInv, StopInv, UpdateInv

-----------------------------------------------------------------------------
(* What each step leaves in force.                                         *)

\* A service is current as long as nothing of its own is touched.
LEMMA Unmoved ==
    ASSUME NEW s, Fresh(s), job'[s] = job[s], path'[s] = path[s], plist'[s] = plist[s],
           proc'[s] = proc[s], bin'[path[s]] = bin[path[s]], config' = config
    PROVE  Fresh(s)'
BY DEF Fresh, LaunchdHas, Started

\* What is said of a step that passes.
LEMMA Passed ==
    ASSUME IInv, NEW what, Is(what), Passes
    PROVE  /\ command' = command /\ TodoInv' /\ ChainInv'
           /\ \A w, t : In(todo', w, t) <=> In(todo, w, t) /\ ~(w = what /\ t = Head(todo).on)
<1>1. todo # <<>> /\ Head(todo).do = what BY DEF Is
<1> QED BY <1>1, Passing DEF IInv, Passes, Ahead

\* Plist leaves DoneInv.
LEMMA PlistDone == IInv /\ Plist => DoneInv'
<1> SUFFICES ASSUME IInv, Plist PROVE DoneInv' OBVIOUS
<1>1. PICK what \in {"plist", "unplist"} : Is(what) BY DEF Plist
<1>2. PICK s \in Services : s = Head(todo).on BY <1>1, FirstStep DEF IInv
<1>3. /\ UNCHANGED <<bin, config, tmp, archive, new, job, path, proc, exe, arg, stuck>>
      /\ Passes
      BY DEF Plist, launchd, history
<1>4. /\ command' = command
      /\ \A w, t : In(todo', w, t) <=> In(todo, w, t) /\ ~(w = what /\ t = s)
      BY <1>1, <1>2, <1>3, Passed
<1>5. what \in KindsOf(command) /\ In(todo, what, s) BY <1>1, <1>2, FirstStep DEF IInv, Ahead
<1>6. plist \in [Services -> Places \union {NoPlace}] /\ exe \in Exes /\ exe # NoPlace /\ Root # NoPlace
      BY DeployAssumption DEF IInv, TypeOK, Places
<1>7. CASE what = "plist"
  <2>1. command \in {"install", "upstream"}
        BY <1>5, <1>7 DEF KindsOf, Starting, Installing
  <2>2. plist' = [plist EXCEPT ![s] = IF s = "user" THEN exe ELSE Root]
        BY <1>1, <1>2, <1>7 DEF Plist, Is
  <2>3. /\ plist'[s] # NoPlace
        /\ s = "user" => plist'["user"] = exe
        /\ \A t \in Services : t # s => plist'[t] = plist[t]
        BY <2>2, <1>6
  <2>4. /\ In(todo, "bootout", s) /\ In(todo, "kickstart", s) /\ ~In(todo, "if-installed", s)
        BY <1>5, <1>7, <2>1 DEF IInv, ChainInv, Starts, Ahead, Installing
  <2>5. \A t \in Services : JobInv(t)'
    <3>1. ASSUME NEW t \in Services, t # s PROVE JobInv(t)'
      <4>1. JobInv(t) BY <2>1 DEF IInv, DoneInv, StartInv, Starts
      <4>2. Fresh(t) => Fresh(t)' BY <1>3, <2>3, <3>1, Unmoved
      <4> QED BY <1>3, <1>4, <1>7, <2>3, <3>1, <4>1, <4>2 DEF JobInv, Engaged, Ahead
    <3>2. JobInv(s)' BY <1>4, <1>7, <2>4 DEF JobInv, Ahead
    <3> QED BY <3>1, <3>2
  <2>6. PlistInv /\ RootInv /\ PresentInv BY <2>1 DEF IInv, DoneInv, StartInv, Starts
  <2>7. PlistInv' BY <1>3, <1>4, <1>7, <2>3, <2>6 DEF PlistInv, Ahead, Services
  <2>8. plist["net"] # NoPlace \/ command = "install" \/ s # "net"
        BY <1>5, <1>7, <2>1, <2>6 DEF PresentInv, Ahead
  <2>9. RootInv' BY <1>3, <1>4, <1>7, <2>3, <2>6, <2>8 DEF RootInv, Ahead, Services
  <2>10. PresentInv'
    <3>1. SUFFICES ASSUME NEW t \in Services
                   PROVE  /\ command = "install" /\ ~In(todo', "plist", t) => plist'[t] # NoPlace
                          /\ command = "upstream" /\ In(todo', "plist", t) => plist'[t] # NoPlace
          BY <1>4 DEF PresentInv, Ahead
    <3>2. CASE t = s BY <3>2, <2>3
    <3>3. CASE t # s BY <3>3, <2>3, <2>6, <1>4 DEF PresentInv, Ahead
    <3> QED BY <3>2, <3>3
  <2>11. StartInv' BY <2>5, <2>7, <2>9, <2>10 DEF StartInv
  <2> QED BY <1>4, <2>1, <2>11, <1>3, <1>7
          DEF DoneInv, ConfigInv, StopInv, UpdateInv, IInv, Ahead
<1>8. CASE what = "unplist"
  <2>1. command = "uninstall" BY <1>5, <1>8 DEF KindsOf, Starting, Installing
  <2>2. /\ s = "user" => plist'["user"] = NoPlace
        /\ s # "user" => plist'["user"] = plist["user"]
        BY <1>1, <1>2, <1>6, <1>8 DEF Plist, Is, Services
  <2>3. StopInv'
        BY <1>3, <1>4, <1>8, <2>1, <2>2 DEF IInv, DoneInv, StopInv, Ahead, Services
  <2> QED BY <1>4, <2>1, <2>3 DEF DoneInv, StartInv, Starts, ConfigInv, UpdateInv
<1> QED BY <1>7, <1>8

\* A step that touches nothing that DoneInv speaks of, nor a step that it
\* speaks of, leaves it.
LEMMA Idle ==
    ASSUME IInv,
           UNCHANGED <<bin, config, tmp, archive, new, plist, job, path, proc, exe, arg,
                       stuck, command>>,
           \A w \in {"if-installed", "copy-root", "plist", "bootout", "kickstart", "write-tmp",
                     "rename-tmp", "unplist", "download", "verify", "cut-new", "copy-new",
                     "rename-new", "copy-by-hand"}, t \in Services :
               In(todo', w, t) <=> In(todo, w, t)
    PROVE  DoneInv'
<1>1. ASSUME Starts, NEW s \in Services PROVE JobInv(s)'
  <2>1. JobInv(s) BY <1>1 DEF IInv, DoneInv, StartInv
  <2>2. Fresh(s) => Fresh(s)' BY Unmoved
  <2> QED BY <2>1, <2>2 DEF JobInv, Engaged, Ahead
<1>2. ASSUME Starts PROVE PlistInv' /\ RootInv' /\ PresentInv'
  <2>1. PlistInv /\ RootInv /\ PresentInv BY <1>2 DEF IInv, DoneInv, StartInv
  <2>2. PlistInv' BY <2>1 DEF PlistInv, Ahead, Services
  <2>3. RootInv' BY <2>1 DEF RootInv, Ahead, Services
  <2>4. PresentInv' BY <2>1 DEF PresentInv, Ahead
  <2> QED BY <2>2, <2>3, <2>4
<1>3. StartInv' BY <1>1, <1>2 DEF StartInv, Starts
<1>4. ConfigInv' BY DEF IInv, DoneInv, ConfigInv, Ahead, Services
<1>5. StopInv' BY DEF IInv, DoneInv, StopInv, Ahead, Services
<1>6. UpdateInv' BY DEF IInv, DoneInv, UpdateInv, Ahead, Services
<1> QED BY <1>3, <1>4, <1>5, <1>6 DEF DoneInv

\* RootBinary leaves DoneInv: the user's service does not start from root's copy.
LEMMA RootBinaryDone == IInv /\ RootBinary => DoneInv'
<1> SUFFICES ASSUME IInv, RootBinary PROVE DoneInv' OBVIOUS
<1>1. PICK what \in {"cut-root", "copy-root", "remove-root"} : Is(what) BY DEF RootBinary
<1>2. Head(todo).on = "net"
  <2>1. Head(todo) \in StepsFor(command) /\ Head(todo).do = what
        BY <1>1, FirstStep DEF IInv, Is
  <2> QED BY <1>1, <2>1 DEF StepsFor
<1>3. /\ UNCHANGED <<config, tmp, archive, new, plist, job, path, proc, exe, arg, stuck>>
      /\ Passes
      BY DEF RootBinary, launchd, history
<1>4. /\ command' = command
      /\ \A w, t : In(todo', w, t) <=> In(todo, w, t) /\ ~(w = what /\ t = "net")
      BY <1>1, <1>2, <1>3, Passed
<1>5. what \in KindsOf(command) /\ In(todo, what, "net")
      BY <1>1, <1>2, FirstStep DEF IInv, Ahead
<1>6. /\ bin \in [Places -> Versions \union {None, Torn}] /\ exe \in Exes /\ Root \notin Exes
      /\ Root \in Places /\ Exes \subseteq Places
      BY DeployAssumption DEF IInv, TypeOK, Places
<1>7. \A p : p # Root => bin'[p] = bin[p] \/ p \notin Places
      BY <1>6 DEF RootBinary
<1>8. CASE what = "remove-root"
  <2>1. command = "uninstall" BY <1>5, <1>8 DEF KindsOf, Starting, Installing
  <2>2. StopInv' BY <1>3, <1>4, <1>8, <2>1 DEF IInv, DoneInv, StopInv, Ahead, Services
  <2> QED BY <1>4, <2>1, <2>2 DEF DoneInv, StartInv, Starts, ConfigInv, UpdateInv
<1>9. CASE what \in {"cut-root", "copy-root"}
  <2>1. command \in {"install", "restart", "upstream"}
        BY <1>5, <1>9 DEF KindsOf, Starting, Installing
  <2>2. In(todo, "kickstart", "net") /\ ~In(todo, "if-installed", "net")
        BY <1>5, <1>9, <2>1 DEF IInv, ChainInv, Starts, Ahead, Installing, Services
  <2>3. ASSUME NEW t \in Services PROVE JobInv(t)'
    <3>1. JobInv(t) BY <2>1 DEF IInv, DoneInv, StartInv, Starts
    <3>2. t = "user" /\ Fresh(t) => Fresh(t)'
      <4>1. SUFFICES ASSUME t = "user", Fresh(t) PROVE Fresh(t)' OBVIOUS
      <4>2. path[t] # Root /\ path[t] # NoPlace /\ path[t] \in Places \union {NoPlace}
            BY <4>1 DEF IInv, TypeOK, PathInv, Fresh, LaunchdHas
      <4> QED BY <4>1, <4>2, <1>3, <1>7, Unmoved
    <3>3. CASE t = "user"
          BY <1>3, <1>4, <1>9, <3>1, <3>2, <3>3 DEF JobInv, Engaged, Ahead
    <3>4. CASE t = "net"
          BY <1>3, <1>4, <1>9, <2>2, <3>1, <3>4 DEF JobInv, Engaged, Ahead
    <3> QED BY <3>3, <3>4 DEF Services
  <2>4. PlistInv /\ RootInv /\ PresentInv BY <2>1 DEF IInv, DoneInv, StartInv, Starts
  <2>5. PlistInv' BY <1>3, <1>4, <1>9, <2>4 DEF PlistInv, Ahead
  <2>6. RootInv'
    <3>1. CASE what = "cut-root"
      <4>1. In(todo', "copy-root", "net")
            BY <1>4, <1>5, <2>1, <3>1 DEF IInv, ChainInv, Starts, Ahead
      <4> QED BY <4>1 DEF RootInv, Ahead
    <3>2. CASE what = "copy-root"
      <4>1. bin' = [bin EXCEPT ![Root] = bin[exe]] BY <1>1, <3>2 DEF RootBinary, Is
      <4> QED BY <4>1, <1>3, <1>6 DEF RootInv
    <3> QED BY <1>9, <3>1, <3>2
  <2>7. PresentInv' BY <1>3, <1>4, <1>9, <2>4 DEF PresentInv, Ahead
  <2>8. StartInv' BY <2>3, <2>5, <2>6, <2>7 DEF StartInv
  <2> QED BY <1>3, <1>4, <1>9, <2>1, <2>8
          DEF DoneInv, ConfigInv, StopInv, UpdateInv, IInv, Ahead
<1> QED BY <1>8, <1>9

\* BootOut leaves DoneInv: the job is gone, leaving or stuck.
LEMMA BootOutDone == IInv /\ BootOut => DoneInv'
<1> SUFFICES ASSUME IInv, BootOut PROVE DoneInv' OBVIOUS
<1>1. Is("bootout") /\ Passes BY DEF BootOut
<1>2. PICK s \in Services : s = Head(todo).on BY <1>1, FirstStep DEF IInv
<1>3. UNCHANGED <<bin, new, archive, config, tmp, plist, path, exe, arg>>
      BY DEF BootOut, files
<1>4. /\ command' = command
      /\ \A w, t : In(todo', w, t) <=> In(todo, w, t) /\ ~(w = "bootout" /\ t = s)
      BY <1>1, <1>2, Passed
<1>5. "bootout" \in KindsOf(command) /\ In(todo, "bootout", s)
      BY <1>1, <1>2, FirstStep DEF IInv, Ahead
<1>6. /\ job \in [Services -> {"out", "in", "leaving"}] /\ DOMAIN proc = Services
      BY DEF IInv, TypeOK
<1>7. /\ \A t \in Services : t # s => /\ job'[t] = job[t] /\ proc'[t] = proc[t]
                                      /\ t \in stuck' <=> t \in stuck
      /\ s \notin stuck' => job'[s] # "in"
      BY <1>2, <1>6 DEF BootOut
<1>8. ASSUME Starts PROVE StartInv'
  <2>1. In(todo, "kickstart", s) /\ ~In(todo, "if-installed", s)
        BY <1>5, <1>8 DEF IInv, ChainInv, Ahead, Installing, Starting
  <2>2. ASSUME NEW t \in Services, t # s PROVE JobInv(t)'
    <3>1. JobInv(t) BY <1>8 DEF IInv, DoneInv, StartInv
    <3>2. Fresh(t) => Fresh(t)' BY <1>3, <1>7, <2>2, Unmoved
    <3> QED BY <1>3, <1>4, <1>7, <2>2, <3>1, <3>2 DEF JobInv, Engaged, Ahead
  <2>3. JobInv(s)' BY <1>4, <1>7, <2>1 DEF JobInv, Ahead
  <2>4. PlistInv /\ RootInv /\ PresentInv BY <1>8 DEF IInv, DoneInv, StartInv
  <2>5. PlistInv' BY <1>3, <1>4, <2>4 DEF PlistInv, Ahead
  <2>6. RootInv' BY <1>3, <1>4, <2>4 DEF RootInv, Ahead
  <2>7. PresentInv' BY <1>3, <1>4, <2>4 DEF PresentInv, Ahead
  <2> QED BY <2>2, <2>3, <2>5, <2>6, <2>7 DEF StartInv
<1>9. ASSUME ~Starts PROVE StartInv' BY <1>4, <1>9 DEF StartInv, Starts
<1>10. ConfigInv' BY <1>3, <1>4 DEF IInv, DoneInv, ConfigInv, Ahead
<1>11. StopInv'
  <2>1. ASSUME command \in {"off", "uninstall"}, NEW t \in Services,
               t = "net" \/ command = "uninstall", ~In(todo', "bootout", t), t \notin stuck'
        PROVE  job'[t] # "in"
    <3>1. CASE t = s BY <3>1, <2>1, <1>7
    <3>2. CASE t # s BY <3>2, <2>1, <1>4, <1>7 DEF IInv, DoneInv, StopInv, Ahead
    <3> QED BY <3>1, <3>2
  <2>2. command = "uninstall" /\ ~In(todo', "unplist", "user") => plist'["user"] = NoPlace
        BY <1>3, <1>4 DEF IInv, DoneInv, StopInv, Ahead
  <2> QED BY <1>4, <2>1, <2>2 DEF StopInv, Ahead
<1>12. UpdateInv' BY <1>3, <1>4 DEF IInv, DoneInv, UpdateInv, Ahead
<1> QED BY <1>8, <1>9, <1>10, <1>11, <1>12 DEF DoneInv

\* Bootstrap leaves DoneInv: a job that was out comes in from its plist.
LEMMA BootstrapDone == IInv /\ Bootstrap => DoneInv'
<1> SUFFICES ASSUME IInv, Bootstrap PROVE DoneInv' OBVIOUS
<1>1. Is("bootstrap") /\ Passes BY DEF Bootstrap
<1>2. PICK s \in Services : s = Head(todo).on BY <1>1, FirstStep DEF IInv
<1>3. UNCHANGED <<bin, new, archive, config, tmp, plist, exe, arg, stuck>>
      BY DEF Bootstrap, files, history
<1>4. /\ command' = command
      /\ \A w, t : In(todo', w, t) <=> In(todo, w, t) /\ ~(w = "bootstrap" /\ t = s)
      BY <1>1, <1>2, Passed
<1>5. "bootstrap" \in KindsOf(command) /\ In(todo, "bootstrap", s)
      BY <1>1, <1>2, FirstStep DEF IInv, Ahead
<1>6. command \in {"install", "restart", "upstream"}
      BY <1>5 DEF KindsOf, Starting, Installing
<1>7. /\ job \in [Services -> {"out", "in", "leaving"}] /\ DOMAIN proc = Services
      /\ DOMAIN path = Services
      BY DEF IInv, TypeOK
<1>8. /\ \A t \in Services : t # s => /\ job'[t] = job[t] /\ proc'[t] = proc[t]
                                      /\ path'[t] = path[t]
      /\ path'[s] = plist[s] \/ (path'[s] = path[s] /\ job'[s] = job[s])
      BY <1>2, <1>7 DEF Bootstrap, launchd
<1>9. /\ In(todo, "kickstart", s) /\ ~In(todo, "if-installed", s)
      BY <1>5, <1>6 DEF IInv, ChainInv, Ahead, Installing, Starting, Starts
<1>10. ASSUME NEW t \in Services PROVE JobInv(t)'
  <2>1. JobInv(t) BY <1>6 DEF IInv, DoneInv, StartInv, Starts
  <2>2. CASE t # s
    <3>1. Fresh(t) => Fresh(t)' BY <1>3, <1>8, <2>2, Unmoved
    <3> QED BY <1>3, <1>4, <1>8, <2>1, <2>2, <3>1 DEF JobInv, Engaged, Ahead
  <2>3. CASE t = s BY <1>3, <1>4, <1>8, <1>9, <2>1, <2>3 DEF JobInv, Ahead
  <2> QED BY <2>2, <2>3
<1>11. PlistInv /\ RootInv /\ PresentInv BY <1>6 DEF IInv, DoneInv, StartInv, Starts
<1>12. PlistInv' BY <1>3, <1>4, <1>11 DEF PlistInv, Ahead
<1>13. RootInv' BY <1>3, <1>4, <1>11 DEF RootInv, Ahead
<1>14. PresentInv' BY <1>3, <1>4, <1>11 DEF PresentInv, Ahead
<1>15. StartInv' BY <1>10, <1>12, <1>13, <1>14 DEF StartInv
<1>16. ConfigInv' BY <1>3, <1>4 DEF IInv, DoneInv, ConfigInv, Ahead
<1> QED BY <1>4, <1>6, <1>15, <1>16 DEF DoneInv, StopInv, UpdateInv

\* Loaded leaves DoneInv.
LEMMA LoadedDone == IInv /\ Loaded => DoneInv'
<1> SUFFICES ASSUME IInv, Loaded PROVE DoneInv' OBVIOUS
<1>1. Is("loaded?") BY DEF Loaded
<1>2. CASE Passes
  <2>1. /\ command' = command
        /\ \A w, t : In(todo', w, t) <=> In(todo, w, t) /\ ~(w = "loaded?" /\ t = Head(todo).on)
        BY <1>1, <1>2, Passed
  <2>2. UNCHANGED <<bin, config, tmp, archive, new, plist, job, path, proc, exe, arg, stuck>>
        BY DEF Loaded, files, launchd, history
  <2> QED BY <2>1, <2>2, Idle
<1>3. CASE GivesUp BY <1>3, GivingUp
<1> QED BY <1>2, <1>3 DEF Loaded

\* Kickstart leaves DoneInv: the job is the plist's by now, and its process is
\* started from what is there.
LEMMA KickstartDone == IInv /\ Kickstart => DoneInv'
<1> SUFFICES ASSUME IInv, Kickstart PROVE DoneInv' OBVIOUS
<1>1. Is("kickstart") BY DEF Kickstart
<1>2. PICK s \in Services : s = Head(todo).on BY <1>1, FirstStep DEF IInv
<1>3. UNCHANGED <<bin, new, archive, config, tmp, plist, job, path, exe, arg, stuck>>
      BY DEF Kickstart, files, history
<1>4. CASE GivesUp BY <1>4, GivingUp
<1>5. CASE job[s] = "in" /\ Passes /\ proc' = [proc EXCEPT ![s] = Started(path[s])]
  <2>1. /\ command' = command
        /\ \A w, t : In(todo', w, t) <=> In(todo, w, t) /\ ~(w = "kickstart" /\ t = s)
        BY <1>1, <1>2, <1>5, Passed
  <2>2. "kickstart" \in KindsOf(command) /\ In(todo, "kickstart", s)
        BY <1>1, <1>2, FirstStep DEF IInv, Ahead
  <2>3. command \in {"install", "restart", "upstream"}
        BY <2>2 DEF KindsOf, Starting, Installing
  <2>4. ~In(todo, "bootout", s) /\ ~In(todo, "if-installed", s)
    <3>1. ~In(todo, "if-installed", s)
          BY <2>2, <2>3 DEF IInv, ChainInv, Ahead, Installing, Starting, Starts
    <3>2. In(todo, "bootout", s) => RankOf("kickstart", s) < RankOf("bootout", s)
          BY <1>1, <1>2, FirstStep DEF IInv, Ahead
    <3>3. RankOf("bootout", s) < RankOf("kickstart", s) BY DEF RankOf
    <3>4. RankOf("bootout", s) \in Int /\ RankOf("kickstart", s) \in Int BY RankType
    <3> QED BY <3>1, <3>2, <3>3, <3>4
  <2>5. proc'[s] = Started(path[s]) /\ \A t \in Services : t # s => proc'[t] = proc[t]
        BY <1>5 DEF IInv, TypeOK
  <2>6. Started(path[s])' = Started(path[s]) BY <1>3 DEF Started
  <2>7. ASSUME NEW t \in Services PROVE JobInv(t)'
    <3>1. JobInv(t) BY <2>3 DEF IInv, DoneInv, StartInv, Starts
    <3>2. CASE t # s
      <4>1. Fresh(t) => Fresh(t)' BY <1>3, <2>5, <3>2, Unmoved
      <4> QED BY <1>3, <2>1, <3>1, <3>2, <4>1 DEF JobInv, Engaged, Ahead
    <3>3. CASE t = s
      <4>1. s \notin stuck => path[s] = plist[s]
            BY <1>5, <2>2, <2>4, <3>1, <3>3 DEF JobInv, Ahead
      <4>2. s \notin stuck => Fresh(s)'
            BY <1>3, <1>5, <2>5, <2>6, <4>1 DEF Fresh, LaunchdHas
      <4> QED BY <1>3, <3>3, <4>1, <4>2 DEF JobInv
    <3> QED BY <3>2, <3>3
  <2>8. PlistInv /\ RootInv /\ PresentInv BY <2>3 DEF IInv, DoneInv, StartInv, Starts
  <2>9. PlistInv' BY <1>3, <2>1, <2>8 DEF PlistInv, Ahead
  <2>10. RootInv' BY <1>3, <2>1, <2>8 DEF RootInv, Ahead
  <2>11. PresentInv' BY <1>3, <2>1, <2>8 DEF PresentInv, Ahead
  <2>12. StartInv' BY <2>7, <2>9, <2>10, <2>11 DEF StartInv
  <2>13. ConfigInv' BY <1>3, <2>1 DEF IInv, DoneInv, ConfigInv, Ahead
  <2> QED BY <2>1, <2>3, <2>12, <2>13 DEF DoneInv, StopInv, UpdateInv
<1> QED BY <1>2, <1>4, <1>5 DEF Kickstart

\* WriteConfig leaves DoneInv: services are started after the rename.
LEMMA WriteConfigDone == IInv /\ WriteConfig => DoneInv'
<1> SUFFICES ASSUME IInv, WriteConfig PROVE DoneInv' OBVIOUS
<1>1. PICK what \in {"write-tmp", "rename-tmp"} : Is(what) BY DEF WriteConfig
<1>2. Head(todo).on = "user"
  <2>1. Head(todo) \in StepsFor(command) /\ Head(todo).do = what
        BY <1>1, FirstStep DEF IInv, Is
  <2> QED BY <1>1, <2>1 DEF StepsFor
<1>3. UNCHANGED <<bin, new, archive, plist, job, path, proc, exe, arg, stuck>>
      BY DEF WriteConfig, launchd, history
<1>4. CASE GivesUp BY <1>4, GivingUp
<1>5. CASE Passes
  <2>1. /\ command' = command
        /\ \A w, t : In(todo', w, t) <=> In(todo, w, t) /\ ~(w = what /\ t = "user")
        BY <1>1, <1>2, <1>5, Passed
  <2>2. what \in KindsOf(command) /\ In(todo, what, "user")
        BY <1>1, <1>2, FirstStep DEF IInv, Ahead
  <2>3. command = "upstream" BY <2>2 DEF KindsOf, Starting, Installing
  <2>4. In(todo, "rename-tmp", "user") /\ \A t \in Services : In(todo, "if-installed", t)
        BY <2>2, <2>3 DEF IInv, ChainInv, Starts, Ahead, Services
  <2>5. ASSUME NEW t \in Services PROVE JobInv(t)'
        BY <2>1, <2>4 DEF JobInv, Ahead
  <2>6. PlistInv /\ RootInv /\ PresentInv BY <2>3 DEF IInv, DoneInv, StartInv, Starts
  <2>7. PlistInv' BY <1>3, <2>1, <2>6 DEF PlistInv, Ahead
  <2>8. RootInv' BY <1>3, <2>1, <2>6 DEF RootInv, Ahead
  <2>9. PresentInv' BY <1>3, <2>1, <2>6 DEF PresentInv, Ahead
  <2>10. StartInv' BY <2>5, <2>7, <2>8, <2>9 DEF StartInv
  <2>11. ConfigInv'
    <3>1. CASE what = "write-tmp"
      <4>1. tmp' = arg /\ config' = config
            BY <1>1, <1>5, <2>3, <3>1 DEF WriteConfig, Is, Passes, GivesUp
      <4> QED BY <1>3, <2>1, <2>3, <2>4, <3>1, <4>1 DEF IInv, DoneInv, ConfigInv, Ahead
    <3>2. CASE what = "rename-tmp"
      <4>1. config' = tmp BY <1>1, <3>2 DEF WriteConfig, Is
      <4>2. ~In(todo, "write-tmp", "user")
        <5>1. RankOf("write-tmp", "user") = 1 /\ RankOf("rename-tmp", "user") = 2 BY DEF RankOf
        <5> QED BY <1>1, <1>2, <3>2, <5>1, FirstStep DEF IInv, Ahead
      <4>3. tmp = arg BY <2>2, <2>3, <3>2, <4>2 DEF IInv, DoneInv, ConfigInv, Ahead
      <4> QED BY <1>3, <2>1, <2>3, <3>2, <4>1, <4>3 DEF IInv, DoneInv, ConfigInv, Ahead
    <3> QED BY <3>1, <3>2
  <2> QED BY <2>1, <2>3, <2>10, <2>11 DEF DoneInv, StopInv, UpdateInv
<1> QED BY <1>4, <1>5 DEF WriteConfig

\* The steps of an update are for the user's service, in name.
LEMMA UpdateStep ==
    ASSUME TodoInv, ChainInv,
           NEW what \in {"download", "verify", "cut-new", "copy-new", "rename-new", "copy-by-hand"},
           Is(what)
    PROVE  /\ command = "update" /\ Head(todo).on = "user" /\ Ahead(what, "user")
           /\ \A w, t : Ahead(w, t) /\ ~(w = what /\ t = "user")
                            => RankOf(what, "user") < RankOf(w, t)
<1>1. Head(todo) \in StepsFor(command) /\ Head(todo).do = what /\ what \in KindsOf(command)
      BY FirstStep DEF Is
<1>2. Head(todo).on = "user" BY <1>1 DEF StepsFor
<1>3. command = "update" BY <1>1 DEF KindsOf, Starting, Installing
<1> QED BY <1>2, <1>3, FirstStep

\* Download leaves DoneInv.
LEMMA DownloadDone == IInv /\ Download => DoneInv'
<1> SUFFICES ASSUME IInv, Download PROVE DoneInv' OBVIOUS
<1>1. Is("download") BY DEF Download
<1>2. CASE GivesUp BY <1>2, GivingUp
<1>3. CASE Passes
  <2>1. /\ command = "update" /\ Head(todo).on = "user" /\ In(todo, "download", "user")
        BY <1>1, UpdateStep DEF IInv, Ahead
  <2>2. /\ command' = command
        /\ \A w, t : In(todo', w, t) <=> In(todo, w, t) /\ ~(w = "download" /\ t = "user")
        BY <1>1, <1>3, <2>1, Passed
  <2>3. archive' \in {arg, Damaged} /\ UNCHANGED <<bin, new, arg, exe>> BY DEF Download
  <2>4. In(todo, "verify", "user") /\ In(todo, "copy-new", "user")
        BY <2>1 DEF IInv, DoneInv, UpdateInv, Ahead
  <2>5. UpdateInv' BY <2>1, <2>2, <2>3, <2>4 DEF IInv, DoneInv, UpdateInv, Ahead
  <2> QED BY <2>1, <2>2, <2>5 DEF DoneInv, StartInv, Starts, ConfigInv, StopInv
<1> QED BY <1>2, <1>3 DEF Download

\* Verify leaves DoneInv: what it lets pass is the release.
LEMMA VerifyDone == IInv /\ Verify => DoneInv'
<1> SUFFICES ASSUME IInv, Verify PROVE DoneInv' OBVIOUS
<1>1. Is("verify") BY DEF Verify
<1>2. CASE GivesUp BY <1>2, GivingUp
<1>3. CASE Passes /\ archive # Damaged
  <2>1. /\ command = "update" /\ Head(todo).on = "user" /\ In(todo, "verify", "user")
        /\ In(todo, "download", "user") => RankOf("verify", "user") < RankOf("download", "user")
        BY <1>1, UpdateStep DEF IInv, Ahead
  <2>2. /\ command' = command
        /\ \A w, t : In(todo', w, t) <=> In(todo, w, t) /\ ~(w = "verify" /\ t = "user")
        BY <1>1, <1>3, <2>1, Passed
  <2>3. UNCHANGED <<bin, new, archive, arg, exe>> BY DEF Verify, files
  <2>4. ~In(todo, "download", "user")
    <3>1. RankOf("verify", "user") = 34 /\ RankOf("download", "user") = 33 BY DEF RankOf
    <3> QED BY <2>1, <3>1
  <2>5. archive = arg /\ In(todo, "copy-new", "user")
        BY <1>3, <2>1, <2>4 DEF IInv, DoneInv, UpdateInv, Ahead
  <2>6. UpdateInv' BY <2>1, <2>2, <2>3, <2>4, <2>5 DEF IInv, DoneInv, UpdateInv, Ahead
  <2> QED BY <2>1, <2>2, <2>6 DEF DoneInv, StartInv, Starts, ConfigInv, StopInv
<1> QED BY <1>2, <1>3 DEF Verify

\* Replace leaves DoneInv: what takes the executable's place is the release.
LEMMA ReplaceDone == IInv /\ Replace => DoneInv' /\ bin' \in [Places -> Versions \union {None, Torn}]
                                        /\ (bin' = bin \/ bin' = [bin EXCEPT ![exe] = arg])
                                        /\ (new' \in Versions \union {None, Torn})
                                        /\ arg \in Versions
<1> SUFFICES ASSUME IInv, Replace
             PROVE  /\ DoneInv' /\ bin' \in [Places -> Versions \union {None, Torn}]
                    /\ bin' = bin \/ bin' = [bin EXCEPT ![exe] = arg]
                    /\ new' \in Versions \union {None, Torn}
                    /\ arg \in Versions
    OBVIOUS
<1>1. PICK what \in {"cut-new", "copy-new", "rename-new"} : Is(what) BY DEF Replace
<1>2. Passes /\ UNCHANGED <<archive, arg, exe>> BY DEF Replace
<1>3. /\ command = "update" /\ Head(todo).on = "user" /\ In(todo, what, "user")
      /\ \A w, t : In(todo, w, t) /\ ~(w = what /\ t = "user")
                       => RankOf(what, "user") < RankOf(w, t)
      BY <1>1, UpdateStep DEF IInv, Ahead
<1>4. /\ command' = command
      /\ \A w, t : In(todo', w, t) <=> In(todo, w, t) /\ ~(w = what /\ t = "user")
      BY <1>1, <1>2, <1>3, Passed
<1>5. /\ RankOf("download", "user") = 33 /\ RankOf("verify", "user") = 34
      /\ RankOf("cut-new", "user") = 35 /\ RankOf("copy-new", "user") = 36
      /\ RankOf("rename-new", "user") = 37
      BY DEF RankOf
<1>6. ~In(todo, "download", "user") /\ ~In(todo, "verify", "user") BY <1>3, <1>5
<1>7. archive = arg /\ arg \in Versions
      BY <1>3, <1>6 DEF IInv, DoneInv, UpdateInv, Ahead
<1>8. bin \in [Places -> Versions \union {None, Torn}] /\ exe \in Places
      BY DEF IInv, TypeOK, Places
<1>9. CASE what = "cut-new"
  <2>1. bin' = bin /\ new' = Torn BY <1>1, <1>9 DEF Replace, Is
  <2>2. In(todo, "copy-new", "user") BY <1>3, <1>9 DEF IInv, DoneInv, UpdateInv, Ahead
  <2>3. UpdateInv'
        BY <1>2, <1>3, <1>4, <1>6, <1>7, <1>9, <2>1, <2>2
        DEF IInv, DoneInv, UpdateInv, Ahead
  <2> QED BY <1>3, <1>4, <1>7, <1>8, <2>1, <2>3 DEF DoneInv, StartInv, Starts, ConfigInv, StopInv
<1>10. CASE what = "copy-new"
  <2>1. bin' = bin /\ new' = arg BY <1>1, <1>7, <1>10 DEF Replace, Is
  <2>2. ~In(todo, "cut-new", "user") BY <1>3, <1>5, <1>10
  <2>3. UpdateInv'
        BY <1>2, <1>3, <1>4, <1>6, <1>7, <1>10, <2>1, <2>2
        DEF IInv, DoneInv, UpdateInv, Ahead
  <2> QED BY <1>3, <1>4, <1>7, <1>8, <2>1, <2>3 DEF DoneInv, StartInv, Starts, ConfigInv, StopInv
<1>11. CASE what = "rename-new"
  <2>1. bin' = [bin EXCEPT ![exe] = new] /\ new' = None BY <1>1, <1>11 DEF Replace, Is
  <2>2. ~In(todo, "cut-new", "user") /\ ~In(todo, "copy-new", "user") BY <1>3, <1>5, <1>11
  <2>3. new = arg BY <1>3, <1>7, <1>11, <2>2 DEF IInv, DoneInv, UpdateInv, Ahead
  <2>4. bin'[exe] = arg /\ bin' \in [Places -> Versions \union {None, Torn}]
        BY <1>7, <1>8, <2>1, <2>3
  <2>5. UpdateInv'
        BY <1>2, <1>3, <1>4, <1>6, <1>7, <1>11, <2>1, <2>2, <2>4
        DEF IInv, DoneInv, UpdateInv, Ahead
  <2> QED BY <1>3, <1>4, <1>7, <2>1, <2>3, <2>4, <2>5
          DEF DoneInv, StartInv, Starts, ConfigInv, StopInv
<1> QED BY <1>9, <1>10, <1>11

\* ReplaceByHand leaves what it has to: the executable is the release, or it is
\* known to be written in place.
LEMMA ByHandDone ==
    ASSUME IInv, ReplaceByHand
    PROVE  /\ TodoInv' /\ ChainInv' /\ DoneInv'
           /\ arg \in Versions /\ command = "update"
           /\ \/ bin' = [bin EXCEPT ![exe] = Torn] /\ byHand' = byHand \union {exe}
              \/ bin' = [bin EXCEPT ![exe] = arg] /\ byHand' = byHand \ {exe}
           /\ new' \in {new, None}
<1>1. PICK what \in {"cut-new", "rename-new", "copy-by-hand"} : Is(what) BY DEF ReplaceByHand
<1>2. UNCHANGED <<archive, arg, exe, command>> BY DEF ReplaceByHand
<1>3. /\ command = "update" /\ Head(todo).on = "user" /\ In(todo, what, "user")
      /\ \A w, t : In(todo, w, t) /\ ~(w = what /\ t = "user")
                       => RankOf(what, "user") < RankOf(w, t)
      BY <1>1, UpdateStep DEF IInv, Ahead
<1>4. /\ RankOf("download", "user") = 33 /\ RankOf("verify", "user") = 34
      /\ RankOf("cut-new", "user") = 35 /\ RankOf("rename-new", "user") = 37
      /\ RankOf("copy-by-hand", "user") = 38
      BY DEF RankOf
<1>5. ~In(todo, "download", "user") /\ ~In(todo, "verify", "user") BY <1>3, <1>4
<1>6. archive = arg /\ arg \in Versions
      BY <1>3, <1>5 DEF IInv, DoneInv, UpdateInv, Ahead
<1>7. bin \in [Places -> Versions \union {None, Torn}] /\ exe \in Places
      BY DEF IInv, TypeOK, Places
<1>8. CASE what \in {"cut-new", "rename-new"}
  <2>1. /\ bin' = [bin EXCEPT ![exe] = Torn] /\ byHand' = byHand \union {exe}
        /\ todo' = <<Do("copy-by-hand", "user")>> /\ new' \in {new, None}
        BY <1>1, <1>8 DEF ReplaceByHand, Is
  <2> DEFINE one == Do("copy-by-hand", "user")
  <2>2. one \in StepsFor("update") /\ Rank(one) = 38 /\ one.do = "copy-by-hand" /\ one.on = "user"
        BY DEF Do, StepsFor, KindsOf, Steps, Services, Rank, RankOf
  <2>3. todo' = <<one>> BY <2>1
  <2> HIDE DEF one
  <2>4. /\ Steady(todo', "update", 38, 38)
        /\ \A w, t : In(todo', w, t) <=> w = "copy-by-hand" /\ t = "user"
        BY <2>2, <2>3, OneStep
  <2>5. TodoInv' BY <1>2, <1>3, <2>4 DEF TodoInv, Steady
  <2>6. ChainInv' BY <1>2, <1>3 DEF ChainInv, Starts
  <2>7. UpdateInv' BY <1>2, <1>6, <2>4 DEF UpdateInv, Ahead
  <2> QED BY <1>2, <1>3, <1>6, <2>1, <2>5, <2>6, <2>7
          DEF DoneInv, StartInv, Starts, ConfigInv, StopInv
<1>9. CASE what = "copy-by-hand"
  <2>1. /\ bin' = [bin EXCEPT ![exe] = arg] /\ byHand' = byHand \ {exe}
        /\ todo' = <<>> /\ new' = new
        BY <1>1, <1>6, <1>9 DEF ReplaceByHand, Is
  <2>2. bin'[exe] = arg BY <1>7, <2>1
  <2>3. \A w, t : ~In(todo', w, t) BY <2>1 DEF In
  <2>4. TodoInv' BY <2>1 DEF TodoInv, Sorted
  <2>5. ChainInv' BY <1>2, <1>3 DEF ChainInv, Starts
  <2>6. UpdateInv' BY <1>2, <1>6, <2>2, <2>3 DEF UpdateInv, Ahead
  <2> QED BY <1>2, <1>3, <1>6, <2>1, <2>4, <2>5, <2>6
          DEF DoneInv, StartInv, Starts, ConfigInv, StopInv
<1> QED BY <1>8, <1>9

\* What a command does with a service that is installed: to its end, from the
\* bootout on, and from a new plist or a new copy.
LEMMA NestedSteps ==
    ASSUME NEW c \in {"restart", "upstream"}, NEW s \in Services, c = "restart" => s = "net"
    PROVE  /\ Steady(Nested(c, s), c, IF s = "net" THEN 14 ELSE 6, IF s = "net" THEN 20 ELSE 10)
           /\ \E kinds \in SUBSET Installing :
                 /\ Starting \subseteq kinds
                 /\ s = "user" => "plist" \in kinds
                 /\ s = "net" => "copy-root" \in kinds
                 /\ \A w, t : In(Nested(c, s), w, t) <=> w \in kinds /\ t = s
<1>1. CASE s = "user"
  <2>1. Nested(c, s) = cmdInstallUser /\ c = "upstream" BY <1>1 DEF Nested
  <2> DEFINE kinds == {"plist"} \union Starting
  <2>2. /\ Steady(Nested(c, s), c, 6, 10)
        /\ \A w, t : In(Nested(c, s), w, t) <=> w \in kinds /\ t = s
        BY <1>1, <2>1, UserSteps
  <2>3. kinds \in SUBSET Installing /\ Starting \subseteq kinds /\ "plist" \in kinds
        BY DEF Installing
  <2> HIDE DEF kinds
  <2>4. \E k \in SUBSET Installing :
           /\ Starting \subseteq k /\ "plist" \in k
           /\ \A w, t : In(Nested(c, s), w, t) <=> w \in k /\ t = s
        BY <2>2, <2>3
  <2> QED BY <1>1, <2>2, <2>4
<1>2. CASE s = "net" /\ c = "restart"
  <2>1. Nested(c, s) = Restarted BY <1>2 DEF Nested
  <2> DEFINE kinds == {"cut-root", "copy-root"} \union Starting
  <2>2. /\ Steady(Nested(c, s), c, 14, 20)
        /\ \A w, t : In(Nested(c, s), w, t) <=> w \in kinds /\ t = s
        BY <1>2, <2>1, RestartedSteps
  <2>3. kinds \in SUBSET Installing /\ Starting \subseteq kinds /\ "copy-root" \in kinds
        BY DEF Installing
  <2> HIDE DEF kinds
  <2>4. \E k \in SUBSET Installing :
           /\ Starting \subseteq k /\ "copy-root" \in k
           /\ \A w, t : In(Nested(c, s), w, t) <=> w \in k /\ t = s
        BY <2>2, <2>3
  <2> QED BY <1>2, <2>2, <2>4
<1>3. CASE s = "net" /\ c = "upstream"
  <2>1. Nested(c, s) = cmdInstallNet BY <1>3 DEF Nested
  <2>2. /\ Steady(Nested(c, s), c, 14, 20)
        /\ \A w, t : In(Nested(c, s), w, t) <=> w \in Installing /\ t = s
        BY <1>3, <2>1, NetSteps
  <2>3. Starting \subseteq Installing /\ "copy-root" \in Installing BY DEF Installing
  <2>4. \E k \in SUBSET Installing :
           /\ Starting \subseteq k /\ "copy-root" \in k
           /\ \A w, t : In(Nested(c, s), w, t) <=> w \in k /\ t = s
        BY <2>2, <2>3
  <2> QED BY <1>3, <2>2, <2>4
<1> QED BY <1>1, <1>2, <1>3 DEF Services

\* IfInstalled leaves all three: the steps for an installed service come before
\* what is left, and for a service that is not there is nothing to hold.
LEMMA IfInstalledDone == IInv /\ IfInstalled => TodoInv' /\ ChainInv' /\ DoneInv'
<1> SUFFICES ASSUME IInv, IfInstalled PROVE TodoInv' /\ ChainInv' /\ DoneInv' OBVIOUS
<1>1. /\ Is("if-installed") /\ todo # <<>>
      /\ UNCHANGED <<bin, new, archive, config, tmp, plist, job, path, proc, command, exe, arg,
                     stuck>>
      BY DEF IfInstalled, Is, files, launchd, history
<1>2. PICK s \in Services : s = Head(todo).on BY <1>1, FirstStep DEF IInv
<1>3. /\ Head(todo) \in StepsFor(command) /\ Head(todo).do = "if-installed"
      /\ "if-installed" \in KindsOf(command) /\ In(todo, "if-installed", s)
      /\ \A w, t : In(todo, w, t) /\ ~(w = "if-installed" /\ t = s)
                       => RankOf("if-installed", s) < RankOf(w, t)
      BY <1>1, <1>2, FirstStep DEF IInv, Ahead, Is
<1>4. command \in {"restart", "upstream"} BY <1>3 DEF KindsOf, Starting, Installing
<1>5. /\ \A t \in Services : In(todo, "if-installed", t)
                                => \A w \in Installing : ~In(todo, w, t)
      /\ command = "restart" => s = "net"
      BY <1>3, <1>4 DEF IInv, ChainInv, Starts, Ahead, Services
<1>6. /\ RankOf("rename-tmp", "user") = 2 /\ RankOf("write-tmp", "user") = 1
      /\ RankOf("if-installed", s) = IF s = "net" THEN 13 ELSE 3
      BY DEF RankOf
<1>7. ~In(todo, "rename-tmp", "user") /\ ~In(todo, "write-tmp", "user") BY <1>3, <1>6
<1> DEFINE rest == Tail(todo)
<1>8. /\ rest \in Seq(StepsFor(command)) /\ Sorted(rest)
      /\ \A w, t : In(rest, w, t) <=> In(todo, w, t) /\ ~(w = "if-installed" /\ t = s)
      BY <1>1, <1>2, <1>3, Dropped DEF IInv, TodoInv
<1>9. PlistInv /\ RootInv /\ PresentInv /\ (\A t \in Services : JobInv(t))
      BY <1>4 DEF IInv, DoneInv, StartInv, Starts
<1>10. \A t \in Services : Fresh(t) => Fresh(t)' BY <1>1, Unmoved
<1>11. CASE plist[s] = NoPlace
  <2>1. todo' = <<>> \o rest BY <1>2, <1>11 DEF IfInstalled
  <2> HIDE DEF rest
  <2>2. todo' = rest BY <2>1, <1>8
  <2>3. \A w, t : In(todo', w, t) <=> In(todo, w, t) /\ ~(w = "if-installed" /\ t = s)
        BY <2>2, <1>8
  <2>4. TodoInv' BY <1>1, <1>8, <2>2 DEF TodoInv
  <2>5. ChainInv'
        BY <1>1, <1>4, <1>7, <2>3
        DEF IInv, ChainInv, Starts, Ahead, Services, Installing, Starting
  <2>6. ASSUME NEW t \in Services PROVE JobInv(t)'
    <3>1. CASE t # s BY <1>1, <1>9, <1>10, <2>3, <3>1 DEF JobInv, Engaged, Ahead
    <3>2. CASE t = s
      <4>1. ~In(todo', "kickstart", s) BY <1>3, <1>5, <2>3 DEF Installing, Starting
      <4> QED BY <1>1, <1>5, <1>11, <3>2, <4>1 DEF JobInv, Engaged, Ahead
    <3> QED BY <3>1, <3>2
  <2>7. PlistInv' BY <1>1, <1>9, <1>11, <2>3 DEF PlistInv, Ahead, Services
  <2>8. RootInv' BY <1>1, <1>4, <1>9, <1>11, <2>3 DEF RootInv, Ahead, Services
  <2>9. PresentInv' BY <1>1, <1>9, <2>3 DEF PresentInv, Ahead
  <2>10. ConfigInv' BY <1>1, <2>3 DEF IInv, DoneInv, ConfigInv, Ahead
  <2>11. StartInv' BY <2>6, <2>7, <2>8, <2>9 DEF StartInv
  <2> QED BY <1>1, <1>4, <2>4, <2>5, <2>10, <2>11 DEF DoneInv, StopInv, UpdateInv
<1>12. CASE plist[s] # NoPlace
  <2> DEFINE steps == Nested(command, s)
  <2>1. todo' = steps \o rest BY <1>2, <1>3, <1>12 DEF IfInstalled, StepsFor
  <2> HIDE DEF rest, steps
  <2>2. ASSUME NEW i \in DOMAIN rest
        PROVE  (IF s = "net" THEN 21 ELSE 11) <= Rank(rest[i])
    <3>1. In(rest, rest[i].do, rest[i].on) BY DEF In
    <3>2. /\ RankOf("if-installed", s) < RankOf(rest[i].do, rest[i].on)
          /\ In(todo, rest[i].do, rest[i].on)
          BY <1>3, <1>8, <3>1
    <3>3. ~(rest[i].do \in Installing /\ rest[i].on = s) BY <1>3, <1>5, <3>2
    <3>4. /\ rest[i] \in StepsFor(command) BY <1>8
    <3>5. /\ rest[i].do \in {"write-tmp", "rename-tmp", "if-installed"} \union Installing
          /\ rest[i].on \in Services
          BY <1>4, <3>4 DEF StepsFor, KindsOf, Installing
    <3> QED BY <1>6, <3>2, <3>3, <3>5 DEF Rank, RankOf, Installing, Starting, Services
  <2>3. Steady(rest, command, IF s = "net" THEN 21 ELSE 11, 39)
        BY <1>8, <2>2, RankType DEF Steady, Rank
  <2>4. /\ Steady(steps, command, IF s = "net" THEN 14 ELSE 6, IF s = "net" THEN 20 ELSE 10)
        /\ \E kinds \in SUBSET Installing :
              /\ Starting \subseteq kinds
              /\ s = "user" => "plist" \in kinds
              /\ s = "net" => "copy-root" \in kinds
              /\ \A w, t : In(steps, w, t) <=> w \in kinds /\ t = s
        BY <1>4, <1>5, NestedSteps DEF steps
  <2>5. Steady(todo', command, IF s = "net" THEN 14 ELSE 6, 39)
    <3>1. CASE s = "net"
      <4>1. Steady(steps, command, 14, 20) /\ Steady(rest, command, 21, 39) BY <2>3, <2>4, <3>1
      <4> QED BY <2>1, <3>1, <4>1, Joined
    <3>2. CASE s # "net"
      <4>1. Steady(steps, command, 6, 10) /\ Steady(rest, command, 11, 39) BY <2>3, <2>4, <3>2
      <4> QED BY <2>1, <3>2, <4>1, Joined
    <3> QED BY <3>1, <3>2
  <2>6. \A w, t : In(todo', w, t) <=> In(steps, w, t) \/ In(rest, w, t)
        BY <2>1, <2>3, <2>4, Together
  <2>7. PICK kinds \in SUBSET Installing :
           /\ Starting \subseteq kinds
           /\ s = "user" => "plist" \in kinds
           /\ s = "net" => "copy-root" \in kinds
           /\ \A w, t : In(steps, w, t) <=> w \in kinds /\ t = s
        BY <2>4
  <2>8. \A w, t : In(todo', w, t)
            <=> (w \in kinds /\ t = s) \/ (In(todo, w, t) /\ ~(w = "if-installed" /\ t = s))
        BY <1>8, <2>6, <2>7
  <2>9. In(todo', "kickstart", s) /\ In(todo', "bootout", s)
        BY <2>7, <2>8 DEF Starting
  <2>10. /\ s = "user" => In(todo', "plist", s)
         /\ s = "net" => In(todo', "copy-root", s)
         BY <2>7, <2>8
  <2>11. /\ "if-installed" \notin kinds /\ "rename-tmp" \notin kinds /\ "write-tmp" \notin kinds
         BY <2>7 DEF Installing, Starting
  <2>12. \A w, t : t # s => (In(todo', w, t) <=> In(todo, w, t)) BY <2>8
  <2>13. /\ ~In(todo', "rename-tmp", "user") /\ ~In(todo', "write-tmp", "user")
         /\ ~In(todo', "if-installed", s)
         /\ \A t : In(todo', "if-installed", t) => In(todo, "if-installed", t)
         BY <1>7, <2>8, <2>11
  <2>14. TodoInv' BY <1>1, <2>5 DEF TodoInv, Steady
  <2>15. ChainInv'
    <3>1. ASSUME NEW t \in Services
          PROVE  /\ \A what \in Installing : In(todo', what, t) => In(todo', "kickstart", t)
                 /\ In(todo', "plist", t) => In(todo', "bootout", t)
                 /\ In(todo', "if-installed", t) => \A what \in Installing : ~In(todo', what, t)
      <4>1. CASE t = s BY <2>9, <2>13, <4>1
      <4>2. CASE t # s BY <1>4, <2>12, <4>2 DEF IInv, ChainInv, Starts, Ahead
      <4> QED BY <4>1, <4>2
    <3>2. In(todo', "cut-root", "net") => In(todo', "copy-root", "net")
      <4>1. CASE s = "net" BY <2>10, <4>1
      <4>2. CASE s # "net" BY <1>4, <2>12, <4>2 DEF IInv, ChainInv, Starts, Ahead
      <4> QED BY <4>1, <4>2
    <3>3. command = "restart" => ~In(todo', "if-installed", "user")
          BY <2>13, <1>4 DEF IInv, ChainInv, Starts, Ahead
    <3> QED BY <1>1, <1>4, <2>13, <3>1, <3>2, <3>3 DEF ChainInv, Ahead
  <2>16. ASSUME NEW t \in Services PROVE JobInv(t)'
    <3>1. CASE t # s BY <1>1, <1>9, <1>10, <2>12, <3>1 DEF JobInv, Engaged, Ahead
    <3>2. CASE t = s BY <2>9, <3>2 DEF JobInv, Ahead
    <3> QED BY <3>1, <3>2
  <2>17. PlistInv' BY <1>1, <1>9, <2>10, <2>12 DEF PlistInv, Ahead, Services
  <2>18. RootInv' BY <1>1, <1>4, <1>9, <2>10, <2>12 DEF RootInv, Ahead, Services
  <2>19. PresentInv'
    <3>1. ASSUME NEW t \in Services, command = "upstream", In(todo', "plist", t)
          PROVE  plist[t] # NoPlace
      <4>1. CASE t = s BY <4>1, <1>12
      <4>2. CASE t # s BY <1>9, <2>12, <3>1, <4>2 DEF PresentInv, Ahead
      <4> QED BY <4>1, <4>2
    <3> QED BY <1>1, <1>4, <3>1 DEF PresentInv, Ahead
  <2>20. ConfigInv' BY <1>1, <1>7, <2>13 DEF IInv, DoneInv, ConfigInv, Ahead
  <2>21. StartInv' BY <2>16, <2>17, <2>18, <2>19 DEF StartInv
  <2> QED BY <1>1, <1>4, <2>14, <2>15, <2>20, <2>21 DEF DoneInv, StopInv, UpdateInv
<1> QED BY <1>11, <1>12

\* A sequence that is a command's, as the steps to go.
LEMMA Planned ==
    ASSUME NEW lo, NEW hi, Steady(todo', command', lo, hi)
    PROVE  TodoInv'
BY DEF TodoInv, Steady

\* Nothing is claimed of a command that has not begun: all its steps are ahead.
LEMMA BeginDone == IInv /\ Begin => TodoInv' /\ ChainInv' /\ DoneInv'
<1> SUFFICES ASSUME IInv, Begin PROVE TodoInv' /\ ChainInv' /\ DoneInv' OBVIOUS
<1>1. PICK c \in Commands : command' = c /\ todo' = StepsOf(c) BY DEF Begin
<1>2. CASE c = "install"
  <2>1. todo' = cmdInstall BY <1>1, <1>2 DEF StepsOf
  <2>2. TodoInv' BY <1>1, <1>2, <2>1, InstallPlan, Planned
  <2>3. /\ \A w : In(todo', w, "user") <=> w \in {"plist"} \union Starting
        /\ \A w : In(todo', w, "net") <=> w \in Installing
        BY <2>1, InstallPlan
  <2>4. ChainInv'
        BY <1>1, <1>2, <2>3 DEF ChainInv, Ahead, Services, Installing, Starting
  <2>5. \A t \in Services : JobInv(t)'
        BY <2>3 DEF JobInv, Ahead, Services, Installing, Starting
  <2>6. PlistInv' /\ RootInv' /\ PresentInv'
        BY <1>1, <1>2, <2>3 DEF PlistInv, RootInv, PresentInv, Ahead, Services, Installing
  <2>7. StartInv' BY <2>5, <2>6 DEF StartInv
  <2> QED BY <1>1, <1>2, <2>2, <2>4, <2>7 DEF DoneInv, ConfigInv, StopInv, UpdateInv
<1>3. CASE c = "restart"
  <2>1. todo' = cmdRestart BY <1>1, <1>3 DEF StepsOf
  <2>2. TodoInv' BY <1>1, <1>3, <2>1, RestartPlan, Planned
  <2>3. /\ \A w : In(todo', w, "user") <=> w \in Starting
        /\ \A w : In(todo', w, "net") <=> w = "if-installed"
        BY <2>1, RestartPlan
  <2>4. ChainInv'
        BY <1>1, <1>3, <2>3 DEF ChainInv, Ahead, Services, Installing, Starting
  <2>5. \A t \in Services : JobInv(t)'
        BY <2>3 DEF JobInv, Ahead, Services, Starting
  <2>6. PlistInv' /\ RootInv' /\ PresentInv'
        BY <1>1, <1>3, <2>3 DEF PlistInv, RootInv, PresentInv, Ahead
  <2>7. StartInv' BY <2>5, <2>6 DEF StartInv
  <2> QED BY <1>1, <1>3, <2>2, <2>4, <2>7 DEF DoneInv, ConfigInv, StopInv, UpdateInv
<1>4. CASE c = "off"
  <2>1. todo' = cmdOff BY <1>1, <1>4 DEF StepsOf
  <2>2. TodoInv' BY <1>1, <1>4, <2>1, OffPlan, Planned
  <2>3. In(todo', "bootout", "net") BY <2>1, OffPlan
  <2>4. StopInv' BY <1>1, <1>4, <2>3 DEF StopInv, Ahead, Services
  <2> QED BY <1>1, <1>4, <2>2, <2>4 DEF ChainInv, DoneInv, StartInv, Starts, ConfigInv, UpdateInv
<1>5. CASE c = "uninstall"
  <2>1. todo' = cmdUninstall BY <1>1, <1>5 DEF StepsOf
  <2>2. TodoInv' BY <1>1, <1>5, <2>1, UninstallPlan, Planned
  <2>3. \A t \in Services : In(todo', "bootout", t) /\ In(todo', "unplist", t)
        BY <2>1, UninstallPlan
  <2>4. StopInv' BY <1>1, <1>5, <2>3 DEF StopInv, Ahead, Services
  <2> QED BY <1>1, <1>5, <2>2, <2>4 DEF ChainInv, DoneInv, StartInv, Starts, ConfigInv, UpdateInv
<1>6. CASE c = "upstream"
  <2>1. todo' = cmdUpstream /\ arg' \in Configs BY <1>1, <1>6 DEF StepsOf, Begin
  <2>2. TodoInv' BY <1>1, <1>6, <2>1, UpstreamPlan, Planned
  <2>3. /\ \A w : In(todo', w, "user") <=> w \in {"write-tmp", "rename-tmp", "if-installed"}
        /\ \A w : In(todo', w, "net") <=> w = "if-installed"
        BY <2>1, UpstreamPlan DEF Services
  <2>4. ChainInv'
        BY <1>1, <1>6, <2>3 DEF ChainInv, Ahead, Services, Installing, Starting
  <2>5. \A t \in Services : JobInv(t)' BY <2>3 DEF JobInv, Ahead, Services
  <2>6. PlistInv' /\ RootInv' /\ PresentInv'
        BY <1>1, <1>6, <2>3 DEF PlistInv, RootInv, PresentInv, Ahead, Services
  <2>7. StartInv' BY <2>5, <2>6 DEF StartInv
  <2>8. ConfigInv' BY <2>1, <2>3 DEF ConfigInv, Ahead
  <2> QED BY <1>1, <1>6, <2>2, <2>4, <2>7, <2>8 DEF DoneInv, StopInv, UpdateInv
<1>7. CASE c = "update"
  <2>1. todo' = cmdUpdate /\ arg' \in Versions BY <1>1, <1>7 DEF StepsOf, Begin
  <2>2. TodoInv' BY <1>1, <1>7, <2>1, UpdatePlan, Planned
  <2>3. \A w \in {"download", "verify", "cut-new", "copy-new", "rename-new"} : In(todo', w, "user")
        BY <2>1, UpdatePlan
  <2>4. UpdateInv' BY <2>1, <2>3 DEF UpdateInv, Ahead
  <2> QED BY <1>1, <1>7, <2>2, <2>4 DEF ChainInv, DoneInv, StartInv, Starts, ConfigInv, StopInv
<1> QED BY <1>2, <1>3, <1>4, <1>5, <1>6, <1>7 DEF Commands

\* Leave and Relaunch, launchd's own, leave DoneInv.
LEMMA LaunchdDone == IInv /\ (Leave \/ Relaunch) => TodoInv' /\ ChainInv' /\ DoneInv'
<1> SUFFICES ASSUME IInv, Leave \/ Relaunch PROVE TodoInv' /\ ChainInv' /\ DoneInv' OBVIOUS
<1>1. UNCHANGED <<bin, new, archive, config, tmp, plist, path, command, exe, arg, todo, stuck>>
      BY DEF Leave, Relaunch, files, history
<1>2. TodoInv' /\ ChainInv' BY <1>1 DEF IInv, TodoInv, ChainInv, Starts, Ahead
<1>3. /\ \A t \in Services : job'[t] = "in" => job[t] = "in"
      /\ \A t \in Services : job[t] = "in" => job'[t] = "in"
      /\ \A t \in Services : proc'[t] \in {proc[t], Started(path[t])}
  <2>1. job \in [Services -> {"out", "in", "leaving"}] /\ DOMAIN proc = Services
        BY DEF IInv, TypeOK
  <2>2. CASE Leave BY <2>1, <2>2 DEF Leave
  <2>3. CASE Relaunch BY <2>1, <2>3 DEF Relaunch
  <2> QED BY <2>2, <2>3
<1>4. \A t \in Services : Fresh(t) => Fresh(t)'
  <2>1. \A t : Started(path[t])' = Started(path[t]) BY <1>1 DEF Started
  <2> QED BY <1>1, <1>3, <2>1 DEF Fresh, LaunchdHas
<1>5. StartInv'
  <2>1. ASSUME Starts, NEW t \in Services PROVE JobInv(t)'
    <3>1. JobInv(t) BY <2>1 DEF IInv, DoneInv, StartInv
    <3> QED BY <1>1, <1>3, <1>4, <3>1 DEF JobInv, Engaged, Ahead
  <2>2. ASSUME Starts PROVE PlistInv' /\ RootInv' /\ PresentInv'
        BY <1>1, <2>2 DEF IInv, DoneInv, StartInv, PlistInv, RootInv, PresentInv, Ahead
  <2> QED BY <1>1, <2>1, <2>2 DEF StartInv, Starts
<1>6. ConfigInv' /\ UpdateInv' BY <1>1 DEF IInv, DoneInv, ConfigInv, UpdateInv, Ahead
<1>7. StopInv' BY <1>1, <1>3 DEF IInv, DoneInv, StopInv, Ahead
<1> QED BY <1>2, <1>5, <1>6, <1>7 DEF DoneInv

-----------------------------------------------------------------------------
(* Types, and what launchd may start.                                      *)

\* What is to go is known steps, and nothing when there is no command.
LEMMA StepTypes ==
    ASSUME NEW c, NEW q \in Seq(StepsFor(c))
    PROVE  /\ \A i \in DOMAIN q : q[i].do \in Steps /\ q[i].on \in Services
           /\ c = "none" => q = <<>>
<1>1. \A step \in StepsFor(c) : step.do \in Steps /\ step.on \in Services /\ step.do \in KindsOf(c)
      BY DEF StepsFor
<1>2. ASSUME c = "none", q # <<>> PROVE FALSE
  <2>1. Head(q) \in StepsFor(c) BY <1>2
  <2> QED BY <1>1, <1>2, <2>1 DEF KindsOf
<1> QED BY <1>1, <1>2

\* What is started is a release with a configuration, or nothing is.
LEMMA StartedType ==
    ASSUME NothingTorn, NEW p
    PROVE  Started(p) \in [bin : Versions \union {None}, config : Configs \union {None}]
BY DEF NothingTorn, Started, Off

\* What a step has to keep, but for the steps to go.
Kept == TypeOK /\ NothingTorn /\ PathInv

\* A step that touches only the steps to go, and the counter of faults.
LEMMA OnlyTodo ==
    ASSUME IInv, TodoInv', UNCHANGED <<files, launchd, exe, arg, history, commands>>,
           faults' \in 0..MaxFaults, command' \in {command, "none"}
    PROVE  Kept'
<1>1. UNCHANGED <<bin, new, archive, config, tmp, plist, job, path, proc, exe, arg, stuck, byHand,
                  commands>>
      BY DEF files, launchd, history
<1>2. TypeOK' BY <1>1, StepTypes DEF IInv, TypeOK, TodoInv
<1>3. NothingTorn' BY <1>1 DEF IInv, NothingTorn
<1>4. PathInv' BY <1>1 DEF IInv, PathInv
<1> QED BY <1>2, <1>3, <1>4 DEF Kept

\* A fault is one of those that are allowed for.
LEMMA FaultType == TypeOK /\ (Faulty \/ UNCHANGED faults) => faults' \in 0..MaxFaults
BY DeployAssumption DEF TypeOK, Faulty

\* Plist keeps them: the user's plist never names root's copy.
LEMMA PlistKept == IInv /\ Plist /\ TodoInv' => Kept'
<1> SUFFICES ASSUME IInv, Plist, TodoInv' PROVE Kept' OBVIOUS
<1>1. /\ UNCHANGED <<bin, new, archive, config, tmp, job, path, proc, exe, arg, stuck, byHand,
                     commands, command>>
      /\ Faulty \/ UNCHANGED faults
      BY DEF Plist, launchd, history, Passes
<1>2. faults' \in 0..MaxFaults BY <1>1, FaultType DEF IInv
<1>3. plist' \in [Services -> Places \union {NoPlace}] /\ plist'["user"] # Root
  <2>1. plist \in [Services -> Places \union {NoPlace}] /\ plist["user"] # Root /\ exe \in Exes
        BY DEF IInv, TypeOK
  <2>2. Exes \subseteq Places /\ Root \in Places /\ Root \notin Exes /\ NoPlace # Root
        BY DeployAssumption DEF Places
  <2>3. PICK s : s = Head(todo).on OBVIOUS
  <2>4. plist' \in {plist, [plist EXCEPT ![s] = NoPlace],
                    [plist EXCEPT ![s] = IF s = "user" THEN exe ELSE Root]}
        BY <2>3 DEF Plist
  <2> QED BY <2>1, <2>2, <2>4 DEF Services
<1>4. TypeOK' BY <1>1, <1>2, <1>3, StepTypes DEF IInv, TypeOK, TodoInv
<1>5. NothingTorn' BY <1>1 DEF IInv, NothingTorn
<1>6. PathInv' BY <1>1 DEF IInv, PathInv
<1> QED BY <1>4, <1>5, <1>6 DEF Kept

\* RootBinary keeps them: root's copy may be torn, a place to run from not.
LEMMA RootBinaryKept == IInv /\ RootBinary /\ TodoInv' => Kept'
<1> SUFFICES ASSUME IInv, RootBinary, TodoInv' PROVE Kept' OBVIOUS
<1>1. /\ UNCHANGED <<new, archive, config, tmp, plist, job, path, proc, exe, arg, stuck, byHand,
                     commands, command>>
      /\ Faulty \/ UNCHANGED faults
      BY DEF RootBinary, launchd, history, Passes
<1>2. faults' \in 0..MaxFaults BY <1>1, FaultType DEF IInv
<1>3. /\ bin' \in [Places -> Versions \union {None, Torn}]
      /\ \A e \in Exes : bin'[e] = bin[e]
  <2>1. bin \in [Places -> Versions \union {None, Torn}] /\ exe \in Exes
        BY DEF IInv, TypeOK
  <2>2. Exes \subseteq Places /\ Root \in Places /\ Root \notin Exes
        BY DeployAssumption DEF Places
  <2>3. bin' \in {bin, [bin EXCEPT ![Root] = Torn], [bin EXCEPT ![Root] = bin[exe]],
                  [bin EXCEPT ![Root] = None]}
        BY DEF RootBinary
  <2> QED BY <2>1, <2>2, <2>3
<1>4. TypeOK' BY <1>1, <1>2, <1>3, StepTypes DEF IInv, TypeOK, TodoInv
<1>5. NothingTorn' BY <1>1, <1>3 DEF IInv, NothingTorn
<1>6. PathInv' BY <1>1 DEF IInv, PathInv
<1> QED BY <1>4, <1>5, <1>6 DEF Kept

\* BootOut keeps them.
LEMMA BootOutKept == IInv /\ BootOut /\ TodoInv' => Kept'
<1> SUFFICES ASSUME IInv, BootOut, TodoInv' PROVE Kept' OBVIOUS
<1>1. /\ UNCHANGED <<bin, new, archive, config, tmp, plist, path, exe, arg, byHand, commands,
                     command>>
      /\ Faulty \/ UNCHANGED faults
      BY DEF BootOut, files, Passes
<1>2. faults' \in 0..MaxFaults BY <1>1, FaultType DEF IInv
<1>3. PICK s \in Services : s = Head(todo).on BY FirstStep DEF IInv, BootOut
<1>4. /\ job' \in {job, [job EXCEPT ![s] = "leaving"]} /\ proc' \in {proc, [proc EXCEPT ![s] = Off]}
      /\ stuck' \in {stuck, stuck \ {s}, stuck \union {s}}
      BY <1>3 DEF BootOut
<1>5. /\ job' \in [Services -> {"out", "in", "leaving"}] /\ stuck' \subseteq Services
      /\ \A t \in Services : job'[t] = "in" => job[t] = "in"
      BY <1>3, <1>4 DEF IInv, TypeOK
<1>6. proc' \in [Services -> [bin : Versions \union {None}, config : Configs \union {None}]]
  <2>1. Off \in [bin : Versions \union {None}, config : Configs \union {None}] BY DEF Off
  <2> QED BY <1>3, <1>4, <2>1 DEF IInv, TypeOK
<1>7. TypeOK' BY <1>1, <1>2, <1>5, <1>6, StepTypes DEF IInv, TypeOK, TodoInv
<1>8. NothingTorn' BY <1>1 DEF IInv, NothingTorn
<1>9. PathInv' BY <1>1, <1>5 DEF IInv, PathInv
<1> QED BY <1>7, <1>8, <1>9 DEF Kept

\* Bootstrap keeps them: the job is the plist's, and the user's is not root's.
LEMMA BootstrapKept == IInv /\ Bootstrap /\ TodoInv' => Kept'
<1> SUFFICES ASSUME IInv, Bootstrap, TodoInv' PROVE Kept' OBVIOUS
<1>1. UNCHANGED <<bin, new, archive, config, tmp, plist, exe, arg, stuck, byHand, commands, command,
                  faults>>
      BY DEF Bootstrap, files, history, Passes
<1>2. PICK s \in Services : s = Head(todo).on BY FirstStep DEF IInv, Bootstrap
<1>3. CASE UNCHANGED launchd
      BY <1>1, <1>3, OnlyTodo DEF files, history, IInv, TypeOK
<1>4. CASE /\ plist[s] # NoPlace
           /\ job' = [job EXCEPT ![s] = "in"] /\ path' = [path EXCEPT ![s] = plist[s]]
           /\ proc' = [proc EXCEPT ![s] = Started(plist[s])]
  <2>1. /\ job' \in [Services -> {"out", "in", "leaving"}]
        /\ path' \in [Services -> Places \union {NoPlace}]
        BY <1>4 DEF IInv, TypeOK
  <2>2. proc' \in [Services -> [bin : Versions \union {None}, config : Configs \union {None}]]
    <3>1. Started(plist[s]) \in [bin : Versions \union {None}, config : Configs \union {None}]
          BY StartedType DEF IInv
    <3> QED BY <1>4, <3>1 DEF IInv, TypeOK
  <2>3. TypeOK' BY <1>1, <2>1, <2>2, StepTypes DEF IInv, TypeOK, TodoInv
  <2>4. NothingTorn' BY <1>1 DEF IInv, NothingTorn
  <2>5. PathInv' BY <1>1, <1>4 DEF IInv, PathInv, TypeOK, Services
  <2> QED BY <2>3, <2>4, <2>5 DEF Kept
<1> QED BY <1>2, <1>3, <1>4 DEF Bootstrap

\* A process that is started from what is there keeps them.
LEMMA StartedKept ==
    ASSUME IInv, TodoInv', command' \in {command, "none"},
           UNCHANGED <<files, job, path, exe, arg, history, commands, faults>>,
           NEW s \in Services, proc' \in {proc, [proc EXCEPT ![s] = Started(path[s])]}
    PROVE  Kept'
<1>1. UNCHANGED <<bin, new, archive, config, tmp, plist, stuck, byHand>> BY DEF files, history
<1>2. proc' \in [Services -> [bin : Versions \union {None}, config : Configs \union {None}]]
  <2>1. Started(path[s]) \in [bin : Versions \union {None}, config : Configs \union {None}]
        BY StartedType DEF IInv
  <2> QED BY <2>1 DEF IInv, TypeOK
<1>3. TypeOK' BY <1>1, <1>2, StepTypes DEF IInv, TypeOK, TodoInv
<1>4. NothingTorn' BY <1>1 DEF IInv, NothingTorn
<1>5. PathInv' BY <1>1 DEF IInv, PathInv
<1> QED BY <1>3, <1>4, <1>5 DEF Kept

\* WriteConfig keeps them: what takes config.json's place is whole.
LEMMA WriteConfigKept == IInv /\ WriteConfig /\ TodoInv' => Kept'
<1> SUFFICES ASSUME IInv, WriteConfig, TodoInv' PROVE Kept' OBVIOUS
<1>1. /\ UNCHANGED <<bin, new, archive, plist, job, path, proc, exe, arg, stuck, byHand, commands>>
      /\ command' \in {command, "none"}
      /\ Faulty \/ UNCHANGED faults
      BY DEF WriteConfig, launchd, history, Passes, GivesUp
<1>2. faults' \in 0..MaxFaults BY <1>1, FaultType DEF IInv
<1>3. PICK what \in {"write-tmp", "rename-tmp"} : Is(what) BY DEF WriteConfig
<1>4. Head(todo).on = "user" /\ Head(todo).do = what
  <2>1. Head(todo) \in StepsFor(command) /\ Head(todo).do = what
        BY <1>3, FirstStep DEF IInv, Is
  <2> QED BY <1>3, <2>1 DEF StepsFor
<1>5. /\ what \in KindsOf(command) /\ In(todo, what, "user")
      /\ \A w, t : In(todo, w, t) /\ ~(w = what /\ t = "user")
                       => RankOf(what, "user") < RankOf(w, t)
      BY <1>3, <1>4, FirstStep DEF IInv, Ahead
<1>6. command = "upstream" BY <1>3, <1>5 DEF KindsOf, Starting, Installing
<1>7. arg \in Configs BY <1>6 DEF IInv, DoneInv, ConfigInv
<1>8. /\ {config', tmp'} \subseteq Configs \union {None, Torn}
      /\ config' \in Configs \union {None}
  <2>1. CASE what = "write-tmp"
    <3>1. config' = config /\ tmp' \in {arg, Torn} BY <1>4, <2>1 DEF WriteConfig, Is
    <3> QED BY <1>7, <3>1 DEF IInv, TypeOK, NothingTorn
  <2>2. CASE what = "rename-tmp"
    <3>1. config' = tmp /\ tmp' = None BY <1>4, <2>2 DEF WriteConfig, Is
    <3>2. ~In(todo, "write-tmp", "user")
      <4>1. RankOf("write-tmp", "user") = 1 /\ RankOf("rename-tmp", "user") = 2 BY DEF RankOf
      <4> QED BY <1>5, <2>2, <4>1
    <3>3. tmp = arg BY <1>5, <1>6, <2>2, <3>2 DEF IInv, DoneInv, ConfigInv, Ahead
    <3> QED BY <1>7, <3>1, <3>3
  <2> QED BY <2>1, <2>2
<1>9. TypeOK' BY <1>1, <1>2, <1>8, StepTypes DEF IInv, TypeOK, TodoInv
<1>10. NothingTorn' BY <1>1, <1>8 DEF IInv, NothingTorn
<1>11. PathInv' BY <1>1 DEF IInv, PathInv
<1> QED BY <1>9, <1>10, <1>11 DEF Kept

\* Download keeps them.
LEMMA DownloadKept == IInv /\ Download /\ TodoInv' => Kept'
<1> SUFFICES ASSUME IInv, Download, TodoInv' PROVE Kept' OBVIOUS
<1>1. /\ UNCHANGED <<bin, new, config, tmp, plist, job, path, proc, exe, arg, stuck, byHand,
                     commands, faults>>
      /\ command' \in {command, "none"}
      BY DEF Download, launchd, history, Passes, GivesUp
<1>2. archive' \in Versions \union {Damaged}
  <2>1. command = "update" BY UpdateStep DEF IInv, Download
  <2>2. arg \in Versions BY <2>1 DEF IInv, DoneInv, UpdateInv
  <2> QED BY <2>2 DEF Download
<1>3. TypeOK' BY <1>1, <1>2, StepTypes DEF IInv, TypeOK, TodoInv
<1>4. NothingTorn' BY <1>1 DEF IInv, NothingTorn
<1>5. PathInv' BY <1>1 DEF IInv, PathInv
<1> QED BY <1>3, <1>4, <1>5 DEF Kept

\* Replace keeps them: what takes a place to run from is whole.
LEMMA ReplaceKept == IInv /\ Replace /\ TodoInv' => Kept'
<1> SUFFICES ASSUME IInv, Replace, TodoInv' PROVE Kept' OBVIOUS
<1>1. UNCHANGED <<archive, config, tmp, plist, job, path, proc, exe, arg, stuck, byHand,
                  commands, faults, command>>
      BY DEF Replace, launchd, history, Passes
<1>2. /\ bin' \in [Places -> Versions \union {None, Torn}]
      /\ bin' = bin \/ bin' = [bin EXCEPT ![exe] = arg]
      /\ new' \in Versions \union {None, Torn} /\ arg \in Versions
      BY ReplaceDone
<1>3. TypeOK' BY <1>1, <1>2, StepTypes DEF IInv, TypeOK, TodoInv
<1>4. NothingTorn'
  <2>1. bin \in [Places -> Versions \union {None, Torn}] /\ Exes \subseteq Places
        BY DEF IInv, TypeOK, Places
  <2>2. \A e \in Exes : bin'[e] = bin[e] \/ bin'[e] = arg BY <1>2, <2>1
  <2> QED BY <1>1, <1>2, <2>2 DEF IInv, NothingTorn
<1>5. PathInv' BY <1>1 DEF IInv, PathInv
<1> QED BY <1>3, <1>4, <1>5 DEF Kept

\* ReplaceByHand keeps them: it is known what it writes in place.
LEMMA ByHandKept == IInv /\ ReplaceByHand /\ TodoInv' => Kept'
<1> SUFFICES ASSUME IInv, ReplaceByHand, TodoInv' PROVE Kept' OBVIOUS
<1>1. UNCHANGED <<archive, config, tmp, plist, job, path, proc, exe, arg, stuck,
                  commands, faults, command>>
      BY DEF ReplaceByHand, launchd
<1>2. /\ arg \in Versions /\ new' \in {new, None}
      /\ \/ bin' = [bin EXCEPT ![exe] = Torn] /\ byHand' = byHand \union {exe}
         \/ bin' = [bin EXCEPT ![exe] = arg] /\ byHand' = byHand \ {exe}
      BY ByHandDone
<1>3. bin \in [Places -> Versions \union {None, Torn}] /\ Exes \subseteq Places /\ exe \in Exes
      BY DEF IInv, TypeOK, Places
<1>4. /\ bin' \in [Places -> Versions \union {None, Torn}] /\ byHand' \subseteq Exes
      BY <1>2, <1>3 DEF IInv, TypeOK
<1>5. TypeOK' BY <1>1, <1>2, <1>4, StepTypes DEF IInv, TypeOK, TodoInv
<1>6. \A e \in Exes : bin'[e] \in Versions \/ (bin'[e] = Torn /\ e \in byHand')
  <2>1. ASSUME NEW e \in Exes
        PROVE  bin'[e] \in Versions \/ (bin'[e] = Torn /\ e \in byHand')
    <3>1. CASE e = exe BY <1>2, <1>3, <3>1
    <3>2. CASE e # exe BY <1>2, <1>3, <3>2 DEF IInv, NothingTorn
    <3> QED BY <3>1, <3>2
  <2> QED BY <2>1
<1>7. NothingTorn' BY <1>1, <1>6 DEF IInv, NothingTorn
<1>8. PathInv' BY <1>1 DEF IInv, PathInv
<1> QED BY <1>5, <1>7, <1>8 DEF Kept

\* Begin keeps them.
LEMMA BeginKept == IInv /\ Begin /\ TodoInv' => Kept'
<1> SUFFICES ASSUME IInv, Begin, TodoInv' PROVE Kept' OBVIOUS
<1>1. UNCHANGED <<bin, new, archive, config, tmp, plist, job, path, proc, stuck, byHand, faults>>
      BY DEF Begin, files, launchd, history
<1>2. command' \in Commands /\ exe' \in Exes /\ arg' \in Versions \union Configs \union {None}
      BY DEF Begin
<1>3. commands' \in 0..MaxCommands BY DeployAssumption DEF IInv, TypeOK, Begin
<1>4. TypeOK' BY <1>1, <1>2, <1>3, StepTypes DEF IInv, TypeOK, TodoInv
<1>5. NothingTorn' BY <1>1 DEF IInv, NothingTorn
<1>6. PathInv' BY <1>1 DEF IInv, PathInv
<1> QED BY <1>4, <1>5, <1>6 DEF Kept

\* Leave keeps them.
LEMMA LeaveKept == IInv /\ Leave /\ TodoInv' => Kept'
<1> SUFFICES ASSUME IInv, Leave, TodoInv' PROVE Kept' OBVIOUS
<1>1. UNCHANGED <<bin, new, archive, config, tmp, plist, path, proc, exe, arg, stuck, byHand,
                  commands, faults, command>>
      BY DEF Leave, files, history
<1>2. /\ job' \in [Services -> {"out", "in", "leaving"}]
      /\ \A t \in Services : job'[t] = "in" => job[t] = "in"
      BY DEF Leave, IInv, TypeOK
<1>3. TypeOK' BY <1>1, <1>2, StepTypes DEF IInv, TypeOK, TodoInv
<1>4. NothingTorn' BY <1>1 DEF IInv, NothingTorn
<1>5. PathInv' BY <1>1, <1>2 DEF IInv, PathInv
<1> QED BY <1>3, <1>4, <1>5 DEF Kept

-----------------------------------------------------------------------------
(* The invariant.                                                          *)

\* It holds at first.
LEMMA InitInv == Init => IInv
<1> SUFFICES ASSUME Init PROVE IInv OBVIOUS
<1>1. TypeOK
  <2>1. /\ bin \in [Places -> Versions \union {None, Torn}]
        /\ plist \in [Services -> Places \union {NoPlace}] /\ plist["user"] # Root
        /\ path \in [Services -> Places \union {NoPlace}]
        /\ job \in [Services -> {"out", "in", "leaving"}]
        BY DeployAssumption DEF Init, Places, Services
  <2>2. proc \in [Services -> [bin : Versions \union {None}, config : Configs \union {None}]]
        BY DEF Init, Off
  <2>3. \A i \in DOMAIN todo : todo[i].do \in Steps /\ todo[i].on \in Services BY DEF Init
  <2> QED BY <2>1, <2>2, <2>3, DeployAssumption DEF Init, TypeOK
<1>2. NothingTorn BY DEF Init, NothingTorn
<1>3. PathInv BY DeployAssumption DEF Init, PathInv, Services
<1>4. TodoInv BY DEF Init, TodoInv, Sorted
<1>5. ChainInv /\ DoneInv
      BY DEF Init, ChainInv, DoneInv, StartInv, Starts, ConfigInv, StopInv, UpdateInv
<1> QED BY <1>1, <1>2, <1>3, <1>4, <1>5 DEF IInv

\* A step whose command passes or gives up leaves the steps to go as they
\* should be.
LEMMA Going ==
    ASSUME IInv, todo # <<>>, Passes \/ GivesUp
    PROVE  TodoInv' /\ ChainInv' /\ command' \in {command, "none"}
<1>1. CASE Passes BY <1>1, Passing DEF IInv, Passes
<1>2. CASE GivesUp BY <1>2, GivingUp DEF GivesUp
<1> QED BY <1>1, <1>2

\* Every step of a command keeps the invariant.
LEMMA StepInv == IInv /\ Step => IInv'
<1> SUFFICES ASSUME IInv, Step PROVE IInv' OBVIOUS
<1>1. faults \in 0..MaxFaults BY DEF IInv, TypeOK
<1>2. CASE Fail
  <2>1. TodoInv' /\ ChainInv' /\ DoneInv' BY <1>2, GivingUp DEF Fail
  <2>2. faults' \in 0..MaxFaults BY <1>2, FaultType DEF Fail, IInv
  <2>3. Kept' BY <1>2, <2>1, <2>2, OnlyTodo DEF Fail, GivesUp
  <2> QED BY <2>1, <2>3 DEF IInv, Kept
<1>3. CASE IfInstalled
  <2>1. TodoInv' /\ ChainInv' /\ DoneInv' BY <1>3, IfInstalledDone
  <2>2. Kept' BY <1>1, <1>3, <2>1, OnlyTodo DEF IfInstalled
  <2> QED BY <2>1, <2>2 DEF IInv, Kept
<1>4. CASE Plist
  <2>1. TodoInv' /\ ChainInv' BY <1>4, Going DEF Plist, Is
  <2> QED BY <1>4, <2>1, PlistDone, PlistKept DEF IInv, Kept
<1>5. CASE RootBinary
  <2>1. TodoInv' /\ ChainInv' BY <1>5, Going DEF RootBinary, Is
  <2> QED BY <1>5, <2>1, RootBinaryDone, RootBinaryKept DEF IInv, Kept
<1>6. CASE BootOut
  <2>1. TodoInv' /\ ChainInv' BY <1>6, Going DEF BootOut, Is
  <2> QED BY <1>6, <2>1, BootOutDone, BootOutKept DEF IInv, Kept
<1>7. CASE Bootstrap
  <2>1. TodoInv' /\ ChainInv' BY <1>7, Going DEF Bootstrap, Is
  <2> QED BY <1>7, <2>1, BootstrapDone, BootstrapKept DEF IInv, Kept
<1>8. CASE Loaded
  <2>1. /\ TodoInv' /\ ChainInv' /\ command' \in {command, "none"}
        BY <1>8, Going DEF Loaded, Is
  <2>2. Kept' BY <1>1, <1>8, <2>1, OnlyTodo DEF Loaded
  <2> QED BY <1>8, <2>1, <2>2, LoadedDone DEF IInv, Kept
<1>9. CASE Kickstart
  <2>1. /\ TodoInv' /\ ChainInv' /\ command' \in {command, "none"}
        BY <1>9, Going DEF Kickstart, Is
  <2>2. PICK s \in Services : s = Head(todo).on BY <1>9, FirstStep DEF IInv, Kickstart
  <2>3. Kept' BY <1>9, <2>1, <2>2, StartedKept DEF Kickstart
  <2> QED BY <1>9, <2>1, <2>3, KickstartDone DEF IInv, Kept
<1>10. CASE WriteConfig
  <2>1. TodoInv' /\ ChainInv' BY <1>10, Going DEF WriteConfig, Is
  <2> QED BY <1>10, <2>1, WriteConfigDone, WriteConfigKept DEF IInv, Kept
<1>11. CASE Download
  <2>1. TodoInv' /\ ChainInv' BY <1>11, Going DEF Download, Is
  <2> QED BY <1>11, <2>1, DownloadDone, DownloadKept DEF IInv, Kept
<1>12. CASE Verify
  <2>1. /\ TodoInv' /\ ChainInv' /\ command' \in {command, "none"}
        BY <1>12, Going DEF Verify, Is
  <2>2. Kept' BY <1>1, <1>12, <2>1, OnlyTodo DEF Verify
  <2> QED BY <1>12, <2>1, <2>2, VerifyDone DEF IInv, Kept
<1>13. CASE Replace
  <2>1. TodoInv' /\ ChainInv' BY <1>13, Going DEF Replace, Is
  <2> QED BY <1>13, <2>1, ReplaceDone, ReplaceKept DEF IInv, Kept
<1>14. CASE ReplaceByHand BY <1>14, ByHandDone, ByHandKept DEF IInv, Kept
<1> QED BY <1>2, <1>3, <1>4, <1>5, <1>6, <1>7, <1>8, <1>9, <1>10, <1>11, <1>12, <1>13, <1>14
        DEF Step

\* So does every other step.
LEMMA NextInv == IInv /\ [Next]_vars => IInv'
<1> SUFFICES ASSUME IInv, [Next]_vars PROVE IInv' OBVIOUS
<1>1. CASE Begin BY <1>1, BeginDone, BeginKept DEF IInv, Kept
<1>2. CASE End
  <2>1. GivesUp BY <1>2 DEF End, GivesUp
  <2>2. TodoInv' /\ ChainInv' /\ DoneInv' BY <2>1, GivingUp
  <2>3. faults' \in 0..MaxFaults BY <1>2 DEF End, IInv, TypeOK
  <2>4. Kept' BY <1>2, <2>2, <2>3, OnlyTodo DEF End
  <2> QED BY <2>2, <2>4 DEF IInv, Kept
<1>3. CASE Leave BY <1>3, LaunchdDone, LeaveKept DEF IInv, Kept
<1>4. CASE Relaunch
  <2>1. TodoInv' /\ ChainInv' /\ DoneInv' BY <1>4, LaunchdDone
  <2>2. PICK s \in Services : proc' = [proc EXCEPT ![s] = Started(path[s])]
        BY <1>4 DEF Relaunch
  <2>3. Kept' BY <1>4, <2>1, <2>2, StartedKept DEF Relaunch
  <2> QED BY <2>1, <2>3 DEF IInv, Kept
<1>5. CASE UNCHANGED vars
  <2>1. UNCHANGED <<bin, new, archive, config, tmp, plist, job, path, proc, command, exe, arg, todo,
                    stuck, byHand, commands, faults>>
        BY <1>5 DEF vars, files, launchd, history
  <2>2. TodoInv' /\ ChainInv' BY <2>1 DEF IInv, TodoInv, ChainInv, Starts, Ahead
  <2>3. DoneInv' BY <2>1, Idle
  <2>4. faults' \in 0..MaxFaults BY <2>1 DEF IInv, TypeOK
  <2>5. Kept' BY <2>1, <2>2, <2>4, OnlyTodo DEF files, launchd, history
  <2> QED BY <2>2, <2>3, <2>5 DEF IInv, Kept
<1> QED BY <1>1, <1>2, <1>3, <1>4, <1>5, StepInv DEF Next

\* What every step that is done has brought is still so, whatever else has
\* happened: earlier commands that failed or were killed, and relaunches.
THEOREM Invariant == Spec => []IInv
BY InitInv, NextInv, PTL DEF Spec

\* Every variable keeps its type.
THEOREM TypeCorrect == Spec => []TypeOK
<1>1. IInv => TypeOK BY DEF IInv
<1> QED BY <1>1, Invariant, PTL

\* config.json, and every binary that a user runs, is whole at every moment, in
\* spite of kills, failed steps and damaged downloads, but for the executable
\* that `sudo install` is writing in place: the copies beside them are renamed
\* over them only when they are whole (writeUpstreamConfig,
\* replaceCurrentExecutable, verifyReleaseChecksum).
THEOREM AlwaysWhole == Spec => []NothingTorn
<1>1. IInv => NothingTorn BY DEF IInv
<1> QED BY <1>1, Invariant, PTL

\* No step tears the binary of a command that starts services.
LEMMA OwnStep == IInv /\ OwnInv /\ Step => OwnInv'
<1> SUFFICES ASSUME IInv, OwnInv, Step PROVE OwnInv' OBVIOUS
<1>1. /\ exe \in Exes /\ bin \in [Places -> Versions \union {None, Torn}]
      /\ plist \in [Services -> Places \union {NoPlace}] /\ TodoInv
      BY DEF IInv, TypeOK
<1>2. exe' = exe /\ command' \in {command, "none"}
      BY DEF Step, Fail, IfInstalled, Plist, RootBinary, BootOut, Bootstrap, Loaded,
             Kickstart, WriteConfig, Download, Verify, Replace, ReplaceByHand, Passes, GivesUp
<1>3. Starts' => Starts BY <1>2 DEF Starts
<1>4. CASE Plist
  <2>1. plist'["net"] \in {NoPlace, Root} BY <1>1, <1>4 DEF Plist, OwnInv, Services
  <2> QED BY <1>2, <1>3, <1>4, <2>1 DEF Plist, OwnInv
<1>5. CASE RootBinary
  <2>1. bin'[exe] = bin[exe] BY <1>1, <1>5, DeployAssumption DEF RootBinary, Places
  <2> QED BY <1>2, <1>3, <1>5, <2>1 DEF RootBinary, OwnInv
<1>6. CASE Replace \/ ReplaceByHand
  <2>1. PICK w \in {"cut-new", "copy-new", "rename-new", "copy-by-hand"} : Is(w)
        BY <1>6 DEF Replace, ReplaceByHand
  <2>2. w \in KindsOf(command) BY <1>1, <2>1, FirstStep
  <2>3. ~Starts BY <2>2 DEF Starts, KindsOf, Starting, Installing
  <2> QED BY <1>3, <1>6, <2>3 DEF OwnInv, Replace, ReplaceByHand
<1>7. CASE UNCHANGED <<bin, plist>> BY <1>2, <1>3, <1>7 DEF OwnInv
<1> QED BY <1>4, <1>5, <1>6, <1>7
    DEF Step, Fail, IfInstalled, BootOut, Bootstrap, Loaded, Kickstart, WriteConfig,
        Download, Verify, files

\* A command that starts services is run from a binary that is whole, to its end.
LEMMA OwnIsWhole == Spec => []OwnInv
<1>1. Init => OwnInv BY DEF Init, OwnInv, Starts, Services
<1>2. IInv /\ OwnInv /\ [Next]_vars => OwnInv'
  <2> SUFFICES ASSUME IInv, OwnInv, [Next]_vars PROVE OwnInv' OBVIOUS
  <2>1. CASE Begin BY <2>1 DEF Begin, OwnInv, files
  <2>2. CASE End BY <2>2 DEF End, OwnInv, Starts, files
  <2>3. CASE UNCHANGED <<bin, plist, command, exe>> BY <2>3 DEF OwnInv, Starts
  <2> QED BY <2>1, <2>2, <2>3, OwnStep DEF Next, Leave, Relaunch, vars, files
<1> QED BY <1>1, <1>2, Invariant, PTL DEF Spec

\* Of a whole binary and a whole configuration launchd starts a process.
LEMMA FreshIsCurrent ==
    ASSUME NothingTorn, NEW s, Fresh(s), bin[path[s]] \in Versions
    PROVE  Current(s)
<1>1. config # Torn BY DeployAssumption DEF NothingTorn, None, Torn
<1> QED BY <1>1 DEF Fresh, Current, Started

\* A command that reports success has brought what it was asked for: the jobs
\* are those of the plists and run the whole binary and the configuration that
\* are there, whatever was left half done before (cmdInstall, cmdRestart,
\* cmdUpstream, cmdUninstall, cmdOff, cmdUpdate), unless bootout has failed,
\* and but for a restart over a user's binary that `sudo install` left torn.
THEOREM SuccessMeansIt == Spec => []SuccessIsReal
<1>1. IInv /\ OwnInv => SuccessIsReal
  <2> SUFFICES ASSUME IInv, OwnInv, command # "none", todo = <<>>, stuck = {} PROVE Promised
      BY DEF SuccessIsReal
  <2>1. \A w, t : ~In(todo, w, t) BY DEF In
  <2>2. ASSUME Starts, NEW s \in Services, Engaged(s) PROVE Fresh(s)
        BY <2>1, <2>2 DEF IInv, DoneInv, StartInv, JobInv, Ahead
  <2>3. Starts => PlistInv /\ RootInv /\ PresentInv /\ bin[exe] \in Versions
        BY DEF IInv, DoneInv, StartInv, OwnInv
  <2>4. ASSUME Starts, plist["user"] = exe, Engaged("user") PROVE Current("user")
        BY <2>2, <2>3, <2>4, FreshIsCurrent DEF IInv, Fresh, LaunchdHas, Services
  <2>5. ASSUME Starts, plist["net"] # NoPlace, bin[Root] = bin[exe] PROVE Current("net")
    <3>1. Fresh("net") BY <2>2, <2>5 DEF Engaged, Services
    <3>2. path["net"] = Root BY <2>5, <3>1 DEF OwnInv, Fresh, LaunchdHas
    <3> QED BY <2>3, <2>5, <3>1, <3>2, FreshIsCurrent DEF IInv
  <2>6. CASE command = "install"
    <3>1. plist["user"] # NoPlace /\ plist["net"] # NoPlace
          BY <2>1, <2>3, <2>6 DEF PresentInv, Ahead, Services, Starts
    <3>2. plist["user"] = exe /\ bin[Root] = bin[exe]
          BY <2>1, <2>3, <2>6, <3>1 DEF PlistInv, RootInv, Ahead, Starts
    <3>3. Current("user") /\ Current("net")
          BY <2>4, <2>5, <2>6, <3>1, <3>2 DEF Engaged, Starts
    <3> QED BY <2>6, <3>2, <3>3 DEF Promised
  <2>7. CASE command = "restart"
    <3>1. Fresh("user") BY <2>2, <2>7 DEF Engaged, Starts, Services
    <3>2. ASSUME plist["user"] \notin byHand PROVE Current("user")
      <4>1. path["user"] \in Exes /\ path["user"] = plist["user"]
            BY <3>1 DEF IInv, TypeOK, PathInv, Fresh, LaunchdHas, Places, Services
      <4>2. bin[path["user"]] \in Versions BY <3>2, <4>1 DEF IInv, NothingTorn
      <4> QED BY <3>1, <4>2, FreshIsCurrent DEF IInv
    <3>3. plist["net"] # NoPlace => Current("net") /\ bin[Root] = bin[exe]
          BY <2>1, <2>3, <2>5, <2>7 DEF RootInv, Ahead, Starts
    <3> QED BY <2>7, <3>1, <3>2, <3>3 DEF Promised, Fresh
  <2>8. CASE command = "upstream"
    <3>1. config = arg BY <2>1, <2>8 DEF IInv, DoneInv, ConfigInv, Ahead
    <3>2. plist["user"] # NoPlace => plist["user"] = exe /\ Current("user")
          BY <2>1, <2>3, <2>4, <2>8 DEF PlistInv, Ahead, Starts, Engaged
    <3>3. plist["net"] # NoPlace => Current("net") /\ bin[Root] = bin[exe]
          BY <2>1, <2>3, <2>5, <2>8 DEF RootInv, Ahead, Starts
    <3> QED BY <2>8, <3>1, <3>2, <3>3 DEF Promised
  <2>9. CASE command \in {"off", "uninstall"}
        BY <2>1, <2>9 DEF IInv, DoneInv, StopInv, Ahead, Promised, Services
  <2>10. CASE command = "update"
        BY <2>1, <2>10 DEF IInv, DoneInv, UpdateInv, Ahead, Promised
  <2>11. command \in Commands BY DEF IInv, TypeOK
  <2> QED BY <2>6, <2>7, <2>8, <2>9, <2>10, <2>11 DEF Commands
<1> QED BY <1>1, Invariant, OwnIsWhole, PTL

=============================================================================
