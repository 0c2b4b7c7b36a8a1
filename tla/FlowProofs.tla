------------------------------ MODULE FlowProofs ------------------------------
(***************************************************************************)
(* Proofs about Flow: any processes and any set of configured ones, any     *)
(* number of bytes, any time that a table is kept, any addresses.           *)
(***************************************************************************)
EXTENDS Flow, TLAPS

-----------------------------------------------------------------------------
(* The inductive invariant: the search for the owner.                      *)

\* Who holds the ports runs, and the kept table is about someone who held them
\* no longer ago than the table is old.
TableInv ==
    /\ holder # Nobody => holder \in alive /\ away[holder] = 0
    /\ kept # Nobody /\ age < TTL => away[kept] <= age

\* What a lookup reads is about those who are in seen; and as long as the client
\* holds on, only the system calls that fail use up its attempts.
SearchInv ==
    /\ {holder, entry, told} \subseteq seen \union {Nobody}
    /\ age < TTL => kept \in seen \union {Nobody}
    /\ steady => holder = client /\ client \in alive /\ attempt <= failures
    /\ steady /\ look = "path" /\ ~fromCache => entry = client

\* A lookup that is over.
FoundInv ==
    /\ told \in seen \union {Nobody}
    /\ steady /\ seen = {client} => told = client \/ (look = "missed" /\ failures >= 3)

OwnerInv ==
    /\ Nobody \notin wanted
    /\ pc = "idle" => TableInv /\ look = "idle" /\ told = Nobody /\ entry = Nobody /\ attempt = 0
    /\ pc = "lookup" => wanted # {} /\ SearchInv /\ look \in {"load", "path"}
    /\ pc = "route" => IF MatchAll THEN told = Nobody ELSE FoundInv
    /\ pc \in {"idle", "lookup", "route"} <=> route = "none"
    /\ route # "none" /\ due # "either" => route = due

-----------------------------------------------------------------------------
(* The dial.                                                               *)

\* netd dials the MITM, or an address that is not a fake one, or the proxy of
\* its mode, with which alone it has a handshake.
PeerInv ==
    /\ dial = "idle" <=> pc \in {"idle", "lookup", "route"}
    /\ pc # "dial" => dial \in {"idle", "up", "failed"}
    /\ pc = "pipe" => dial = "up"
    /\ dial \in {"A", "AAAA"} => route = "pass" /\ mode = "system"
    /\ dial \in {"method", "reply", "bound"} => mode = "socks5"
    /\ dial = "status" => mode = "http"
    /\ dial \in {"connect", "up"} \union Reading =>
          IF route = "mitm" THEN peer = "mitm"
          ELSE IF mode = "system" THEN peer \in Addresses /\ Unmap(peer) \notin FakeIPs
          ELSE peer = "proxy"
    /\ dial \in Reading => peer = "proxy"
    /\ dial \notin Reading => ~deadline
    /\ dial = "up" /\ peer = "proxy" => answered = Rounds
    /\ pc \in {"lookup", "route", "dial"} => "client" \in open
    /\ pc = "dial" /\ dial \in Reading \union {"up"} => open = Ends
    /\ dial \notin Reading \union {"up", "failed"} =>
          sent["upstream"] = 0 /\ inbox["upstream"] = <<>> /\ ended["upstream"] = "no"
          /\ answered = 0

\* The fields that netd has yet to read when the proxy has answered, and the
\* answers before it has.
Pending == IF dial = "reply" THEN 2 ELSE 1
Before == IF dial = "reply" THEN 1 ELSE 0
After == IF dial = "bound" THEN 2 ELSE Before + 1

\* The granted tunnel: k fields of the handshake, and all that the host sent.
Granted(in, k) ==
    /\ Len(in) = k + sent["upstream"]
    /\ \A i \in 1..Len(in) : in[i] = IF i <= k THEN Field ELSE i - k

ShakeInv ==
    dial \in Reading =>
        LET in == inbox["upstream"] IN
        /\ answered < Rounds => sent["upstream"] = 0
        /\ \/ in = <<>> /\ ended["upstream"] = "reset"
           \/ in = <<>> /\ dial # "bound" /\ answered = Before
           \/ in # <<>> /\ Head(in) = Refusal /\ answered = After
           \/ answered = After /\ Granted(in, Pending)

-----------------------------------------------------------------------------
(* The copies.                                                             *)

\* s is the stream from byte n + 1 on.
From(s, n) == \A i \in 1..Len(s) : s[i] = n + i

Buffered(e) == IF e = "upstream" THEN early ELSE <<>>

Written(e) == Len(got[Other(e)])
Held(e) == Len(chunk[e])
Kept(e) == Len(Buffered(e))
Unread(e) == Len(inbox[e])

\* The bytes of an end, one place after the other: what was written to the
\* other end, what the goroutine holds, the buffer, the connection.
LiveInv(e) ==
    /\ From(chunk[e], Written(e))
    /\ From(Buffered(e), Written(e) + Held(e))
    /\ From(inbox[e], Written(e) + Held(e) + Kept(e))
    /\ Written(e) + Held(e) + Kept(e) + Unread(e) <= sent[e]
    /\ ended[e] # "reset" => Written(e) + Held(e) + Kept(e) + Unread(e) = sent[e]

Live(e) == copier[e] \notin {"close", "done"} /\ (e = "client" \/ dial = "up")

StreamInv(e) ==
    /\ From(got[Other(e)], 0) /\ Written(e) <= sent[e]
    /\ Live(e) => LiveInv(e)

\* One of the ends is through, or broke.
Over ==
    \E e \in Ends :
        \/ ended[e] = "reset"
        \/ ended[e] = "fin" /\ Written(e) = sent[e]

CopyInv ==
    /\ \A e \in Ends :
          /\ copier[e] = "idle" <=> copier["client"] = "idle"
          /\ copier[e] = "idle" => chunk[e] = <<>> /\ got[e] = <<>>
          /\ copier[e] = "read" => chunk[e] = <<>>
          /\ copier[e] \in {"close", "done"} => Over
    /\ copier["client"] = "idle" => pc # "pipe"
    /\ copier["client"] # "idle" => pc \in {"pipe", "closed"} /\ dial = "up"
    /\ copier["client"] # "idle" /\ open # Ends => Over
    /\ dial # "up" => early = <<>>

IInv ==
    /\ TypeOK /\ OwnerInv /\ PeerInv /\ ShakeInv /\ CopyInv
    /\ \A e \in Ends : StreamInv(e)

-----------------------------------------------------------------------------
(* The constants.                                                          *)

\* What is assumed of the constants.
LEMMA Numbers ==
    /\ Nobody \notin Processes /\ \A w \in WantedSets : w \subseteq Processes
    /\ TTL \in Nat \ {0} /\ MaxFailures \in Nat /\ MaxBytes \in Nat
    /\ Modes \subseteq {"system", "socks5", "http"} /\ \A a \in Addresses : Unmap(a) \in Addresses
    /\ "mitm" \notin Addresses /\ "proxy" \notin Addresses /\ NoPeer \notin Addresses
    /\ NoPeer \notin {"mitm", "proxy"}
BY OwnerAssumption, PipeAssumption, DialAssumption

-----------------------------------------------------------------------------
(* Types, part by part.                                                    *)

DialType ==
    /\ mode \in Modes /\ answered \in 0..Rounds
    /\ dial \in Reading \union {"idle", "A", "AAAA", "connect", "up", "failed"}
    /\ peer \in Addresses \union {"mitm", "proxy", NoPeer}

PeersType ==
    /\ sent \in [Ends -> 0..MaxBytes] /\ ended \in [Ends -> {"no", "fin", "reset"}]
    /\ inbox \in [Ends -> Bytes] /\ early \in Bytes
    /\ deadline \in BOOLEAN /\ open \subseteq Ends /\ stalled \subseteq Ends

CopyType ==
    /\ copier \in [Ends -> {"idle", "read", "write", "close", "done"}]
    /\ chunk \in [Ends -> Bytes] /\ got \in [Ends -> Bytes]

FlowType ==
    /\ pc \in {"idle", "lookup", "route", "dial", "pipe", "closed"}
    /\ route \in {"none", "mitm", "pass"} /\ due \in {"mitm", "pass", "either"}

FlagType == forced \in BOOLEAN /\ fromCache \in BOOLEAN /\ steady \in BOOLEAN

TableType ==
    /\ wanted \in WantedSets \union {{}} /\ holder \in Processes \union {Nobody}
    /\ alive \subseteq Processes /\ seen \subseteq Processes
    /\ kept \in Processes \union {Nobody} /\ age \in 0..TTL /\ away \in [Processes -> 0..TTL]

FinderType ==
    /\ look \in {"idle", "load", "path", "found", "missed"} /\ attempt \in 0..2
    /\ {entry, told, client} \subseteq Processes \union {Nobody} /\ failures \in 0..MaxFailures

OwnerType == FlagType /\ TableType /\ FinderType

\* TypeOK and its parts.
LEMMA Parts == TypeOK <=> OwnerType /\ DialType /\ PeersType /\ CopyType /\ FlowType
BY DEF TypeOK, OwnerType, FlagType, TableType, FinderType, DialType, PeersType, CopyType, FlowType

-----------------------------------------------------------------------------
(* Sequences of bytes.                                                     *)

\* What the operators on sequences make of bytes.
LEMMA Pieces ==
    /\ <<>> \in Bytes /\ Len(<<>>) = 0 /\ <<Refusal>> \in Bytes /\ Answer \in Bytes
    /\ \A s \in Bytes : Len(s) \in Nat /\ (s = <<>> <=> Len(s) = 0)
    /\ \A s, t \in Bytes : s \o t \in Bytes /\ Len(s \o t) = Len(s) + Len(t)
    /\ \A s \in Bytes : \A b \in 1..MaxBytes : Append(s, b) \in Bytes /\ Len(Append(s, b)) = Len(s) + 1
    /\ \A s \in Bytes : s # <<>> => Tail(s) \in Bytes /\ Len(Tail(s)) = Len(s) - 1 /\ Head(s) = s[1]
    /\ \A s \in Bytes : \A n \in 0..Len(s) :
          /\ SubSeq(s, 1, n) \in Bytes /\ Len(SubSeq(s, 1, n)) = n
          /\ SubSeq(s, n + 1, Len(s)) \in Bytes /\ Len(SubSeq(s, n + 1, Len(s))) = Len(s) - n
<1>1. <<>> \in Bytes /\ Len(<<>>) = 0 /\ <<Refusal>> \in Bytes
  BY DEF Bytes
<1>2. Answer \in Bytes
  <2>1. <<Field>> \in Bytes /\ <<Field, Field>> \in Bytes
    BY DEF Bytes
  <2> QED
    BY <2>1 DEF Answer
<1>3. \A s \in Bytes : Len(s) \in Nat /\ (s = <<>> <=> Len(s) = 0)
  BY DEF Bytes
<1>4. \A s, t \in Bytes : s \o t \in Bytes /\ Len(s \o t) = Len(s) + Len(t)
  BY DEF Bytes
<1>5. \A s \in Bytes : \A b \in 1..MaxBytes : Append(s, b) \in Bytes /\ Len(Append(s, b)) = Len(s) + 1
  BY DEF Bytes
<1>6. \A s \in Bytes : s # <<>> => Tail(s) \in Bytes /\ Len(Tail(s)) = Len(s) - 1 /\ Head(s) = s[1]
  BY DEF Bytes
<1>7. ASSUME NEW s \in Bytes, NEW n \in 0..Len(s)
      PROVE  /\ SubSeq(s, 1, n) \in Bytes /\ Len(SubSeq(s, 1, n)) = n
             /\ SubSeq(s, n + 1, Len(s)) \in Bytes /\ Len(SubSeq(s, n + 1, Len(s))) = Len(s) - n
  BY <1>7 DEF Bytes
<1> QED
  BY <1>1, <1>2, <1>3, <1>4, <1>5, <1>6, <1>7

\* The length of what is read or written.
LEMMA Lengths == \A s \in Bytes : Len(s) \in Nat /\ (s = <<>> <=> Len(s) = 0)
BY Pieces

\* Sums of numbers, for the lengths.
LEMMA Sums == \A a, b \in Nat : a + b \in Nat
OBVIOUS

\* What is counted.
LEMMA Counts ==
    PeersType /\ CopyType => \A e \in Ends :
        {Written(e), Held(e), Kept(e), Unread(e), sent[e]} \subseteq Nat
<1> SUFFICES ASSUME PeersType, CopyType, NEW e \in Ends
             PROVE  {Written(e), Held(e), Kept(e), Unread(e), sent[e]} \subseteq Nat
  OBVIOUS
<1>1. Other(e) \in Ends /\ Buffered(e) \in Bytes
  BY Pieces DEF PeersType, Other, Buffered, Ends
<1>2. Written(e) \in Nat /\ Held(e) \in Nat
  BY <1>1, Lengths DEF CopyType, Written, Held
<1>3. Kept(e) \in Nat /\ Unread(e) \in Nat
  BY <1>1, Lengths DEF PeersType, Kept, Unread
<1>4. sent[e] \in Nat
  BY Numbers DEF PeersType
<1> QED
  BY <1>2, <1>3, <1>4

\* A stream that another continues.
LEMMA Joined ==
    \A s, t \in Bytes : \A n \in Nat :
        From(s, n) /\ From(t, n + Len(s)) => From(s \o t, n)
<1> SUFFICES ASSUME NEW s \in Bytes, NEW t \in Bytes, NEW n \in Nat,
                    From(s, n), From(t, n + Len(s)), NEW i \in 1..Len(s \o t)
             PROVE  (s \o t)[i] = n + i
  BY DEF From
<1>1. s \in Seq(Int) /\ t \in Seq(Int) /\ Len(s \o t) = Len(s) + Len(t)
  BY DEF Bytes, Field, Refusal
<1>2. CASE i \in 1..Len(s)
  BY <1>1, <1>2 DEF From
<1>3. CASE i \notin 1..Len(s)
  <2>1. i - Len(s) \in 1..Len(t) /\ (s \o t)[i] = t[i - Len(s)]
    BY <1>1, <1>3
  <2> QED
    BY <1>1, <2>1 DEF From
<1> QED
  BY <1>2, <1>3

\* A stream and its next byte.
LEMMA Lengthened ==
    \A s \in Bytes : \A n \in Nat :
        From(s, n) => From(Append(s, n + Len(s) + 1), n)
<1> TAKE s \in Bytes
<1> TAKE n \in Nat
<1> HAVE From(s, n)
<1>1. s \in Seq(Int) /\ Len(s) \in Nat
  BY DEF Bytes, Field, Refusal
<1>2. n + Len(s) + 1 \in Int
  BY <1>1
<1> DEFINE b == n + Len(s) + 1
<1> HIDE DEF b
<1>3. Len(Append(s, b)) = Len(s) + 1 /\ \A i \in 1..Len(s) : Append(s, b)[i] = s[i]
  BY <1>1, <1>2 DEF b
<1>4. Append(s, b)[Len(s) + 1] = b
  BY <1>1, <1>2 DEF b
<1>5. From(Append(s, b), n)
  BY <1>1, <1>3, <1>4 DEF From, b
<1> QED
  BY <1>5 DEF b

\* A stream in two parts.
LEMMA Parted ==
    \A s \in Bytes : \A n \in Nat : \A k \in 0..Len(s) :
        From(s, n) => From(SubSeq(s, 1, k), n) /\ From(SubSeq(s, k + 1, Len(s)), n + k)
<1> TAKE s \in Bytes
<1> TAKE n \in Nat
<1> TAKE k \in 0..Len(s)
<1> HAVE From(s, n)
<1>1. s \in Seq(Int) /\ Len(s) \in Nat
  BY DEF Bytes, Field, Refusal
<1>2. Len(SubSeq(s, 1, k)) = k /\ \A i \in 1..k : SubSeq(s, 1, k)[i] = s[i]
  BY <1>1
<1>3. /\ Len(SubSeq(s, k + 1, Len(s))) = Len(s) - k
      /\ \A i \in 1..Len(s) - k : SubSeq(s, k + 1, Len(s))[i] = s[k + i]
  <2>1. Len(SubSeq(s, k + 1, Len(s))) = Len(s) - k
    BY <1>1
  <2>2. ASSUME NEW i \in 1..Len(s) - k PROVE SubSeq(s, k + 1, Len(s))[i] = s[k + i]
    <3>1. i \in 1..Len(s) - (k + 1) + 1 /\ (k + 1) + i - 1 = k + i
      BY <1>1
    <3> QED
      BY <1>1, <3>1
  <2> QED
    BY <2>1, <2>2
<1>4. From(SubSeq(s, 1, k), n)
  BY <1>1, <1>2 DEF From
<1>5. From(SubSeq(s, k + 1, Len(s)), n + k)
  BY <1>1, <1>3 DEF From
<1> QED
  BY <1>4, <1>5

-----------------------------------------------------------------------------
(* The flow begins.                                                        *)

\* The invariant holds before the flow.
LEMMA InitInv == Init => IInv
<1> SUFFICES ASSUME Init PROVE IInv
  OBVIOUS
<1> USE DEF Init, OwnerInit, DialInit, PipeInit
<1>1. OwnerType
  <2>1. wanted \in WantedSets \union {{}} /\ alive \subseteq Processes /\ seen \subseteq Processes
    OBVIOUS
  <2>2. age \in 0..TTL /\ away \in [Processes -> 0..TTL] /\ failures \in 0..MaxFailures
    BY Numbers
  <2>3. forced \in BOOLEAN /\ fromCache \in BOOLEAN /\ steady \in BOOLEAN
    OBVIOUS
  <2>4. {entry, told, client} \subseteq Processes \union {Nobody} /\ kept \in Processes \union {Nobody}
        /\ holder \in Processes \union {Nobody}
    OBVIOUS
  <2>5. look \in {"idle", "load", "path", "found", "missed"} /\ attempt \in 0..2
    OBVIOUS
  <2> QED
    BY <2>1, <2>2, <2>3, <2>4, <2>5 DEF OwnerType, FlagType, TableType, FinderType
<1>7. DialType /\ FlowType
  BY Numbers DEF DialType, FlowType, Rounds, Reading
<1>2. PeersType
  <2>1. sent \in [Ends -> 0..MaxBytes] /\ ended \in [Ends -> {"no", "fin", "reset"}]
    BY Numbers
  <2>2. inbox \in [Ends -> Bytes] /\ early \in Bytes /\ open \subseteq Ends
    BY Pieces
  <2>3. deadline \in BOOLEAN /\ stalled \subseteq Ends
    OBVIOUS
  <2> QED
    BY <2>1, <2>2, <2>3 DEF PeersType
<1>8. CopyType
  BY Pieces DEF CopyType
<1>3. OwnerInv
  BY Numbers DEF OwnerInv, TableInv
<1>4. PeerInv /\ ShakeInv
  BY DEF PeerInv, ShakeInv, Reading, Ends
<1>5. CopyInv
  BY DEF CopyInv, Ends
<1>6. \A e \in Ends : StreamInv(e)
  BY DEF StreamInv, LiveInv, From, Buffered, Written, Held, Kept, Unread, Ends, Other
<1> QED
  BY <1>1, <1>2, <1>3, <1>4, <1>5, <1>6, <1>7, <1>8, Parts DEF IInv

-----------------------------------------------------------------------------
(* The processes and the lookup.                                           *)

\* What the processes do, and time, before and during a lookup.
LEMMA ProcessingOwner ==
    OwnerType /\ FlowType /\ OwnerInv /\ Processing => OwnerType' /\ FlowType' /\ OwnerInv'
<1> SUFFICES ASSUME OwnerType, FlowType, OwnerInv, Processing
             PROVE  OwnerType' /\ FlowType' /\ OwnerInv'
  OBVIOUS
<1> USE DEF Processing, flowVars, kernel, table, finder, history, ownerVars
<1>1. FlowType'
  BY DEF FlowType
<1>2. ASSUME NEW p \in Processes, Take(p) PROVE OwnerType' /\ OwnerInv'
  <2>1. OwnerType'
    <3>1. FlagType'
      BY <1>2, Numbers DEF OwnerType, FlagType, Take
    <3>2. TableType'
      BY <1>2, Numbers DEF OwnerType, TableType, Take
    <3>3. FinderType'
      BY <1>2, Numbers DEF OwnerType, TableType, FinderType, Take
    <3> QED
      BY <3>1, <3>2, <3>3 DEF OwnerType
  <2>2. OwnerInv'
    BY <1>2, Numbers DEF OwnerType, FlagType, TableType, FinderType, OwnerInv, TableInv, SearchInv, FoundInv, MatchAll, Take
  <2> QED
    BY <2>1, <2>2
<1>3. ASSUME NEW p \in Processes, Exit(p) PROVE OwnerType' /\ OwnerInv'
  <2>1. OwnerType'
    <3>1. FlagType'
      BY <1>3, Numbers DEF OwnerType, FlagType, Exit
    <3>2. TableType'
      BY <1>3, Numbers DEF OwnerType, TableType, Exit
    <3>3. FinderType'
      BY <1>3, Numbers DEF OwnerType, TableType, FinderType, Exit
    <3> QED
      BY <3>1, <3>2, <3>3 DEF OwnerType
  <2>2. OwnerInv'
    BY <1>3, Numbers DEF OwnerType, FlagType, TableType, FinderType, OwnerInv, TableInv, SearchInv, FoundInv, MatchAll, Exit
  <2> QED
    BY <2>1, <2>2
<1>4. ASSUME Release PROVE OwnerType' /\ OwnerInv'
  <2>1. OwnerType'
    <3>1. FlagType'
      BY <1>4, Numbers DEF OwnerType, FlagType, Release
    <3>2. TableType'
      BY <1>4, Numbers DEF OwnerType, TableType, Release
    <3>3. FinderType'
      BY <1>4, Numbers DEF OwnerType, TableType, FinderType, Release
    <3> QED
      BY <3>1, <3>2, <3>3 DEF OwnerType
  <2>2. OwnerInv'
    BY <1>4, Numbers DEF OwnerType, FlagType, TableType, FinderType, OwnerInv, TableInv, SearchInv, FoundInv, MatchAll, Release
  <2> QED
    BY <2>1, <2>2
<1>5. ASSUME Tick PROVE OwnerType' /\ OwnerInv'
  <2>1. OwnerType'
    <3>1. FlagType'
      BY <1>5, Numbers DEF OwnerType, FlagType, Tick, Older
    <3>2. TableType'
      BY <1>5, Numbers DEF OwnerType, TableType, Tick, Older
    <3>3. FinderType'
      BY <1>5, Numbers DEF OwnerType, TableType, FinderType, Tick, Older
    <3> QED
      BY <3>1, <3>2, <3>3 DEF OwnerType
  <2>2. OwnerInv'
    BY <1>5, Numbers DEF OwnerType, FlagType, TableType, FinderType, OwnerInv, TableInv, SearchInv, FoundInv, MatchAll, Tick, Older
  <2> QED
    BY <2>1, <2>2
<1>6. ASSUME OtherLookup PROVE OwnerType' /\ OwnerInv'
  <2>1. OwnerType'
    <3>1. FlagType'
      BY <1>6, Numbers DEF OwnerType, FlagType, OtherLookup
    <3>2. TableType'
      BY <1>6, Numbers DEF OwnerType, TableType, OtherLookup
    <3>3. FinderType'
      BY <1>6, Numbers DEF OwnerType, TableType, FinderType, OtherLookup
    <3> QED
      BY <3>1, <3>2, <3>3 DEF OwnerType
  <2>2. OwnerInv'
    BY <1>6, Numbers DEF OwnerType, FlagType, TableType, FinderType, OwnerInv, TableInv, SearchInv, FoundInv, MatchAll, OtherLookup
  <2> QED
    BY <2>1, <2>2
<1> QED
  BY <1>1, <1>2, <1>3, <1>4, <1>5, <1>6 DEF Kernel

\* A flow comes in, and its owner is looked for.
LEMMA AcceptOwner ==
    OwnerType /\ FlowType /\ OwnerInv /\ Accept => OwnerType' /\ FlowType' /\ OwnerInv'
<1> SUFFICES ASSUME OwnerType, FlowType, OwnerInv, Accept
             PROVE  OwnerType' /\ FlowType' /\ OwnerInv'
  OBVIOUS
<1> USE DEF Accept, kernel, table, finder, history, ownerVars
<1>1. FlowType'
  BY DEF FlowType
<1>2. CASE MatchAll
  <2>1. OwnerType'
    <3>1. FlagType'
      BY <1>2, Numbers DEF OwnerType, FlagType
    <3>2. TableType'
      BY <1>2, Numbers DEF OwnerType, TableType
    <3>3. FinderType'
      BY <1>2, Numbers DEF OwnerType, TableType, FinderType
    <3> QED
      BY <3>1, <3>2, <3>3 DEF OwnerType
  <2>2. OwnerInv'
    BY <1>2, Numbers DEF OwnerType, FlagType, TableType, FinderType, OwnerInv, MatchAll
  <2> QED
    BY <1>1, <2>1, <2>2
<1>3. CASE ~MatchAll
  <2>1. OwnerType'
    <3>1. FlagType'
      BY <1>3, Numbers DEF OwnerType, FlagType, BeginLookup
    <3>2. TableType'
      BY <1>3, Numbers DEF OwnerType, TableType, BeginLookup
    <3>3. FinderType'
      BY <1>3, Numbers DEF OwnerType, TableType, FinderType, BeginLookup
    <3> QED
      BY <3>1, <3>2, <3>3 DEF OwnerType
  <2>2. OwnerInv'
    BY <1>3, Numbers DEF OwnerType, FlagType, TableType, FinderType, OwnerInv, TableInv, SearchInv, MatchAll, BeginLookup
  <2> QED
    BY <1>1, <2>1, <2>2
<1> QED
  BY <1>2, <1>3

\* The lookup's own steps.
LEMMA LookupOwner ==
    OwnerType /\ FlowType /\ OwnerInv /\ FindProcess => OwnerType' /\ FlowType' /\ OwnerInv'
<1> SUFFICES ASSUME OwnerType, FlowType, OwnerInv, FindProcess
             PROVE  OwnerType' /\ FlowType' /\ OwnerInv'
  OBVIOUS
<1> USE DEF FindProcess, kernel, table, finder, history, ownerVars
<1>1. FlowType'
  BY DEF FlowType
<1>2. ASSUME LoadKept PROVE OwnerType' /\ OwnerInv'
  <2>1. OwnerType'
    <3>1. FlagType'
      BY <1>2, Numbers DEF OwnerType, FlagType, LoadKept, Usable
    <3>2. TableType'
      BY <1>2, Numbers DEF OwnerType, TableType, LoadKept, Usable
    <3>3. FinderType'
      BY <1>2, Numbers DEF OwnerType, TableType, FinderType, LoadKept, Usable
    <3> QED
      BY <3>1, <3>2, <3>3 DEF OwnerType
  <2>2. OwnerInv'
    BY <1>2, Numbers DEF OwnerType, FlagType, TableType, FinderType, OwnerInv, SearchInv, FoundInv, MatchAll, LoadKept, Usable
  <2> QED
    BY <2>1, <2>2
<1>3. ASSUME LoadFresh PROVE OwnerType' /\ OwnerInv'
  <2>1. OwnerType'
    <3>1. FlagType'
      BY <1>3, Numbers DEF OwnerType, FlagType, LoadFresh, Usable
    <3>2. TableType'
      BY <1>3, Numbers DEF OwnerType, TableType, LoadFresh, Usable
    <3>3. FinderType'
      BY <1>3, Numbers DEF OwnerType, TableType, FinderType, LoadFresh, Usable
    <3> QED
      BY <3>1, <3>2, <3>3 DEF OwnerType
  <2>2. OwnerInv'
    BY <1>3, Numbers DEF OwnerType, FlagType, TableType, FinderType, OwnerInv, SearchInv, FoundInv, MatchAll, LoadFresh, Usable
  <2> QED
    BY <2>1, <2>2
<1>4. ASSUME LoadFails PROVE OwnerType' /\ OwnerInv'
  <2>1. OwnerType'
    <3>1. FlagType'
      BY <1>4, Numbers DEF OwnerType, FlagType, LoadFails, Usable, Miss, LastAttempt
    <3>2. TableType'
      BY <1>4, Numbers DEF OwnerType, TableType, LoadFails, Usable, Miss, LastAttempt
    <3>3. FinderType'
      BY <1>4, Numbers DEF OwnerType, TableType, FinderType, LoadFails, Usable, Miss, LastAttempt
    <3> QED
      BY <3>1, <3>2, <3>3 DEF OwnerType
  <2>2. OwnerInv'
    BY <1>4, Numbers DEF OwnerType, FlagType, TableType, FinderType, OwnerInv, SearchInv, FoundInv, MatchAll, LoadFails, Usable, Miss, LastAttempt
  <2> QED
    BY <2>1, <2>2
<1>5. ASSUME FindAgain PROVE OwnerType' /\ OwnerInv'
  <2>1. OwnerType'
    <3>1. FlagType'
      BY <1>5, Numbers DEF OwnerType, FlagType, FindAgain, Doubtful
    <3>2. TableType'
      BY <1>5, Numbers DEF OwnerType, TableType, FindAgain, Doubtful
    <3>3. FinderType'
      BY <1>5, Numbers DEF OwnerType, TableType, FinderType, FindAgain, Doubtful
    <3> QED
      BY <3>1, <3>2, <3>3 DEF OwnerType
  <2>2. OwnerInv'
    BY <1>5, Numbers DEF OwnerType, FlagType, TableType, FinderType, OwnerInv, SearchInv, FoundInv, MatchAll, FindAgain, Doubtful
  <2> QED
    BY <2>1, <2>2
<1>6. ASSUME FindNothing PROVE OwnerType' /\ OwnerInv'
  <2>1. OwnerType'
    <3>1. FlagType'
      BY <1>6, Numbers DEF OwnerType, FlagType, FindNothing, Doubtful, Miss, LastAttempt
    <3>2. TableType'
      BY <1>6, Numbers DEF OwnerType, TableType, FindNothing, Doubtful, Miss, LastAttempt
    <3>3. FinderType'
      BY <1>6, Numbers DEF OwnerType, TableType, FinderType, FindNothing, Doubtful, Miss, LastAttempt
    <3> QED
      BY <3>1, <3>2, <3>3 DEF OwnerType
  <2>2. OwnerInv'
    BY <1>6, Numbers DEF OwnerType, FlagType, TableType, FinderType, OwnerInv, SearchInv, FoundInv, MatchAll, FindNothing, Doubtful, Miss, LastAttempt
  <2> QED
    BY <2>1, <2>2
<1>7. ASSUME FindOwner PROVE OwnerType' /\ OwnerInv'
  <2>1. OwnerType'
    <3>1. FlagType'
      BY <1>7, Numbers DEF OwnerType, FlagType, FindOwner, Doubtful
    <3>2. TableType'
      BY <1>7, Numbers DEF OwnerType, TableType, FindOwner, Doubtful
    <3>3. FinderType'
      BY <1>7, Numbers DEF OwnerType, TableType, FinderType, FindOwner, Doubtful
    <3> QED
      BY <3>1, <3>2, <3>3 DEF OwnerType
  <2>2. OwnerInv'
    BY <1>7, Numbers DEF OwnerType, FlagType, TableType, FinderType, OwnerInv, SearchInv, FoundInv, MatchAll, FindOwner, Doubtful
  <2> QED
    BY <2>1, <2>2
<1> QED
  BY <1>1, <1>2, <1>3, <1>4, <1>5, <1>6, <1>7 DEF Lookup

\* The owner that was found decides, and deserved to.
LEMMA RouteOwner ==
    OwnerType /\ FlowType /\ OwnerInv /\ Route => OwnerType' /\ FlowType' /\ OwnerInv'
<1> SUFFICES ASSUME OwnerType, FlowType, OwnerInv, Route
             PROVE  OwnerType' /\ FlowType' /\ OwnerInv'
  OBVIOUS
<1>1. FlowType'
  BY DEF Route, FlowType, Deserved
<1>2. OwnerType'
  <2>1. FlagType'
    BY Numbers DEF OwnerType, FlagType, Route, ForgetLookup
  <2>2. TableType'
    BY Numbers DEF OwnerType, TableType, Route, ForgetLookup
  <2>3. FinderType'
    BY Numbers DEF OwnerType, TableType, FinderType, Route, ForgetLookup
  <2> QED
    BY <2>1, <2>2, <2>3 DEF OwnerType
<1>3. due' # "either" => route' = due'
  <2>1. CASE MatchAll
    BY <2>1 DEF Route, Deserved, Matched
  <2>2. CASE ~MatchAll
    BY <2>2, Numbers DEF Route, Deserved, Matched, MatchAll, OwnerType, TableType, FinderType, OwnerInv, FoundInv
  <2> QED
    BY <2>1, <2>2
<1>4. OwnerInv'
  BY <1>3 DEF Route, OwnerInv, ForgetLookup
<1> QED
  BY <1>1, <1>2, <1>4

\* What comes after does not look at the owner again.
LEMMA LaterOwner ==
    OwnerType /\ FlowType /\ OwnerInv /\ UNCHANGED <<ownerVars, client, route, due>>
    /\ (pc' = pc \/ (pc \in {"dial", "pipe"} /\ pc' \in {"pipe", "closed"}))
        => OwnerType' /\ FlowType' /\ OwnerInv'
BY DEF OwnerType, FlagType, TableType, FinderType, FlowType, OwnerInv, TableInv, SearchInv, FoundInv, MatchAll,
       ownerVars, kernel, table, finder, history

-----------------------------------------------------------------------------
(* The two ends.                                                           *)

\* All but the owner: types, dial and copies.
PathInv ==
    /\ DialType /\ PeersType /\ CopyType /\ PeerInv /\ ShakeInv /\ CopyInv
    /\ \A e \in Ends : StreamInv(e)

\* The first field of a granted tunnel, and what is behind it.
LEMMA FirstField ==
    \A in \in Bytes : \A k \in {1, 2} :
        Granted(in, k) /\ sent["upstream"] \in Nat =>
            /\ in # <<>> /\ Head(in) = Field
            /\ k = 2 => Granted(Tail(in), 1)
            /\ k = 1 => From(Tail(in), 0) /\ Len(Tail(in)) = sent["upstream"]
<1> TAKE in \in Bytes
<1> TAKE k \in {1, 2}
<1> HAVE Granted(in, k) /\ sent["upstream"] \in Nat
<1>1. Len(in) \in Nat /\ Len(in) = k + sent["upstream"]
  BY Lengths DEF Granted
<1>2. in # <<>>
  BY <1>1, Lengths
<1>3. Len(Tail(in)) = Len(in) - 1 /\ Head(in) = in[1]
  BY <1>2, Pieces
<1>4. \A i \in 1..Len(in) - 1 : Tail(in)[i] = in[i + 1]
  BY <1>2 DEF Bytes, Field, Refusal
<1>5. \A i \in 1..Len(in) : in[i] = IF i <= k THEN Field ELSE i - k
  BY DEF Granted
<1>6. Head(in) = Field
  BY <1>1, <1>3, <1>5
<1>7. k = 2 => Granted(Tail(in), 1)
  BY <1>1, <1>3, <1>4, <1>5 DEF Granted
<1>8. k = 1 => From(Tail(in), 0) /\ Len(Tail(in)) = sent["upstream"]
  BY <1>1, <1>3, <1>4, <1>5 DEF From
<1> QED
  BY <1>2, <1>6, <1>7, <1>8

\* A step that leaves the streams alone.
LEMMA StreamsStay ==
    PathInv /\ UNCHANGED <<peers, inbox, early, copiers>> /\ (dial' = "up" <=> dial = "up")
        => CopyType' /\ \A e \in Ends : StreamInv(e)'
<1> SUFFICES ASSUME PathInv, UNCHANGED <<peers, inbox, early, copiers>>, dial' = "up" <=> dial = "up"
             PROVE  CopyType' /\ \A e \in Ends : StreamInv(e)'
  OBVIOUS
<1>1. CopyType'
  BY DEF PathInv, CopyType, copiers
<1>2. ASSUME NEW e \in Ends PROVE StreamInv(e)'
  <2>1. StreamInv(e)
    BY DEF PathInv
  <2> QED
    BY <2>1 DEF StreamInv, Live, LiveInv, From, Buffered, Written, Held, Kept, Unread, peers, copiers
<1> QED
  BY <1>1, <1>2

\* A step before the tunnel is up.
LEMMA StreamsBefore ==
    PathInv /\ dial # "up" /\ dial' # "up" /\ UNCHANGED <<peers, early, copiers>>
    /\ inbox'["client"] = inbox["client"]
        => \A e \in Ends : StreamInv(e)'
<1> SUFFICES ASSUME PathInv, dial # "up", dial' # "up", UNCHANGED <<peers, early, copiers>>,
                    inbox'["client"] = inbox["client"], NEW e \in Ends
             PROVE  StreamInv(e)'
  OBVIOUS
<1>1. StreamInv(e)
  BY DEF PathInv
<1>2. e = "upstream" => ~Live(e)'
  BY DEF Live
<1>3. e # "upstream" => inbox'[e] = inbox[e]
  BY DEF Ends
<1> QED
  BY <1>1, <1>2, <1>3
  DEF StreamInv, Live, LiveInv, From, Buffered, Written, Held, Kept, Unread, peers, copiers

\* A step that leaves the handshake alone.
LEMMA ShakeStays ==
    ShakeInv /\ (dial' \in Reading =>
          UNCHANGED <<dial, mode, answered, sent["upstream"], ended["upstream"], inbox["upstream"]>>)
        => ShakeInv'
BY DEF ShakeInv, Granted, Pending, Before, After, Rounds

\* A step before the copies.
LEMMA CopiesIdle ==
    CopyInv /\ copier["client"] = "idle" /\ UNCHANGED copiers /\ pc' # "pipe"
    /\ (dial' # "up" => early' = <<>>)
        => CopyInv'
BY DEF CopyInv, copiers, Ends

\* A flow before its dial.
LEMMA LookupPath ==
    PathInv /\ FlowType /\ (Processing \/ Accept \/ FindProcess) => PathInv'
<1> SUFFICES ASSUME PathInv, FlowType, Processing \/ Accept \/ FindProcess
             PROVE  PathInv'
  OBVIOUS
<1>1. /\ UNCHANGED <<dialVars, peers, inbox, early, deadline, copiers>> /\ UNCHANGED route
      /\ pc \in {"idle", "lookup"} /\ pc' \in {"idle", "lookup", "route"}
      /\ open' = {"client"} \/ (open' = open /\ (pc' = "idle" \/ pc = "lookup"))
  BY DEF Processing, Accept, FindProcess, flowVars, pipeVars, sockets
<1>2. DialType'
  BY <1>1 DEF PathInv, DialType, dialVars, Rounds
<1>3. PeersType'
  BY <1>1 DEF PathInv, PeersType, peers, Ends
<1>4. PeerInv'
  BY <1>1 DEF PathInv, PeerInv, dialVars, peers, Reading, Rounds
<1>5. ShakeInv'
  BY <1>1, ShakeStays DEF PathInv, dialVars, peers
<1>6. CopyInv'
  BY <1>1, CopiesIdle DEF PathInv, CopyInv, dialVars
<1>7. CopyType' /\ \A e \in Ends : StreamInv(e)'
  BY <1>1, StreamsStay DEF dialVars
<1> QED
  BY <1>2, <1>3, <1>4, <1>5, <1>6, <1>7 DEF PathInv

\* An end sends its next byte.
LEMMA SendsPath ==
    \A e \in Ends :
        PathInv /\ pc \in {"dial", "pipe"} /\ (e = "upstream" => dial \in Reading \union {"up"})
        /\ Speaks(e) /\ Sends(e) /\ UNCHANGED <<dialVars, flowVars>> => PathInv'
<1> SUFFICES ASSUME NEW e \in Ends, PathInv, pc \in {"dial", "pipe"},
                    e = "upstream" => dial \in Reading \union {"up"},
                    Speaks(e), Sends(e), UNCHANGED <<dialVars, flowVars>>
             PROVE  PathInv'
  OBVIOUS
<1> DEFINE b == sent[e] + 1
<1>1. /\ ended[e] = "no" /\ b \in 1..MaxBytes
      /\ sent' = [sent EXCEPT ![e] = b] /\ inbox' = [inbox EXCEPT ![e] = Append(@, b)]
      /\ UNCHANGED <<ended, stalled, early, deadline, open, copiers, dialVars, flowVars>>
  BY Numbers DEF Sends, PathInv, PeersType
<1> HIDE DEF b
<1>2. DialType'
  BY <1>1 DEF PathInv, DialType, dialVars, Rounds
<1>3. PeersType'
  <2>1. sent' \in [Ends -> 0..MaxBytes]
    BY <1>1, Numbers DEF PathInv, PeersType
  <2>2. inbox' \in [Ends -> Bytes]
    BY <1>1, Pieces DEF PathInv, PeersType
  <2> QED
    BY <1>1, <2>1, <2>2 DEF PathInv, PeersType
<1>4. CopyType'
  BY <1>1 DEF PathInv, CopyType, copiers
<1>5. PeerInv'
  BY <1>1 DEF PathInv, PeersType, PeerInv, dialVars, flowVars, Reading, Rounds, Ends
<1>6. ShakeInv'
  <2>1. CASE e = "upstream" /\ dial \in Reading
    <3> DEFINE in == inbox["upstream"]
    <3>1. in \in Bytes /\ answered = Rounds
      BY <1>1, <2>1 DEF PathInv, PeersType, PeerInv, Speaks, Ends
    <3>2. inbox'["upstream"] = Append(in, b) /\ sent'["upstream"] = b
      BY <1>1, <2>1 DEF PathInv, PeersType, Ends
    <3>3. in # <<>> /\ answered = After
      <4>1. answered # Before \/ dial = "bound"
        BY <2>1, <3>1 DEF PathInv, PeerInv, Before, Rounds, Reading
      <4>2. Granted(in, Pending) => in # <<>>
        BY <3>1, Lengths, Numbers DEF Granted, Pending, PathInv, PeersType, Ends
      <4> QED
        BY <1>1, <2>1, <4>1, <4>2 DEF PathInv, ShakeInv
    <3>4. CASE Head(in) = Refusal
      <4>1. Append(in, b) # <<>> /\ Head(Append(in, b)) = Refusal
        BY <1>1, <3>1, <3>3, <3>4 DEF Bytes, Field, Refusal
      <4> QED
        BY <1>1, <3>1, <3>2, <3>3, <4>1 DEF ShakeInv, dialVars, After, Before, Rounds
    <3>5. CASE Granted(in, Pending)
      <4>1. Len(Append(in, b)) = Len(in) + 1 /\ Append(in, b)[Len(in) + 1] = b
            /\ \A i \in 1..Len(in) : Append(in, b)[i] = in[i]
        BY <1>1, <3>1 DEF Bytes, Field, Refusal
      <4>2. Pending' = Pending /\ Pending \in {1, 2} /\ sent["upstream"] \in Nat /\ Len(in) \in Nat
        BY <1>1, <3>1, Pieces, Numbers DEF Pending, dialVars, PathInv, PeersType, Ends
      <4>3. Len(in) = Pending + sent["upstream"]
            /\ \A i \in 1..Len(in) : in[i] = IF i <= Pending THEN Field ELSE i - Pending
        BY <3>5 DEF Granted
      <4>4. b = sent["upstream"] + 1
        BY <2>1 DEF b
      <4>5. Granted(inbox["upstream"], Pending)'
        <5>1. /\ Len(inbox'["upstream"]) = Pending + sent'["upstream"]
              /\ sent'["upstream"] = sent["upstream"] + 1
          BY <3>2, <4>1, <4>2, <4>3, <4>4
        <5>2. ASSUME NEW i \in 1..Len(inbox'["upstream"])
              PROVE  inbox'["upstream"][i] = IF i <= Pending THEN Field ELSE i - Pending
          <6>1. CASE i = Len(in) + 1
            BY <3>2, <4>1, <4>2, <4>3, <4>4, <6>1
          <6>2. CASE i # Len(in) + 1
            BY <3>2, <4>1, <4>2, <4>3, <5>2, <6>2
          <6> QED
            BY <6>1, <6>2
        <5> QED
          BY <4>2, <5>1, <5>2 DEF Granted
      <4>6. answered' = After'
        BY <1>1, <3>3 DEF dialVars, After, Before
      <4> QED
        BY <1>1, <3>1, <4>5, <4>6 DEF ShakeInv, dialVars, Rounds
    <3> QED
      BY <2>1, <3>3, <3>4, <3>5, <1>1 DEF PathInv, ShakeInv
  <2>2. CASE e = "upstream" /\ dial \notin Reading
    BY <1>1, <2>2, ShakeStays DEF PathInv, dialVars
  <2>3. CASE e # "upstream"
    BY <1>1, <2>3, ShakeStays DEF PathInv, PeersType, dialVars, Ends
  <2> QED
    BY <2>1, <2>2, <2>3
<1>7. CopyInv'
  BY <1>1 DEF PathInv, PeersType, CopyInv, Over, Written, dialVars, flowVars, copiers, Ends
<1>8. ASSUME NEW f \in Ends PROVE StreamInv(f)'
  <2>1. StreamInv(f) /\ inbox[f] \in Bytes /\ sent[f] \in Nat
    BY Numbers DEF PathInv, PeersType
  <2>2. CASE f = e
    <3>1. inbox'[f] = Append(inbox[f], b) /\ sent'[f] = b /\ b = sent[f] + 1
      BY <1>1, <2>2 DEF PathInv, PeersType, b
    <3>2. UNCHANGED <<got, chunk, Buffered(f), Written(f), Held(f), Kept(f), Live(f), ended>>
      BY <1>1 DEF dialVars, copiers, Buffered, Written, Held, Kept, Live
    <3> DEFINE n == Written(f) + Held(f) + Kept(f)
    <3>3. n \in Nat /\ Written(f) \in Nat /\ Unread(f) \in Nat
      BY Counts, Sums DEF PathInv
    <3>4. Live(f) => n + Unread(f) = sent[f]
      BY <1>1, <2>1, <2>2 DEF StreamInv, LiveInv
    <3>5. Unread(f)' = Unread(f) + 1
      <4>1. Len(Append(inbox[f], b)) = Len(inbox[f]) + 1
        BY <1>1, <2>1, Pieces
      <4> QED
        BY <3>1, <4>1 DEF Unread
    <3> HIDE DEF n
    <3>6. From(inbox[f], n) => From(Append(inbox[f], n + Unread(f) + 1), n)
      BY <2>1, <3>3, Lengthened DEF Unread
    <3>7. Live(f) /\ From(inbox[f], n) => From(inbox[f]', n)
      BY <3>1, <3>4, <3>6
    <3>8. Live(f) => LiveInv(f)'
      BY <2>1, <3>1, <3>2, <3>3, <3>4, <3>5, <3>7 DEF StreamInv, LiveInv, n
    <3> QED
      BY <2>1, <3>1, <3>2, <3>3, <3>8 DEF StreamInv
  <2>3. CASE f # e
    <3>1. UNCHANGED <<inbox[f], sent[f]>>
      BY <1>1, <2>3 DEF PathInv, PeersType
    <3> QED
      BY <1>1, <2>1, <3>1
      DEF StreamInv, Live, LiveInv, From, Buffered, Written, Held, Kept, Unread, dialVars, copiers
  <2> QED
    BY <2>2, <2>3
<1> QED
  BY <1>2, <1>3, <1>4, <1>5, <1>6, <1>7, <1>8 DEF PathInv

\* An end half-closes.
LEMMA FinishesPath ==
    \A e \in Ends :
        PathInv /\ pc \in {"dial", "pipe"} /\ (e = "upstream" => dial \in Reading \union {"up"})
        /\ Finishes(e) /\ UNCHANGED <<dialVars, flowVars>> => PathInv'
<1> SUFFICES ASSUME NEW e \in Ends, PathInv, pc \in {"dial", "pipe"},
                    e = "upstream" => dial \in Reading \union {"up"},
                    Finishes(e), UNCHANGED <<dialVars, flowVars>>
             PROVE  PathInv'
  OBVIOUS
<1>1. /\ ended[e] = "no" /\ ended' = [ended EXCEPT ![e] = "fin"]
      /\ UNCHANGED <<sent, stalled, sockets, inbox, early, deadline, open, copiers, dialVars,
                     flowVars>>
  BY DEF Finishes, sockets
<1>2. DialType' /\ CopyType'
  BY <1>1 DEF PathInv, DialType, CopyType, dialVars, copiers, Rounds
<1>3. PeersType'
  BY <1>1 DEF PathInv, PeersType
<1>4. PeerInv'
  BY <1>1 DEF PathInv, PeersType, PeerInv, dialVars, flowVars, Reading, Rounds, Ends
<1>5. ShakeInv'
  <2>1. ended["upstream"] = "reset" => ended'["upstream"] = "reset"
    BY <1>1 DEF PathInv, PeersType, Ends
  <2> QED
    BY <1>1, <2>1 DEF PathInv, ShakeInv, Granted, Pending, Before, After, Rounds, dialVars
<1>6. CopyInv'
  BY <1>1 DEF PathInv, PeersType, CopyInv, Over, Written, dialVars, flowVars, copiers, Ends
<1>7. ASSUME NEW f \in Ends PROVE StreamInv(f)'
  <2>1. StreamInv(f) /\ (ended'[f] # "reset" => ended[f] # "reset")
    BY <1>1 DEF PathInv, PeersType
  <2> QED
    BY <1>1, <2>1
    DEF StreamInv, Live, LiveInv, From, Buffered, Written, Held, Kept, Unread, dialVars, copiers
<1> QED
  BY <1>2, <1>3, <1>4, <1>5, <1>6, <1>7 DEF PathInv

\* An end ceases to read, which changes nothing that was sent or read.
LEMMA StallsPath ==
    \A e \in Ends :
        PathInv /\ Stalls(e) /\ UNCHANGED <<dialVars, flowVars>> => PathInv'
<1> SUFFICES ASSUME NEW e \in Ends, PathInv, Stalls(e), UNCHANGED <<dialVars, flowVars>>
             PROVE  PathInv'
  OBVIOUS
<1>1. /\ stalled' = stalled \union {e}
      /\ UNCHANGED <<sent, ended, inbox, early, deadline, open, copiers, dialVars, flowVars>>
  BY DEF Stalls, sockets
<1>2. DialType' /\ CopyType'
  BY <1>1 DEF PathInv, DialType, CopyType, dialVars, copiers, Rounds
<1>3. PeersType'
  BY <1>1 DEF PathInv, PeersType
<1>4. PeerInv'
  BY <1>1 DEF PathInv, PeerInv, dialVars, flowVars, Reading, Rounds
<1>5. ShakeInv'
  BY <1>1 DEF PathInv, ShakeInv, Granted, Pending, Before, After, Rounds, dialVars
<1>6. CopyInv'
  BY <1>1 DEF PathInv, CopyInv, Over, Written, dialVars, flowVars, copiers
<1>7. ASSUME NEW f \in Ends PROVE StreamInv(f)'
  <2>1. StreamInv(f)
    BY DEF PathInv
  <2> QED
    BY <1>1, <2>1
    DEF StreamInv, Live, LiveInv, From, Buffered, Written, Held, Kept, Unread, dialVars, copiers
<1> QED
  BY <1>2, <1>3, <1>4, <1>5, <1>6, <1>7 DEF PathInv

\* An end breaks, and what it sent last is lost.
LEMMA ResetsPath ==
    \A e \in Ends :
        PathInv /\ pc \in {"dial", "pipe"} /\ (e = "upstream" => dial \in Reading \union {"up"})
        /\ Resets(e) /\ UNCHANGED <<dialVars, flowVars>> => PathInv'
<1> SUFFICES ASSUME NEW e \in Ends, PathInv, pc \in {"dial", "pipe"},
                    e = "upstream" => dial \in Reading \union {"up"},
                    Resets(e), UNCHANGED <<dialVars, flowVars>>
             PROVE  PathInv'
  OBVIOUS
<1>1. /\ ended' = [ended EXCEPT ![e] = "reset"] /\ inbox' = [inbox EXCEPT ![e] = <<>>]
      /\ UNCHANGED <<sent, stalled, early, deadline, open, copiers, dialVars, flowVars>>
  BY DEF Resets
<1>2. DialType' /\ CopyType'
  BY <1>1 DEF PathInv, DialType, CopyType, dialVars, copiers, Rounds
<1>3. PeersType'
  BY <1>1, Pieces DEF PathInv, PeersType
<1>4. PeerInv'
  BY <1>1 DEF PathInv, PeersType, PeerInv, dialVars, flowVars, Reading, Rounds, Ends
<1>5. ShakeInv'
  <2>1. CASE e = "upstream"
    <3>1. inbox'["upstream"] = <<>> /\ ended'["upstream"] = "reset"
      BY <1>1, <2>1 DEF PathInv, PeersType, Ends
    <3> QED
      BY <1>1, <3>1 DEF PathInv, ShakeInv, Rounds, dialVars
  <2>2. CASE e # "upstream"
    BY <1>1, <2>2, ShakeStays DEF PathInv, PeersType, dialVars, Ends
  <2> QED
    BY <2>1, <2>2
<1>6. CopyInv'
  BY <1>1 DEF PathInv, PeersType, CopyInv, Over, Written, dialVars, flowVars, copiers, Ends
<1>7. ASSUME NEW f \in Ends PROVE StreamInv(f)'
  <2>1. StreamInv(f)
    BY DEF PathInv
  <2>2. CASE f = e
    <3>1. inbox'[f] = <<>> /\ ended'[f] = "reset"
      BY <1>1, <2>2 DEF PathInv, PeersType
    <3>2. UNCHANGED <<got, chunk, Buffered(f), Written(f), Held(f), Kept(f), Live(f), sent>>
      BY <1>1 DEF dialVars, copiers, Buffered, Written, Held, Kept, Live
    <3>3. Unread(f)' = 0 /\ From(inbox[f]', Written(f) + Held(f) + Kept(f))
      BY <3>1 DEF Unread, From
    <3>4. {Written(f), Held(f), Kept(f), Unread(f), sent[f]} \subseteq Nat
      BY Counts DEF PathInv
    <3>5. Live(f) => LiveInv(f)'
      BY <2>1, <3>1, <3>2, <3>3, <3>4 DEF StreamInv, LiveInv
    <3> QED
      BY <2>1, <3>2, <3>5 DEF StreamInv
  <2>3. CASE f # e
    <3>1. UNCHANGED <<inbox[f], ended[f]>>
      BY <1>1, <2>3 DEF PathInv, PeersType
    <3> QED
      BY <1>1, <2>1, <3>1
      DEF StreamInv, Live, LiveInv, From, Buffered, Written, Held, Kept, Unread, dialVars, copiers
  <2> QED
    BY <2>2, <2>3
<1> QED
  BY <1>2, <1>3, <1>4, <1>5, <1>6, <1>7 DEF PathInv

\* The proxy answers.
LEMMA ProxyPath == PathInv /\ FlowType /\ Proxying => PathInv'
<1> SUFFICES ASSUME PathInv, FlowType, Proxying
             PROVE  PathInv'
  OBVIOUS
<1> DEFINE in == inbox["upstream"]
<1>1. /\ answered < Asked /\ answered' = answered + 1 /\ ended["upstream"] = "no"
      /\ UNCHANGED <<mode, dial, peer, peers, early, deadline, open, copiers, pc, route>>
  BY DEF Proxying, ProxyAnswers, flowVars
<1>2. PICK a \in {Answer, <<Refusal>>} : inbox' = [inbox EXCEPT !["upstream"] = @ \o a]
  BY DEF Proxying, ProxyAnswers
<1>3. dial \in Reading /\ mode \in {"socks5", "http"} /\ Asked <= Rounds /\ answered \in Nat
  BY <1>1 DEF Asked, Reading, PathInv, PeerInv, Rounds, DialType
<1>12. Asked \in {1, 2} /\ Rounds \in {1, 2} /\ UNCHANGED Rounds
  BY <1>1, <1>3 DEF Asked, Reading, Rounds
<1>13. answered < Rounds /\ answered' \in 0..Rounds
  BY <1>1, <1>3, <1>12
<1>4. in \in Bytes /\ a \in Bytes /\ inbox'["upstream"] = in \o a
  BY <1>2, Pieces DEF PathInv, PeersType, Ends
<1>5. DialType'
  BY <1>1, <1>12, <1>13 DEF PathInv, DialType
<1>6. PeersType'
  BY <1>1, <1>2, <1>4, Pieces DEF PathInv, PeersType, peers
<1>7. PeerInv'
  BY <1>1, <1>3 DEF PathInv, PeerInv, Reading, Rounds, peers
<1>8. ShakeInv'
  <2>1. answered < Rounds /\ sent["upstream"] = 0
    BY <1>3, <1>13 DEF PathInv, ShakeInv
  <2>2. in = <<>> /\ answered = Before /\ dial # "bound"
    <3>1. answered # After
      BY <1>1, <1>3 DEF Asked, After, Before, Reading
    <3> QED
      BY <1>1, <1>3, <3>1 DEF PathInv, ShakeInv
  <2>3. inbox'["upstream"] = a
    BY <1>4, <2>2 DEF Bytes
  <2>4. answered' = After'
    BY <1>1, <2>2 DEF After, Before
  <2>5. CASE a = <<Refusal>>
    <3>1. a # <<>> /\ Head(a) = Refusal
      BY <2>5
    <3> QED
      BY <1>1, <2>1, <2>3, <2>4, <3>1 DEF ShakeInv, peers
  <2>6. CASE a = Answer
    <3>1. Len(a) = Pending /\ \A i \in 1..Len(a) : a[i] = Field
      BY <1>3, <2>2, <2>6 DEF Answer, Asked, Pending, Reading
    <3>2. Granted(inbox["upstream"], Pending)'
      BY <1>1, <2>1, <2>3, <3>1 DEF Granted, Pending, peers
    <3> QED
      BY <1>1, <2>1, <2>4, <3>2 DEF ShakeInv, peers
  <2> QED
    BY <1>2, <2>5, <2>6
<1>9. CopyInv'
  BY <1>1 DEF PathInv, CopyInv, Over, Written, copiers, peers
<1>10. CopyType'
  BY <1>1 DEF PathInv, CopyType, copiers
<1>11. \A f \in Ends : StreamInv(f)'
  <2>1. inbox'["client"] = inbox["client"] /\ dial # "up"
    BY <1>2, <1>3 DEF PathInv, PeersType, Reading, Ends
  <2> QED
    BY <1>1, <2>1, StreamsBefore
<1> QED
  BY <1>5, <1>6, <1>7, <1>8, <1>9, <1>10, <1>11 DEF PathInv

-----------------------------------------------------------------------------
(* The dial.                                                               *)

\* The owner is known, and the dial begins.
LEMMA RoutePath == PathInv /\ FlowType /\ OwnerInv /\ Route => PathInv'
<1> SUFFICES ASSUME PathInv, FlowType, OwnerInv, Route
             PROVE  PathInv'
  OBVIOUS
<1>1. /\ pc = "route" /\ pc' = "dial" /\ dial = "idle" /\ UNCHANGED <<mode, answered, pipeVars>>
      /\ \/ route' = "mitm" /\ dial' = "connect" /\ peer' = "mitm"
         \/ route' = "pass" /\ mode = "system" /\ dial' = "A" /\ peer' = peer
         \/ route' = "pass" /\ mode # "system" /\ dial' = "connect" /\ peer' = "proxy"
  BY DEF Route, DialMITM, DialUpstream
<1>2. DialType'
  BY <1>1 DEF PathInv, DialType, Rounds
<1>3. PeersType'
  BY <1>1 DEF PathInv, PeersType, pipeVars, peers, sockets
<1>4. PeerInv'
  BY <1>1 DEF PathInv, PeerInv, Reading, pipeVars, peers, sockets
<1>5. ShakeInv'
  BY <1>1, ShakeStays DEF PathInv, Reading
<1>6. CopyInv'
  BY <1>1, CopiesIdle DEF PathInv, CopyInv, pipeVars, sockets
<1>7. CopyType' /\ \A e \in Ends : StreamInv(e)'
  BY <1>1, StreamsStay DEF pipeVars, sockets
<1> QED
  BY <1>2, <1>3, <1>4, <1>5, <1>6, <1>7 DEF PathInv

\* The upstream DNS is asked, or a connection fails.
LEMMA ResolvePath ==
    PathInv /\ FlowType /\ pc = "dial" /\ UNCHANGED flowVars
    /\ (ResolveAddress \/ ResolveNothing \/ ResolveFails \/ ConnectFails)
        => PathInv'
<1> SUFFICES ASSUME PathInv, FlowType, pc = "dial", UNCHANGED flowVars,
                    ResolveAddress \/ ResolveNothing \/ ResolveFails \/ ConnectFails
             PROVE  PathInv'
  OBVIOUS
<1>1. /\ UNCHANGED <<mode, answered, pipeVars, pc, route>>
      /\ \/ dial' = "failed" /\ peer' = peer /\ dial \in {"A", "AAAA", "connect"}
         \/ dial = "A" /\ dial' = "AAAA" /\ peer' = peer
         \/ /\ dial \in {"A", "AAAA"} /\ dial' = "connect"
            /\ peer' \in Addresses /\ Unmap(peer') \notin FakeIPs
  BY DEF ResolveAddress, ResolveNothing, ResolveFails, ConnectFails, prefixContains, flowVars
<1>2. DialType'
  BY <1>1 DEF PathInv, DialType, Rounds
<1>3. PeersType'
  BY <1>1 DEF PathInv, PeersType, pipeVars, peers, sockets
<1>4. PeerInv'
  BY <1>1 DEF PathInv, PeerInv, Reading, pipeVars, peers, sockets
<1>5. ShakeInv'
  BY <1>1, ShakeStays DEF PathInv, Reading
<1>6. CopyInv'
  BY <1>1, CopiesIdle DEF PathInv, CopyInv, pipeVars, sockets
<1>7. CopyType' /\ \A e \in Ends : StreamInv(e)'
  BY <1>1, StreamsStay DEF pipeVars, sockets
<1> QED
  BY <1>2, <1>3, <1>4, <1>5, <1>6, <1>7 DEF PathInv

\* What a dial that gets through leaves to be copied.
LEMMA TunnelStream ==
    PathInv /\ copier["client"] = "idle" /\ dial' = "up"
    /\ UNCHANGED <<peers, copiers>> /\ inbox'["client"] = inbox["client"]
    /\ Buffered("upstream")' \in Bytes /\ inbox'["upstream"] \in Bytes
    /\ From(Buffered("upstream")', 0) /\ From(inbox'["upstream"], Kept("upstream")')
    /\ Kept("upstream")' + Unread("upstream")' = sent["upstream"]
        => \A e \in Ends : StreamInv(e)'
<1> SUFFICES ASSUME PathInv, copier["client"] = "idle", dial' = "up",
                    UNCHANGED <<peers, copiers>>, inbox'["client"] = inbox["client"],
                    Buffered("upstream")' \in Bytes, inbox'["upstream"] \in Bytes,
                    From(Buffered("upstream")', 0),
                    From(inbox'["upstream"], Kept("upstream")'),
                    Kept("upstream")' + Unread("upstream")' = sent["upstream"]
             PROVE  \A e \in Ends : StreamInv(e)'
  OBVIOUS
<1>1. StreamInv("client")'
  <2>1. StreamInv("client")
    BY DEF PathInv, Ends
  <2>2. Buffered("client")' = Buffered("client")
    BY DEF Buffered
  <2> QED
    BY <2>1, <2>2
    DEF StreamInv, Live, LiveInv, From, Written, Held, Kept, Unread, peers, copiers
<1>2. StreamInv("upstream")'
  <2>1. got'["client"] = <<>> /\ chunk'["upstream"] = <<>>
    BY DEF PathInv, CopyInv, copiers, Ends
  <2>2. Written("upstream")' = 0 /\ Held("upstream")' = 0
    BY <2>1 DEF Written, Held, Other
  <2>3. Kept("upstream")' \in Nat /\ Unread("upstream")' \in Nat /\ sent'["upstream"] \in Nat
    BY Lengths, Counts DEF PathInv, Kept, Unread, peers, Ends
  <2>4. From(got'["client"], 0) /\ From(chunk'["upstream"], 0)
    BY <2>1 DEF From
  <2>5. sent'["upstream"] = sent["upstream"]
    BY DEF peers
  <2>6. LiveInv("upstream")'
    BY <2>2, <2>3, <2>4, <2>5 DEF LiveInv
  <2> QED
    BY <2>2, <2>3, <2>4, <2>6 DEF StreamInv, Other
<1> QED
  BY <1>1, <1>2 DEF Ends

\* A connection is up: the tunnel, or the first of the handshake.
LEMMA ConnectPath == PathInv /\ FlowType /\ pc = "dial" /\ UNCHANGED flowVars /\ Connect => PathInv'
<1> SUFFICES ASSUME PathInv, FlowType, pc = "dial", UNCHANGED flowVars, Connect
             PROVE  PathInv'
  OBVIOUS
<1>1. /\ dial = "connect" /\ open' = open \union {"upstream"}
      /\ UNCHANGED <<mode, peer, answered, peers, inbox, early, copiers, pc, route>>
  BY DEF Connect, flowVars
<1>2. /\ sent["upstream"] = 0 /\ inbox["upstream"] = <<>> /\ ended["upstream"] = "no"
      /\ answered = 0 /\ early = <<>> /\ copier["client"] = "idle" /\ "client" \in open
  BY <1>1 DEF PathInv, PeerInv, CopyInv, Reading
<1>3. CASE peer = "proxy"
  <2>1. deadline' = TRUE /\ dial' = IF mode = "socks5" THEN "method" ELSE "status"
    BY <1>3 DEF Connect, SetDeadline
  <2>2. route # "mitm" /\ mode # "system" /\ mode \in {"system", "socks5", "http"}
    BY <1>1, <1>3, Numbers DEF PathInv, PeerInv, DialType
  <2>3. DialType'
    BY <1>1, <2>1 DEF PathInv, DialType, Rounds, Reading
  <2>4. PeersType'
    BY <1>1, <2>1 DEF PathInv, PeersType, peers, Ends
  <2>5. PeerInv'
    BY <1>1, <1>2, <1>3, <2>1, <2>2 DEF PathInv, PeersType, PeerInv, Reading, Ends
  <2>6. ShakeInv'
    BY <1>1, <1>2, <2>1 DEF ShakeInv, Before, peers
  <2>7. CopyInv'
    BY <1>1, <1>2, CopiesIdle DEF PathInv
  <2>8. CopyType' /\ \A e \in Ends : StreamInv(e)'
    BY <1>1, <2>1, StreamsStay
  <2> QED
    BY <2>3, <2>4, <2>5, <2>6, <2>7, <2>8 DEF PathInv
<1>4. CASE peer # "proxy"
  <2>1. dial' = "up" /\ deadline' = deadline
    BY <1>4 DEF Connect
  <2>2. ~deadline
    BY <1>1 DEF PathInv, PeerInv, Reading
  <2>3. DialType'
    BY <1>1, <2>1 DEF PathInv, DialType, Rounds
  <2>4. PeersType'
    BY <1>1, <2>1 DEF PathInv, PeersType, peers, Ends
  <2>5. PeerInv'
    BY <1>1, <1>2, <1>4, <2>1, <2>2 DEF PathInv, PeersType, PeerInv, Reading, Ends
  <2>6. ShakeInv'
    BY <2>1, ShakeStays DEF PathInv, Reading
  <2>7. CopyInv' /\ CopyType'
    BY <1>1, <1>2, CopiesIdle DEF PathInv, CopyType, copiers
  <2>8. \A e \in Ends : StreamInv(e)'
    <3>1. inbox'["upstream"] = <<>> /\ Buffered("upstream")' = <<>> /\ sent["upstream"] = 0
      BY <1>1, <1>2 DEF Buffered
    <3>2. Kept("upstream")' = 0 /\ Unread("upstream")' = 0
      BY <3>1 DEF Kept, Unread
    <3>3. From(Buffered("upstream")', 0) /\ From(inbox'["upstream"], Kept("upstream")')
      BY <3>1 DEF From
    <3>4. Kept("upstream")' + Unread("upstream")' = sent["upstream"]
      BY <3>1, <3>2
    <3>5. Buffered("upstream")' \in Bytes /\ inbox'["upstream"] \in Bytes
      BY <3>1, Pieces
    <3> QED
      BY <1>1, <1>2, <2>1, <3>3, <3>4, <3>5, TunnelStream
  <2> QED
    BY <2>3, <2>4, <2>5, <2>6, <2>7, <2>8 DEF PathInv
<1> QED
  BY <1>3, <1>4

\* A handshake that fails.
LEMMA FailedPath ==
    PathInv /\ FlowType /\ pc = "dial" /\ dial \in Reading /\ UNCHANGED flowVars
    /\ Failed /\ deadline' = FALSE
    /\ UNCHANGED <<mode, peer, answered, peers, early, copiers>>
    /\ inbox' \in [Ends -> Bytes] /\ inbox'["client"] = inbox["client"] => PathInv'
<1> SUFFICES ASSUME PathInv, FlowType, pc = "dial", dial \in Reading, UNCHANGED flowVars,
                    Failed, deadline' = FALSE,
                    UNCHANGED <<mode, peer, answered, peers, early, copiers>>,
                    inbox' \in [Ends -> Bytes], inbox'["client"] = inbox["client"]
             PROVE  PathInv'
  OBVIOUS
<1>1. /\ dial' = "failed" /\ open' = open \ {"upstream"} /\ UNCHANGED <<pc, route>>
      /\ copier["client"] = "idle" /\ early = <<>> /\ dial # "up"
  BY DEF Failed, flowVars, PathInv, CopyInv, Reading
<1>2. DialType'
  BY <1>1 DEF PathInv, DialType, Rounds
<1>3. PeersType'
  BY <1>1 DEF PathInv, PeersType, peers
<1>4. PeerInv'
  BY <1>1 DEF PathInv, PeersType, PeerInv, Reading
<1>5. ShakeInv'
  BY <1>1, ShakeStays DEF PathInv, Reading
<1>6. CopyInv'
  BY <1>1, CopiesIdle DEF PathInv
<1>7. CopyType'
  BY DEF PathInv, CopyType, copiers
<1>8. \A e \in Ends : StreamInv(e)'
  BY <1>1, StreamsBefore
<1> QED
  BY <1>2, <1>3, <1>4, <1>5, <1>6, <1>7, <1>8 DEF PathInv

\* The handshake with a SOCKS5 proxy, one field at a time.
LEMMA SOCKSPath == PathInv /\ FlowType /\ pc = "dial" /\ UNCHANGED flowVars /\ ReadSOCKS => PathInv'
<1> SUFFICES ASSUME PathInv, FlowType, pc = "dial", UNCHANGED flowVars, ReadSOCKS
             PROVE  PathInv'
  OBVIOUS
<1> DEFINE in == inbox["upstream"]
<1>1. /\ dial \in {"method", "reply", "bound"} /\ in # <<>>
      /\ inbox' = [inbox EXCEPT !["upstream"] = Tail(@)]
      /\ UNCHANGED <<mode, peer, answered, peers, early, copiers, pc, route>>
  BY DEF ReadSOCKS, flowVars
<1>2. /\ dial \in Reading /\ mode = "socks5" /\ Rounds = 2 /\ peer = "proxy" /\ open = Ends
      /\ copier["client"] = "idle" /\ early = <<>> /\ route # "mitm"
  BY <1>1 DEF PathInv, PeerInv, CopyInv, Reading, Rounds
<1>3. in \in Bytes /\ Tail(in) \in Bytes /\ sent["upstream"] \in Nat
  BY <1>1, Pieces, Numbers DEF PathInv, PeersType, Ends
<1>4. inbox' \in [Ends -> Bytes] /\ inbox'["upstream"] = Tail(in) /\ inbox'["client"] = inbox["client"]
  BY <1>1, <1>3 DEF PathInv, PeersType, Ends
<1>5. CASE Head(in) = Refusal
  BY <1>1, <1>2, <1>4, <1>5, FailedPath DEF ReadSOCKS
<1>6. CASE Head(in) # Refusal
  <2>1. answered = After /\ Granted(in, Pending)
    BY <1>1, <1>2, <1>6 DEF PathInv, ShakeInv
  <2>2. UNCHANGED open /\ DialType' /\ PeersType' /\ CopyType'
    <3>1. UNCHANGED open /\ deadline' \in {deadline, FALSE} /\ dial' \in {"reply", "bound", "up"}
      BY <1>1, <1>6 DEF ReadSOCKS, TunnelUp
    <3>2. DialType'
      BY <1>1, <3>1 DEF PathInv, DialType, Rounds, Reading
    <3>3. PeersType'
      BY <1>1, <1>4, <3>1 DEF PathInv, PeersType, peers
    <3> QED
      BY <1>1, <3>1, <3>2, <3>3 DEF PathInv, CopyType, copiers
  <2>3. CASE dial = "method"
    <3>1. dial' = "reply" /\ deadline' = deadline
      BY <1>6, <2>3 DEF ReadSOCKS
    <3>2. answered = 1 /\ sent["upstream"] = 0 /\ Len(in) = 1
      BY <1>2, <1>3, <2>1, <2>3 DEF After, Before, Pending, Granted, PathInv, ShakeInv
    <3>3. Tail(in) = <<>>
      <4>1. Len(Tail(in)) = 0
        <5>1. Len(Tail(in)) = Len(in) - 1
          BY <1>1, <1>3, Pieces
        <5> QED
          BY <3>2, <5>1
      <4> QED
        BY <1>3, <4>1, Lengths
    <3>4. ShakeInv'
      BY <1>1, <1>4, <3>1, <3>2, <3>3 DEF ShakeInv, Before, peers
    <3>5. PeerInv'
      BY <1>1, <1>2, <2>2, <3>1 DEF PathInv, PeerInv, Reading, peers
    <3> QED
      BY <1>1, <1>2, <1>4, <2>2, <3>1, <3>4, <3>5, CopiesIdle, StreamsBefore DEF PathInv, Reading
  <2>4. CASE dial = "reply"
    <3>1. dial' = "bound" /\ deadline' = deadline
      BY <1>6, <2>4 DEF ReadSOCKS
    <3>2. answered = 2 /\ Granted(Tail(in), 1)
      BY <1>3, <2>1, <2>4, FirstField DEF After, Before, Pending
    <3>3. Granted(inbox["upstream"], Pending)' /\ answered' = After'
      BY <1>1, <1>4, <3>1, <3>2 DEF Granted, Pending, After, Before, peers
    <3>4. ShakeInv'
      BY <1>1, <1>2, <3>2, <3>3 DEF ShakeInv, Rounds
    <3>5. PeerInv'
      BY <1>1, <1>2, <2>2, <3>1 DEF PathInv, PeerInv, Reading, peers
    <3> QED
      BY <1>1, <1>2, <1>4, <2>2, <3>1, <3>4, <3>5, CopiesIdle, StreamsBefore DEF PathInv, Reading
  <2>5. CASE dial = "bound"
    <3>1. dial' = "up" /\ deadline' = FALSE
      BY <1>6, <2>5 DEF ReadSOCKS, TunnelUp
    <3>2. answered = 2 /\ From(Tail(in), 0) /\ Len(Tail(in)) = sent["upstream"]
      BY <1>3, <2>1, <2>5, FirstField DEF After, Pending
    <3>3. Buffered("upstream")' = <<>> /\ Kept("upstream")' = 0
      BY <1>1, <1>2 DEF Buffered, Kept
    <3>4. Kept("upstream")' + Unread("upstream")' = sent["upstream"]
      BY <1>3, <1>4, <3>2, <3>3 DEF Unread
    <3>5. From(Buffered("upstream")', 0) /\ From(inbox'["upstream"], Kept("upstream")')
      BY <1>4, <3>2, <3>3 DEF From
    <3>6. \A e \in Ends : StreamInv(e)'
      BY <1>1, <1>2, <1>3, <1>4, <3>1, <3>3, <3>4, <3>5, Pieces, TunnelStream
    <3>7. ShakeInv'
      BY <3>1, ShakeStays DEF PathInv, Reading
    <3>8. PeerInv'
      BY <1>1, <1>2, <2>2, <3>1, <3>2 DEF PathInv, PeerInv, Reading, Rounds, peers
    <3> QED
      BY <1>1, <1>2, <2>2, <3>1, <3>6, <3>7, <3>8, CopiesIdle DEF PathInv
  <2> QED
    BY <1>1, <2>3, <2>4, <2>5
<1> QED
  BY <1>5, <1>6

\* The handshake with an HTTP proxy, and what comes with its answer.
LEMMA CONNECTPath == PathInv /\ FlowType /\ pc = "dial" /\ UNCHANGED flowVars /\ ReadCONNECT => PathInv'
<1> SUFFICES ASSUME PathInv, FlowType, pc = "dial", UNCHANGED flowVars, ReadCONNECT
             PROVE  PathInv'
  OBVIOUS
<1> DEFINE in == inbox["upstream"]
           behind == Tail(in)
<1>1. /\ dial = "status" /\ in # <<>>
      /\ UNCHANGED <<mode, peer, answered, peers, copiers, pc, route>>
  BY DEF ReadCONNECT, flowVars
<1>2. /\ dial \in Reading /\ mode = "http" /\ Rounds = 1 /\ peer = "proxy" /\ open = Ends
      /\ copier["client"] = "idle" /\ early = <<>> /\ route # "mitm"
  BY <1>1 DEF PathInv, PeerInv, CopyInv, Reading, Rounds
<1>3. in \in Bytes /\ behind \in Bytes /\ sent["upstream"] \in Nat /\ inbox \in [Ends -> Bytes]
  BY <1>1, Pieces, Numbers DEF PathInv, PeersType, Ends
<1>4. CASE Head(in) = Refusal
  BY <1>1, <1>2, <1>3, <1>4, FailedPath DEF ReadCONNECT
<1>5. CASE Head(in) # Refusal
  <2>1. answered = After /\ Granted(in, Pending)
    BY <1>1, <1>2, <1>5 DEF PathInv, ShakeInv
  <2>2. answered = 1 /\ From(behind, 0) /\ Len(behind) = sent["upstream"]
    BY <1>1, <1>3, <2>1, FirstField DEF After, Before, Pending
  <2>3. PICK n \in 0..Len(behind) :
           /\ early' = Keep(SubSeq(behind, 1, n))
           /\ inbox' = [inbox EXCEPT !["upstream"] = SubSeq(behind, n + 1, Len(behind))]
           /\ TunnelUp /\ UNCHANGED open
    BY <1>5 DEF ReadCONNECT
  <2> DEFINE first == SubSeq(behind, 1, n)
             rest == SubSeq(behind, n + 1, Len(behind))
  <2>4. first \in Bytes /\ Len(first) = n /\ rest \in Bytes /\ Len(rest) = Len(behind) - n
    BY <1>3, <2>3, Pieces
  <2>5. From(first, 0) /\ From(rest, n)
    <3>1. 0 + n = n
      BY <1>3, Lengths
    <3> QED
      BY <1>3, <2>2, <2>3, <3>1, Parted
  <2> HIDE DEF first, rest
  <2>6. /\ dial' = "up" /\ deadline' = FALSE /\ open' = open /\ early' = first
        /\ inbox'["upstream"] = rest /\ inbox'["client"] = inbox["client"]
        /\ inbox' \in [Ends -> Bytes]
    BY <1>3, <2>3, <2>4 DEF TunnelUp, Keep, Ends, first, rest
  <2>7. DialType' /\ PeersType' /\ CopyType'
    <3>1. DialType'
      BY <1>1, <2>6 DEF PathInv, DialType, Rounds, Reading
    <3>2. PeersType'
      BY <1>1, <2>4, <2>6 DEF PathInv, PeersType, peers
    <3> QED
      BY <1>1, <3>1, <3>2 DEF PathInv, CopyType, copiers
  <2>8. Buffered("upstream")' = first /\ Kept("upstream")' = n /\ n \in Nat
    BY <1>3, <2>3, <2>4, <2>6, Lengths DEF Buffered, Kept
  <2>9. Kept("upstream")' + Unread("upstream")' = sent["upstream"]
    BY <1>3, <2>2, <2>4, <2>6, <2>8, Lengths DEF Unread
  <2>10. From(Buffered("upstream")', 0) /\ From(inbox'["upstream"], Kept("upstream")')
    BY <2>5, <2>6, <2>8
  <2>11. \A e \in Ends : StreamInv(e)'
    BY <1>1, <1>2, <2>4, <2>6, <2>8, <2>9, <2>10, TunnelStream
  <2>12. ShakeInv'
    BY <2>6, ShakeStays DEF PathInv, Reading
  <2>13. PeerInv'
    BY <1>1, <1>2, <2>2, <2>6 DEF PathInv, PeerInv, Reading, Rounds
  <2>14. CopyInv'
    BY <1>1, <1>2, <2>6, CopiesIdle DEF PathInv
  <2> QED
    BY <2>7, <2>11, <2>12, <2>13, <2>14 DEF PathInv
<1> QED
  BY <1>4, <1>5

\* Every step of the dial.
LEMMA DialPath == PathInv /\ FlowType /\ Dialling => PathInv'
<1> SUFFICES ASSUME PathInv, FlowType, Dialling
             PROVE  PathInv'
  OBVIOUS
<1>1. pc = "dial" /\ UNCHANGED flowVars
  BY DEF Dialling
<1>2. CASE HandshakeFails
  <2>1. inbox' \in [Ends -> Bytes] /\ UNCHANGED inbox
    BY <1>2 DEF HandshakeFails, PathInv, PeersType
  <2> QED
    BY <1>1, <1>2, <2>1, FailedPath DEF HandshakeFails
<1> QED
  BY <1>1, <1>2, ResolvePath, ConnectPath, SOCKSPath, CONNECTPath DEF Dialling, Dial

-----------------------------------------------------------------------------
(* The copies.                                                             *)

\* The copies begin, or the flow is closed.
LEMMA FlowPath == PathInv /\ FlowType /\ (DialFailed \/ Pipe \/ Close) => PathInv'
<1> SUFFICES ASSUME PathInv, FlowType, DialFailed \/ Pipe \/ Close
             PROVE  PathInv'
  OBVIOUS
<1>1. /\ UNCHANGED <<dialVars, peers, inbox, early, deadline, chunk, got, route>>
      /\ open' \in {open, {}} /\ pc \in {"dial", "pipe"} /\ pc' \in {"pipe", "closed"}
      /\ dial \in {"up", "failed"} /\ (pc' = "pipe" => dial = "up")
  BY DEF DialFailed, Pipe, Close, CloseAll, StartCopying, sockets, copiers, PathInv, PeerInv
<1>2. DialType'
  BY <1>1 DEF PathInv, DialType, dialVars, Rounds
<1>3. PeersType'
  BY <1>1 DEF PathInv, PeersType, peers
<1>4. PeerInv'
  BY <1>1 DEF PathInv, PeerInv, dialVars, peers, Reading, Rounds
<1>5. ShakeInv'
  BY <1>1, ShakeStays DEF PathInv, dialVars, peers
<1>6. CASE UNCHANGED copiers /\ pc' = "closed"
  <2>1. CASE DialFailed
    <3>1. copier["client"] = "idle" /\ dial' = "failed"
      BY <1>1, <2>1 DEF DialFailed, PathInv, CopyInv, dialVars
    <3>2. CopyInv'
      BY <1>1, <1>6, <3>1, CopiesIdle DEF PathInv, CopyInv, dialVars
    <3> QED
      BY <1>1, <1>2, <1>3, <1>4, <1>5, <1>6, <3>2, StreamsStay DEF PathInv, dialVars
  <2>2. CASE Close
    <3>1. Over
      BY <2>2 DEF Close, OneIsDone, PathInv, CopyInv
    <3>2. CopyInv'
      BY <1>1, <1>6, <3>1 DEF PathInv, CopyInv, Over, Written, dialVars, copiers, peers, Ends
    <3> QED
      BY <1>1, <1>2, <1>3, <1>4, <1>5, <1>6, <3>2, StreamsStay DEF PathInv, dialVars
  <2> QED
    BY <1>6, <2>1, <2>2 DEF Pipe
<1>7. CASE Pipe
  <2>1. copier' = [e \in Ends |-> "read"] /\ open' = open /\ open = Ends /\ pc' = "pipe"
    BY <1>7 DEF Pipe, StartCopying, sockets, PathInv, PeerInv
  <2>2. \A e \in Ends : copier[e] = "idle" /\ chunk[e] = <<>> /\ got[e] = <<>>
    BY <1>7 DEF Pipe, PathInv, CopyInv
  <2>3. CopyType'
    BY <1>1, <2>1 DEF PathInv, CopyType
  <2>4. CopyInv'
    BY <1>1, <2>1, <2>2 DEF PathInv, CopyInv, dialVars, Ends
  <2>5. ASSUME NEW e \in Ends PROVE StreamInv(e)'
    <3>1. StreamInv(e) /\ (Live(e)' <=> Live(e))
      BY <1>1, <2>1, <2>2 DEF PathInv, Live, dialVars
    <3> QED
      BY <1>1, <3>1 DEF StreamInv, LiveInv, From, Buffered, Written, Held, Kept, Unread, peers
  <2> QED
    BY <1>2, <1>3, <1>4, <1>5, <2>3, <2>4, <2>5 DEF PathInv
<1> QED
  BY <1>6, <1>7 DEF DialFailed, Close, CloseAll

\* A goroutine takes what was buffered with the handshake.
LEMMA ReadEarlyPath ==
    \A e \in Ends : PathInv /\ FlowType /\ ReadEarly(e) /\ UNCHANGED <<dialVars, flowVars>> => PathInv'
<1> SUFFICES ASSUME NEW e \in Ends, PathInv, FlowType, ReadEarly(e), UNCHANGED <<dialVars, flowVars>>
             PROVE  PathInv'
  OBVIOUS
<1>1. /\ copier["upstream"] = "read" /\ chunk' = [chunk EXCEPT !["upstream"] = early]
      /\ early' = <<>> /\ copier' = [copier EXCEPT !["upstream"] = "write"]
      /\ UNCHANGED <<peers, inbox, deadline, open, got, dialVars, pc, route>>
  BY DEF ReadEarly, flowVars
<1>2. DialType'
  BY <1>1 DEF PathInv, DialType, dialVars, Rounds
<1>3. PeersType'
  BY <1>1, Pieces DEF PathInv, PeersType, peers
<1>4. CopyType'
  BY <1>1 DEF PathInv, CopyType, PeersType
<1>5. PeerInv' /\ ShakeInv'
  BY <1>1, ShakeStays DEF PathInv, PeerInv, dialVars, peers, Reading, Rounds
<1>6. CopyInv'
  BY <1>1 DEF PathInv, CopyType, CopyInv, Over, Written, dialVars, peers, Ends
<1>7. ASSUME NEW f \in Ends PROVE StreamInv(f)'
  <2>1. StreamInv(f)
    BY DEF PathInv
  <2>2. CASE f = "upstream"
    <3>1. chunk'[f] = early /\ Buffered(f)' = <<>> /\ chunk[f] = <<>> /\ Buffered(f) = early
      BY <1>1, <2>2 DEF PathInv, CopyInv, CopyType, Buffered, Ends
    <3>2. Held(f)' = Kept(f) /\ Kept(f)' = 0 /\ Held(f) = 0
      BY <3>1 DEF Held, Kept
    <3>3. UNCHANGED <<got, inbox, sent, ended, Written(f), Unread(f)>> /\ (Live(f)' => Live(f))
      BY <1>1, <2>2 DEF Written, Unread, Live, dialVars, peers
    <3>4. {Written(f), Held(f), Kept(f), Unread(f), sent[f]} \subseteq Nat
      BY Counts DEF PathInv
    <3>5. From(Buffered(f)', Written(f) + Kept(f))
      BY <3>1 DEF From
    <3>6. LiveInv(f) => LiveInv(f)'
      BY <3>1, <3>2, <3>3, <3>4, <3>5 DEF LiveInv
    <3> QED
      BY <2>1, <3>3, <3>6 DEF StreamInv
  <2>3. CASE f # "upstream"
    <3>1. UNCHANGED <<chunk[f], copier[f], Buffered(f)>>
      BY <1>1, <2>3 DEF PathInv, CopyType, Buffered
    <3> QED
      BY <1>1, <2>1, <3>1
      DEF StreamInv, Live, LiveInv, From, Written, Held, Kept, Unread, dialVars, peers
  <2> QED
    BY <2>2, <2>3
<1> QED
  BY <1>2, <1>3, <1>4, <1>5, <1>6, <1>7 DEF PathInv

\* A goroutine reads a part of what has come.
LEMMA ReadPath ==
    \A e \in Ends : PathInv /\ FlowType /\ Read(e) /\ UNCHANGED <<dialVars, flowVars>> => PathInv'
<1> SUFFICES ASSUME NEW e \in Ends, PathInv, FlowType, Read(e), UNCHANGED <<dialVars, flowVars>>
             PROVE  PathInv'
  OBVIOUS
<1>1. /\ copier[e] = "read" /\ Buffered(e) = <<>>
      /\ copier' = [copier EXCEPT ![e] = "write"]
      /\ UNCHANGED <<peers, early, deadline, open, got, dialVars, pc, route>>
  BY DEF Read, Drained, Buffered, flowVars
<1>2. PICK n \in 1..Len(inbox[e]) :
         /\ chunk' = [chunk EXCEPT ![e] = SubSeq(inbox[e], 1, n)]
         /\ inbox' = [inbox EXCEPT ![e] = SubSeq(@, n + 1, Len(@))]
  BY DEF Read
<1> DEFINE first == SubSeq(inbox[e], 1, n)
           rest == SubSeq(inbox[e], n + 1, Len(inbox[e]))
<1>3. inbox[e] \in Bytes /\ n \in 0..Len(inbox[e]) /\ n \in Nat /\ Unread(e) \in Nat
  BY <1>2, Lengths DEF PathInv, PeersType, Unread
<1>4. first \in Bytes /\ Len(first) = n /\ rest \in Bytes /\ Len(rest) = Unread(e) - n
  BY <1>3, Pieces DEF Unread
<1>5. \A m \in Nat : From(inbox[e], m) => From(first, m) /\ From(rest, m + n)
  BY <1>3, Parted
<1> HIDE DEF first, rest
<1>6. chunk' = [chunk EXCEPT ![e] = first] /\ inbox' = [inbox EXCEPT ![e] = rest]
  BY <1>2 DEF first, rest, PathInv, PeersType
<1>7. copier["client"] # "idle" /\ dial = "up"
  BY <1>1 DEF PathInv, CopyInv, Ends
<1>8. DialType'
  BY <1>1 DEF PathInv, DialType, dialVars, Rounds
<1>9. PeersType'
  BY <1>1, <1>4, <1>6 DEF PathInv, PeersType, peers
<1>10. CopyType'
  BY <1>1, <1>4, <1>6 DEF PathInv, CopyType
<1>11. PeerInv'
  BY <1>1, <1>7 DEF PathInv, PeerInv, dialVars, peers, Reading, Rounds
<1>12. ShakeInv'
  BY <1>1, <1>7, ShakeStays DEF PathInv, dialVars, Reading
<1>13. CopyInv'
  BY <1>1, <1>6, <1>7 DEF PathInv, CopyType, CopyInv, Over, Written, dialVars, peers, Ends
<1>14. ASSUME NEW f \in Ends PROVE StreamInv(f)'
  <2>1. StreamInv(f)
    BY DEF PathInv
  <2>2. CASE f = e
    <3>1. chunk'[f] = first /\ inbox'[f] = rest /\ chunk[f] = <<>> /\ Buffered(f) = <<>>
      BY <1>1, <1>6, <2>2 DEF PathInv, PeersType, CopyInv, CopyType
    <3>2. /\ Held(f)' = n /\ Unread(f)' = Unread(f) - n /\ Held(f) = 0 /\ Kept(f) = 0
          /\ Buffered(f)' = Buffered(f)
      BY <1>1, <1>4, <2>2, <3>1 DEF Held, Unread, Kept, Buffered
    <3>3. UNCHANGED <<got, sent, ended, Written(f), Kept(f)>> /\ Live(f)
      BY <1>1, <1>7, <2>2, <3>2 DEF Written, Kept, Live, peers
    <3>4. {Written(f), Unread(f), sent[f]} \subseteq Nat
      BY Counts DEF PathInv
    <3>5. From(inbox[f], Written(f)) => From(first, Written(f)) /\ From(rest, Written(f) + n)
      BY <1>5, <2>2, <3>4
    <3>6. From(<<>>, Written(f) + n)
      BY DEF From
    <3>7. LiveInv(f)
      BY <2>1, <3>3 DEF StreamInv
    <3>8. /\ From(inbox[f], Written(f)) /\ Written(f) + Unread(f) <= sent[f]
          /\ ended[f] # "reset" => Written(f) + Unread(f) = sent[f]
      BY <3>2, <3>4, <3>7 DEF LiveInv
    <3>9. LiveInv(f)'
      BY <1>3, <3>1, <3>2, <3>3, <3>4, <3>5, <3>6, <3>8 DEF LiveInv
    <3> QED
      BY <2>1, <3>3, <3>9 DEF StreamInv
  <2>3. CASE f # e
    <3>1. UNCHANGED <<chunk[f], copier[f], inbox[f]>>
      BY <1>1, <1>6, <2>3 DEF PathInv, PeersType, CopyType
    <3> QED
      BY <1>1, <2>1, <3>1
      DEF StreamInv, Live, LiveInv, From, Buffered, Written, Held, Kept, Unread, dialVars, peers
  <2> QED
    BY <2>2, <2>3
<1> QED
  BY <1>8, <1>9, <1>10, <1>11, <1>12, <1>13, <1>14 DEF PathInv

\* A goroutine that is through, or has closed the other side.
LEMMA LeavePath ==
    \A e \in Ends :
        PathInv /\ FlowType /\ (ReadEnds(e) \/ CloseOther(e)) /\ UNCHANGED <<dialVars, flowVars>>
            => PathInv'
<1> SUFFICES ASSUME NEW e \in Ends, PathInv, FlowType, ReadEnds(e) \/ CloseOther(e),
                    UNCHANGED <<dialVars, flowVars>>
             PROVE  PathInv'
  OBVIOUS
<1>1. /\ copier[e] \in {"read", "close"}
      /\ \E c \in {"close", "done"} : copier' = [copier EXCEPT ![e] = c]
      /\ open' \subseteq open
      /\ UNCHANGED <<peers, inbox, early, deadline, chunk, got, dialVars, pc, route>>
  BY DEF ReadEnds, CloseOther, sockets, flowVars
<1>2. copier["client"] # "idle" /\ dial = "up" /\ pc # "dial" /\ ~deadline
  BY <1>1 DEF PathInv, CopyInv, PeerInv, Reading, Ends
<1>3. Over
  <2>1. CASE CloseOther(e)
    BY <2>1 DEF CloseOther, PathInv, CopyInv
  <2>2. CASE ReadEnds(e)
    <3>1. copier[e] = "read" /\ Buffered(e) = <<>> /\ AtEnd(e)
      BY <2>2 DEF ReadEnds, Drained, Buffered
    <3>2. CASE e \notin open
      BY <1>2, <3>2 DEF PathInv, CopyInv
    <3>3. CASE inbox[e] = <<>> /\ ended[e] = "fin"
      <4>1. LiveInv(e) /\ chunk[e] = <<>>
        BY <1>2, <3>1 DEF PathInv, CopyInv, StreamInv, Live
      <4>2. Held(e) = 0 /\ Kept(e) = 0 /\ Unread(e) = 0
        BY <3>1, <3>3, <4>1 DEF Held, Kept, Unread
      <4>3. Written(e) \in Nat /\ sent[e] \in Nat
        BY Counts DEF PathInv
      <4> QED
        BY <3>3, <4>1, <4>2, <4>3 DEF LiveInv, Over
    <3>4. CASE inbox[e] = <<>> /\ ended[e] = "reset"
      BY <3>4 DEF Over
    <3> QED
      BY <1>2, <3>1, <3>2, <3>3, <3>4 DEF AtEnd, PathInv, PeersType
  <2> QED
    BY <2>1, <2>2
<1>4. Over'
  BY <1>1, <1>3 DEF Over, Written, peers
<1>5. DialType'
  BY <1>1 DEF PathInv, DialType, dialVars, Rounds
<1>6. PeersType' /\ CopyType'
  BY <1>1 DEF PathInv, PeersType, CopyType, peers
<1>7. PeerInv'
  BY <1>1, <1>2 DEF PathInv, PeerInv, FlowType, dialVars, peers, Reading, Rounds
<1>8. ShakeInv'
  BY <1>1, <1>2, ShakeStays DEF PathInv, dialVars, Reading
<1>9. CopyInv'
  BY <1>1, <1>2, <1>4 DEF PathInv, CopyInv, CopyType, dialVars, Ends
<1>10. ASSUME NEW f \in Ends PROVE StreamInv(f)'
  <2>1. StreamInv(f) /\ (Live(f)' => Live(f))
    BY <1>1 DEF PathInv, CopyType, Live, dialVars
  <2> QED
    BY <1>1, <2>1 DEF StreamInv, LiveInv, From, Buffered, Written, Held, Kept, Unread, peers
<1> QED
  BY <1>5, <1>6, <1>7, <1>8, <1>9, <1>10 DEF PathInv

\* A goroutine writes what it holds, or finds that it cannot.
LEMMA WritePath ==
    \A e \in Ends : PathInv /\ FlowType /\ Write(e) /\ UNCHANGED <<dialVars, flowVars>> => PathInv'
<1> SUFFICES ASSUME NEW e \in Ends, PathInv, FlowType, Write(e), UNCHANGED <<dialVars, flowVars>>
             PROVE  PathInv'
  OBVIOUS
<1>1. /\ copier[e] = "write" /\ chunk' = [chunk EXCEPT ![e] = <<>>]
      /\ UNCHANGED <<peers, inbox, early, deadline, open, dialVars, pc, route>>
  BY DEF Write, sockets, flowVars
<1>2. copier["client"] # "idle" /\ dial = "up"
  BY <1>1 DEF PathInv, CopyInv, Ends
<1>3. Other(e) \in Ends /\ chunk[e] \in Bytes /\ got[Other(e)] \in Bytes
  BY DEF Other, Ends, PathInv, CopyType
<1>4. DialType'
  BY <1>1 DEF PathInv, DialType, dialVars, Rounds
<1>5. PeersType'
  BY <1>1 DEF PathInv, PeersType, peers
<1>6. PeerInv'
  BY <1>1 DEF PathInv, PeerInv, dialVars, peers, Reading, Rounds
<1>7. ShakeInv'
  BY <1>1, <1>2, ShakeStays DEF PathInv, dialVars, Reading
<1>8. CASE Writable(Other(e))
  <2> DEFINE all == got[Other(e)] \o chunk[e]
  <2>1. all \in Bytes /\ Len(all) = Written(e) + Held(e)
    BY <1>3, Pieces DEF Written, Held
  <2>2. {Written(e), Held(e), Kept(e), Unread(e), sent[e]} \subseteq Nat
    BY Counts DEF PathInv
  <2>3. LiveInv(e) /\ From(got[Other(e)], 0)
    BY <1>1, <1>2 DEF PathInv, StreamInv, Live
  <2>4. From(all, 0)
    <3>1. From(chunk[e], 0 + Len(got[Other(e)]))
      BY <2>2, <2>3 DEF LiveInv, Written
    <3> QED
      BY <1>3, <2>3, <3>1, Joined
  <2> HIDE DEF all
  <2>5. got' = [got EXCEPT ![Other(e)] = all] /\ copier' = [copier EXCEPT ![e] = "read"]
    BY <1>8, <1>3 DEF Write, all, PathInv, CopyType
  <2>6. CopyType'
    BY <1>1, <1>3, <2>1, <2>5, Pieces DEF PathInv, CopyType
  <2>7. got'[Other(e)] = all /\ chunk'[e] = <<>> /\ Buffered(e)' = Buffered(e)
    BY <1>1, <1>3, <2>5 DEF PathInv, CopyType, Buffered
  <2>8. /\ Written(e)' = Written(e) + Held(e) /\ Held(e)' = 0 /\ Kept(e)' = Kept(e)
        /\ Unread(e)' = Unread(e) /\ sent'[e] = sent[e] /\ ended'[e] = ended[e]
    BY <1>1, <2>1, <2>7 DEF Written, Held, Kept, Unread, peers
  <2>9. StreamInv(e)'
    <3>1. From(<<>>, Written(e)')
      BY DEF From
    <3>2. LiveInv(e)'
      BY <1>1, <2>2, <2>3, <2>7, <2>8, <3>1 DEF LiveInv
    <3>3. Written(e)' <= sent'[e]
      BY <2>2, <2>3, <2>8 DEF LiveInv
    <3> QED
      BY <2>4, <2>7, <3>2, <3>3 DEF StreamInv
  <2>10. ASSUME NEW f \in Ends, f # e PROVE StreamInv(f)' /\ Written(f)' = Written(f)
    <3>1. UNCHANGED <<got[Other(f)], chunk[f], copier[f]>>
      BY <1>1, <2>5, <2>10 DEF PathInv, CopyType, Other, Ends
    <3>2. StreamInv(f)
      BY DEF PathInv
    <3> QED
      BY <1>1, <3>1, <3>2
      DEF StreamInv, Live, LiveInv, From, Buffered, Written, Held, Kept, Unread, dialVars, peers
  <2>11. Over => Over'
    <3>1. Written(e) = sent[e] => Written(e)' = sent'[e]
      BY <2>2, <2>3, <2>8 DEF LiveInv
    <3> QED
      BY <1>1, <2>10, <3>1 DEF Over, peers
  <2>12. CopyInv'
    BY <1>1, <1>2, <1>3, <2>5, <2>7, <2>11 DEF PathInv, CopyInv, CopyType, dialVars, Ends
  <2> QED
    BY <1>4, <1>5, <1>6, <1>7, <2>6, <2>9, <2>10, <2>12 DEF PathInv
<1>9. CASE ~Writable(Other(e))
  <2>1. copier' = [copier EXCEPT ![e] = "close"] /\ got' = got
    BY <1>9 DEF Write
  <2>2. Over
    BY <1>2, <1>3, <1>9 DEF Writable, Over, PathInv, CopyInv
  <2>3. Over'
    BY <1>1, <2>1, <2>2 DEF Over, Written, peers
  <2>4. CopyType'
    BY <1>1, <2>1, Pieces DEF PathInv, CopyType
  <2>5. CopyInv'
    BY <1>1, <1>2, <2>1, <2>3 DEF PathInv, CopyInv, CopyType, dialVars, Ends
  <2>6. ASSUME NEW f \in Ends PROVE StreamInv(f)'
    <3>1. StreamInv(f)
      BY DEF PathInv
    <3>2. CASE f = e
      BY <1>1, <2>1, <3>1, <3>2 DEF PathInv, CopyType, StreamInv, Live, From, Written, peers
    <3>3. CASE f # e
      <4>1. UNCHANGED <<chunk[f], copier[f]>>
        BY <1>1, <2>1, <3>3 DEF PathInv, CopyType
      <4> QED
        BY <1>1, <2>1, <3>1, <4>1
        DEF StreamInv, Live, LiveInv, From, Buffered, Written, Held, Kept, Unread, dialVars, peers
    <3> QED
      BY <3>2, <3>3
  <2> QED
    BY <1>4, <1>5, <1>6, <1>7, <2>4, <2>5, <2>6 DEF PathInv
<1> QED
  BY <1>8, <1>9

-----------------------------------------------------------------------------
(* The theorems.                                                           *)

\* Every step keeps the invariant.
LEMMA StepInv == IInv /\ [Next]_vars => IInv'
<1> DEFINE Whole == OwnerType /\ FlowType /\ OwnerInv /\ PathInv
<1> SUFFICES ASSUME IInv, [Next]_vars
             PROVE  Whole'
  BY DEF IInv, PathInv, TypeOK, OwnerType, FlagType, TableType, FinderType, DialType, PeersType,
         CopyType, FlowType
<1>1. OwnerType /\ FlowType /\ OwnerInv /\ PathInv
  BY Parts DEF IInv, PathInv
<1>2. CASE Processing
  BY <1>1, <1>2, ProcessingOwner, LookupPath
<1>3. CASE EndActs
  <2>1. PathInv'
    BY <1>1, <1>3, SendsPath, FinishesPath, ResetsPath, StallsPath DEF EndActs
  <2>2. UNCHANGED <<ownerVars, client, route, due, pc>>
    BY <1>3 DEF EndActs, flowVars
  <2> QED
    BY <1>1, <2>1, <2>2, LaterOwner
<1>4. CASE Proxying
  <2>1. UNCHANGED <<ownerVars, client, route, due, pc>>
    BY <1>4 DEF Proxying, flowVars
  <2> QED
    BY <1>1, <1>4, <2>1, ProxyPath, LaterOwner
<1>5. CASE Accept
  BY <1>1, <1>5, AcceptOwner, LookupPath
<1>6. CASE FindProcess
  BY <1>1, <1>6, LookupOwner, LookupPath
<1>7. CASE Route
  BY <1>1, <1>7, RouteOwner, RoutePath
<1>8. CASE Dialling
  <2>1. UNCHANGED <<ownerVars, client, route, due, pc>>
    BY <1>8 DEF Dialling, flowVars
  <2> QED
    BY <1>1, <1>8, <2>1, DialPath, LaterOwner
<1>9. CASE DialFailed \/ Pipe \/ Close
  <2>1. /\ UNCHANGED <<ownerVars, client, route, due>>
        /\ pc \in {"dial", "pipe"} /\ pc' \in {"pipe", "closed"}
    BY <1>9 DEF DialFailed, Pipe, Close
  <2> QED
    BY <1>1, <1>9, <2>1, FlowPath, LaterOwner
<1>10. ASSUME NEW e \in Ends, Copying(e) PROVE Whole'
  <2>1. PathInv'
    BY <1>1, <1>10, ReadEarlyPath, ReadPath, LeavePath, WritePath DEF Copying, Copy
  <2>2. UNCHANGED <<ownerVars, client, route, due, pc>>
    BY <1>10 DEF Copying, flowVars
  <2> QED
    BY <1>1, <2>1, <2>2, LaterOwner
<1>11. CASE UNCHANGED vars
  <2>1. UNCHANGED <<ownerVars, client, route, due, pc>>
    BY <1>11 DEF vars, flowVars
  <2>2. DialType' /\ PeersType' /\ PeerInv'
    BY <1>1, <1>11
    DEF PathInv, DialType, PeersType, PeerInv, Rounds, vars, dialVars, flowVars, pipeVars, peers, sockets
  <2>3. ShakeInv'
    BY <1>1, <1>11, ShakeStays DEF PathInv, vars, dialVars, pipeVars, peers, sockets
  <2>4. CopyInv'
    BY <1>1, <1>11
    DEF PathInv, CopyInv, Over, Written, vars, dialVars, flowVars, pipeVars, peers, sockets, copiers
  <2>5. CopyType' /\ \A e \in Ends : StreamInv(e)'
    BY <1>1, <1>11, StreamsStay DEF vars, dialVars, pipeVars, sockets
  <2>6. PathInv'
    BY <2>2, <2>3, <2>4, <2>5 DEF PathInv
  <2> QED
    BY <1>1, <2>1, <2>6, LaterOwner
<1> QED
  BY <1>2, <1>3, <1>4, <1>5, <1>6, <1>7, <1>8, <1>9, <1>10, <1>11 DEF Next, Main

\* The invariant holds throughout.
THEOREM Invariant == Spec => []IInv
<1> QED
  BY InitInv, StepInv, PTL DEF Spec

\* The variables of a flow have their types.
THEOREM TypeCorrect == Spec => []TypeOK
<1>1. IInv => TypeOK
  BY DEF IInv
<1> QED
  BY <1>1, Invariant, PTL

\* Whatever processes come and go while netd looks for the owner, and whatever
\* the upstream DNS and the proxy answer: the flow of a process that held on is
\* routed as its owner deserves, and none is ever piped to a fake address.
THEOREM RouteIsRight == Spec => []RightUpstream
<1>1. IInv => RightUpstream
  <2> SUFFICES ASSUME IInv
               PROVE  RightUpstream
    OBVIOUS
  <2>1. route # "none" /\ due # "either" => route = due
    BY DEF IInv, OwnerInv
  <2>2. ASSUME pc = "pipe"
        PROVE  IF route = "mitm" THEN peer = "mitm"
               ELSE \/ mode = "system" /\ peer \in Addresses /\ Unmap(peer) \notin FakeIPs
                    \/ mode # "system" /\ peer = "proxy" /\ answered = Rounds
    BY <2>2 DEF IInv, PeerInv
  <2> QED
    BY <2>1, <2>2 DEF RightUpstream
<1> QED
  BY <1>1, Invariant, PTL

\* Each end gets the stream of the other from its first byte and in order, with
\* what the buffer of the handshake held, and netd closes a flow only after an
\* end that finished was copied to its last byte, or one broke.
THEOREM NothingIsCutShort == Spec => []FirstEndIsWhole
<1>1. IInv => FirstEndIsWhole
  <2> SUFFICES ASSUME IInv
               PROVE  FirstEndIsWhole
    OBVIOUS
  <2>1. PeersType /\ CopyType /\ CopyInv /\ \A e \in Ends : StreamInv(e)
    BY Parts DEF IInv
  <2>2. ASSUME NEW e \in Ends, NEW i \in DOMAIN got[e]
        PROVE  got[e][i] = i /\ i <= sent[Other(e)]
    <3>1. Other(e) \in Ends /\ Other(Other(e)) = e
      BY DEF Ends, Other
    <3>2. From(got[e], 0) /\ Written(Other(e)) = Len(got[e]) /\ Len(got[e]) <= sent[Other(e)]
      BY <2>1, <3>1 DEF StreamInv, Written
    <3>3. i \in 1..Len(got[e]) /\ Len(got[e]) \in Nat /\ sent[Other(e)] \in Nat
      BY <2>1, <3>1, Counts, Lengths DEF CopyType, Bytes
    <3> QED
      BY <3>2, <3>3 DEF From
  <2>3. ASSUME copier["client"] # "idle", open # Ends
        PROVE  \E e \in Ends :
                  \/ ended[e] = "reset"
                  \/ ended[e] = "fin" /\ Len(got[Other(e)]) = sent[e]
    BY <2>1, <2>3 DEF CopyInv, Over, Written
  <2> QED
    BY <2>2, <2>3 DEF FirstEndIsWhole
<1> QED
  BY <1>1, Invariant, PTL

=============================================================================
