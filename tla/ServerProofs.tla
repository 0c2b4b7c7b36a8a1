---------------------------- MODULE ServerProofs ----------------------------
(***************************************************************************)
(* Proofs about Server: any requests, any number of chunks, signals, kills *)
(* and disk faults, any lifetime of leaf certificates.                     *)
(***************************************************************************)
EXTENDS Server, TLAPS

-----------------------------------------------------------------------------
(* The inductive invariant.                                                *)

Creating == {"cut cert", "cert", "cut key", "key"}
Serving == {"up", "stopping"}

\* A CA that runs is the one on the disk, and stays it: its certificate is not
\* made again as long as there is a key, and a CA is trusted only then.
CertInv ==
    /\ server \in Creating => fresh \in CAs
    /\ server \in {"cut key", "key"} => cert = fresh
    /\ server = "load" => cert # None /\ key # None
    /\ server \in Serving => ca = cert /\ ca \in CAs /\ key # None
    /\ trusted # None => cert = trusted /\ key # None /\ server \notin Creating
    /\ server \notin Serving => leaf = NoLeaf
    /\ leaf # NoLeaf => leaf.ca = ca

Recorded(r) == \E i \in DOMAIN index : index[i].id = r

\* A handler on its way: what the client has seen is the status that is set
\* by then, the log is at most the last chunk behind it, and it gets to its
\* end only over the index.
RequestInv(r) ==
    /\ seen[r] \in {NoStatus, status[r]}
    /\ at[r] \in {"idle", "body", "do"} => seen[r] = NoStatus
    /\ at[r] = "idle" => got[r] = 0
    /\ logFailed[r] => spoiled[r]
    /\ at[r] \notin {"log", "over"} /\ kind[r] \in Logged => spoiled[r] \/ log[r] >= got[r]
    /\ at[r] = "log" => spoiled[r] \/ log[r] + 1 >= got[r]
    /\ at[r] = "index" => spoiled[r] \/ json[r] = status[r]
    /\ kind[r] = "refused" => at[r] \in {"finish", "over"}
    /\ ended[r] => at[r] = "over"
    /\ at[r] = "finish" \/ ended[r] => kind[r] = "refused" \/ spoiled[r] \/ Recorded(r)

\* A row is about a request that is over or all but, and no request has two.
RowInv ==
    /\ \A i, j \in DOMAIN index : index[i].id = index[j].id => i = j
    /\ \A i \in DOMAIN index : LET r == index[i].id IN
          /\ at[r] \in {"finish", "over"} /\ kind[r] # "refused"
          /\ index[i].status = status[r]
          /\ spoiled[r] \/ json[r] = status[r]
          /\ kind[r] \in Logged => spoiled[r] \/ log[r] >= got[r]

\* A chunk is on its way only below the bound.
BoundInv ==
    \A r \in Requests :
        /\ at[r] = "write" => got[r] < MaxChunks
        /\ at[r] \in {"write", "log"} => log[r] < MaxChunks

IInv == TypeOK /\ CertInv /\ BoundInv /\ RowInv /\ \A r \in Requests : RequestInv(r)

\* What is assumed of the constants.
LEMMA Numbers ==
    /\ LeafDays \in Nat /\ MarginDays \in Nat /\ MarginDays < LeafDays /\ MaxCAs \in Nat
    /\ KindsOf \in [Requests -> SUBSET Kinds]
    /\ MaxChunks \in Nat /\ MaxSignals \in Nat /\ MaxCrashes \in Nat /\ MaxFaults \in Nat
BY CertAssumption, ServerAssumption

\* The invariant holds of a machine on which the service never ran.
LEMMA InitInv == Init => IInv
<1> SUFFICES ASSUME Init PROVE IInv
  OBVIOUS
<1>1. TypeOK
  BY Numbers DEF Init, CertInit, TypeOK, NoLeaf, Kinds, Statuses
<1>2. CertInv
  BY DEF Init, CertInit, CertInv, Creating, Serving
<1>3. BoundInv
  BY DEF Init, BoundInv
<1>4. RowInv
  BY DEF Init, RowInv
<1>5. \A r \in Requests : RequestInv(r)
  BY DEF Init, RequestInv
<1> QED
  BY <1>1, <1>2, <1>3, <1>4, <1>5 DEF IInv

-----------------------------------------------------------------------------
(* Types.                                                                  *)

CertType ==
    /\ server \in Starting \union {"down", "up", "stopping"}
    /\ {cert, key} \subseteq CAs \union {None, Torn}
    /\ {fresh, ca, trusted} \subseteq CAs \union {None}
    /\ leaf \in [ca : CAs \union {None}, left : 0..LeafDays]

HandlerType ==
    /\ at \in [Requests -> {"idle", "body", "do", "read", "write", "log", "record",
                            "index", "finish", "over"}]
    /\ kind \in [Requests -> Kinds] /\ upstream \in [Requests -> {"open", "eof", "error"}]
    /\ status \in [Requests -> Statuses] /\ logFailed \in [Requests -> BOOLEAN]

ClientType ==
    /\ seen \in [Requests -> Statuses]
    /\ gone \in [Requests -> BOOLEAN] /\ got \in [Requests -> 0..MaxChunks]
    /\ ended \in [Requests -> BOOLEAN]

DiskType ==
    /\ log \in [Requests -> 0..MaxChunks] /\ json \in [Requests -> Statuses]
    /\ index \in Seq([id : Requests, status : Statuses])
    /\ spoiled \in [Requests -> BOOLEAN]
    /\ signals \in 0..MaxSignals /\ crashes \in 0..MaxCrashes /\ faults \in 0..MaxFaults

\* The types, part by part.
LEMMA Parts == TypeOK <=> CertType /\ HandlerType /\ ClientType /\ DiskType
BY DEF TypeOK, CertType, HandlerType, ClientType, DiskType

\* What Append does to a sequence.
LEMMA Appending ==
    ASSUME NEW S, NEW s \in Seq(S), NEW e \in S
    PROVE  /\ Append(s, e) \in Seq(S)
           /\ DOMAIN s = 1..Len(s) /\ DOMAIN Append(s, e) = 1..Len(s) + 1 /\ Len(s) \in Nat
           /\ Append(s, e)[Len(s) + 1] = e
           /\ \A i \in 1..Len(s) : Append(s, e)[i] = s[i]
OBVIOUS

\* What a call to the disk leaves of the history and the counters.
LEMMA Faulting ==
    \A r \in Requests :
        DiskType /\ (DiskWorks \/ DiskFails(r)) =>
            /\ spoiled' \in [Requests -> BOOLEAN]
            /\ signals' \in 0..MaxSignals /\ crashes' \in 0..MaxCrashes
            /\ faults' \in 0..MaxFaults
<1> SUFFICES ASSUME NEW r \in Requests, DiskType, DiskWorks \/ DiskFails(r)
             PROVE  /\ spoiled' \in [Requests -> BOOLEAN]
                    /\ signals' \in 0..MaxSignals /\ crashes' \in 0..MaxCrashes
                    /\ faults' \in 0..MaxFaults
  OBVIOUS
<1>1. CASE DiskWorks
  BY <1>1 DEF DiskType, DiskWorks, boundVars
<1>2. CASE DiskFails(r)
  BY <1>2, Numbers DEF DiskType, DiskFails
<1> QED
  BY <1>1, <1>2

\* No step breaks the types.
LEMMA TypeStep == IInv /\ [Next]_vars => TypeOK'
<1> SUFFICES ASSUME IInv, [Next]_vars
             PROVE  CertType' /\ HandlerType' /\ ClientType' /\ DiskType'
  BY DEF CertType, HandlerType, ClientType, DiskType, TypeOK
<1>0. /\ CertType /\ HandlerType /\ ClientType /\ DiskType
      /\ CertInv /\ BoundInv
  BY Parts DEF IInv
<1>1. ASSUME NEW r \in Requests, Accept(r)
      PROVE  CertType' /\ HandlerType' /\ ClientType' /\ DiskType'
  <2>1. CertType'
    BY <1>0, <1>1, Numbers DEF CertType, Accept, fileVars, getCertificate
  <2>2. HandlerType'
    <3>1. PICK k \in KindsOf[r] :
             /\ kind' = [kind EXCEPT ![r] = k]
             /\ \/ status' = [status EXCEPT ![r] = 403] /\ at' = [at EXCEPT ![r] = "finish"]
                \/ at' = [at EXCEPT ![r] = "body"] /\ status' = status
      BY <1>1, Zenon DEF Accept, Goto
    <3>2. k \in Kinds
      BY <3>1, Numbers
    <3>4. status' \in [Requests -> Statuses]
      BY <1>0, <3>1 DEF HandlerType, Statuses
    <3> QED
      BY <1>0, <1>1, <3>1, <3>2, <3>4 DEF HandlerType, Accept
  <2>3. ClientType'
    BY <1>0, <1>1 DEF ClientType, Accept, clientVars
  <2>4. DiskType'
    BY <1>0, <1>1 DEF DiskType, Accept, diskVars, boundVars
  <2> QED
    BY <2>1, <2>2, <2>3, <2>4
<1>2. ASSUME NEW r \in Requests, ReadBody(r)
      PROVE  CertType' /\ HandlerType' /\ ClientType' /\ DiskType'
  <2>1. CertType'
    BY <1>0, <1>2 DEF CertType, ReadBody, certVars
  <2>2. HandlerType'
    BY <1>0, <1>2 DEF HandlerType, Statuses, ReadBody, Goto
  <2>3. ClientType'
    BY <1>0, <1>2 DEF ClientType, ReadBody, clientVars
  <2>4. DiskType'
    BY <1>0, <1>2 DEF DiskType, ReadBody, diskVars, boundVars
  <2> QED
    BY <2>1, <2>2, <2>3, <2>4
<1>3. ASSUME NEW r \in Requests, Do(r)
      PROVE  CertType' /\ HandlerType' /\ ClientType' /\ DiskType'
  <2>1. CertType'
    BY <1>0, <1>3 DEF CertType, Do, certVars
  <2>2. HandlerType'
    BY <1>0, <1>3 DEF HandlerType, Statuses, Do, Goto
  <2>3. ClientType'
    BY <1>0, <1>3 DEF ClientType, Do, clientVars
  <2>4. DiskType'
    BY <1>0, <1>3 DEF DiskType, Do, diskVars, boundVars
  <2> QED
    BY <2>1, <2>2, <2>3, <2>4
<1>4. ASSUME NEW r \in Requests, Read(r)
      PROVE  CertType' /\ HandlerType' /\ ClientType' /\ DiskType'
  <2>1. CertType'
    BY <1>0, <1>4 DEF CertType, Read, certVars
  <2>2. HandlerType'
    BY <1>0, <1>4 DEF HandlerType, Read, Goto
  <2>3. ClientType'
    BY <1>0, <1>4 DEF ClientType, Read, clientVars
  <2>4. DiskType'
    BY <1>0, <1>4 DEF DiskType, Read, diskVars, boundVars
  <2> QED
    BY <2>1, <2>2, <2>3, <2>4
<1>5. ASSUME NEW r \in Requests, Write(r)
      PROVE  CertType' /\ HandlerType' /\ ClientType' /\ DiskType'
  <2>1. CertType'
    BY <1>0, <1>5 DEF CertType, Write, certVars
  <2>2. HandlerType'
    BY <1>0, <1>5 DEF HandlerType, Write, Goto
  <2>3. ClientType'
    BY <1>0, <1>5, Numbers DEF ClientType, HandlerType, BoundInv, Write
  <2>4. DiskType'
    BY <1>0, <1>5 DEF DiskType, Write, diskVars, boundVars
  <2> QED
    BY <2>1, <2>2, <2>3, <2>4
<1>6. ASSUME NEW r \in Requests, Log(r)
      PROVE  CertType' /\ HandlerType' /\ ClientType' /\ DiskType'
  <2>1. CertType'
    BY <1>0, <1>6 DEF CertType, Log, certVars
  <2>2. HandlerType'
    BY <1>0, <1>6 DEF HandlerType, Log, Goto
  <2>3. ClientType'
    BY <1>0, <1>6 DEF ClientType, Log, clientVars
  <2>4. DiskType'
    <3>1. log' \in [Requests -> 0..MaxChunks]
      <4>1. log[r] \in 0..MaxChunks /\ log[r] < MaxChunks
        BY <1>0, <1>6 DEF DiskType, BoundInv, Log
      <4>2. log[r] + 1 \in 0..MaxChunks
        BY <4>1, Numbers
      <4>3. log' = log \/ log' = [log EXCEPT ![r] = log[r] + 1]
        BY <1>6 DEF Log
      <4> QED
        BY <1>0, <4>2, <4>3 DEF DiskType
    <3> QED
      BY <1>0, <1>6, <3>1, Faulting DEF DiskType, Log
  <2> QED
    BY <2>1, <2>2, <2>3, <2>4
<1>7. ASSUME NEW r \in Requests, Record(r)
      PROVE  CertType' /\ HandlerType' /\ ClientType' /\ DiskType'
  <2>1. CertType'
    BY <1>0, <1>7 DEF CertType, Record, certVars
  <2>2. HandlerType'
    BY <1>0, <1>7 DEF HandlerType, Record, Goto
  <2>3. ClientType'
    BY <1>0, <1>7 DEF ClientType, Record, clientVars
  <2>4. DiskType'
    <3>1. json' \in [Requests -> Statuses]
      BY <1>0, <1>7 DEF DiskType, HandlerType, Record
    <3> QED
      BY <1>0, <1>7, <3>1, Faulting DEF DiskType, Record
  <2> QED
    BY <2>1, <2>2, <2>3, <2>4
<1>8. ASSUME NEW r \in Requests, Index(r)
      PROVE  CertType' /\ HandlerType' /\ ClientType' /\ DiskType'
  <2>1. CertType'
    BY <1>0, <1>8 DEF CertType, Index, certVars
  <2>2. HandlerType'
    BY <1>0, <1>8 DEF HandlerType, Index, Goto
  <2>3. ClientType'
    BY <1>0, <1>8 DEF ClientType, Index, clientVars
  <2>4. DiskType'
    <3>1. index' = index \/ index' = Append(index, [id |-> r, status |-> status[r]])
      BY <1>8 DEF Index
    <3>2. index' \in Seq([id : Requests, status : Statuses])
      <4>1. [id |-> r, status |-> status[r]] \in [id : Requests, status : Statuses]
        BY <1>0 DEF HandlerType
      <4>2. index \in Seq([id : Requests, status : Statuses])
        BY <1>0 DEF DiskType
      <4>3. Append(index, [id |-> r, status |-> status[r]]) \in Seq([id : Requests, status : Statuses])
        BY <4>1, <4>2
      <4> QED
        BY <3>1, <4>2, <4>3
    <3> QED
      BY <1>0, <1>8, <3>2, Faulting DEF DiskType, Index
  <2> QED
    BY <2>1, <2>2, <2>3, <2>4
<1>9. ASSUME NEW r \in Requests, Finish(r)
      PROVE  CertType' /\ HandlerType' /\ ClientType' /\ DiskType'
  <2>1. CertType'
    BY <1>0, <1>9 DEF CertType, Finish, certVars
  <2>2. HandlerType'
    BY <1>0, <1>9 DEF HandlerType, Finish, Goto
  <2>3. ClientType'
    <3>1. seen' \in [Requests -> Statuses]
      BY <1>0, <1>9 DEF ClientType, HandlerType, Finish
    <3> QED
      BY <1>0, <1>9, <3>1 DEF ClientType, Finish
  <2>4. DiskType'
    BY <1>0, <1>9 DEF DiskType, Finish, diskVars, boundVars
  <2> QED
    BY <2>1, <2>2, <2>3, <2>4
<1>10. ASSUME NEW r \in Requests, ClientLeaves(r)
      PROVE  CertType' /\ HandlerType' /\ ClientType' /\ DiskType'
  <2>1. CertType'
    BY <1>0, <1>10 DEF CertType, ClientLeaves, certVars
  <2>2. HandlerType'
    BY <1>0, <1>10 DEF HandlerType, ClientLeaves, handlerVars
  <2>3. ClientType'
    BY <1>0, <1>10 DEF ClientType, ClientLeaves
  <2>4. DiskType'
    BY <1>0, <1>10 DEF DiskType, ClientLeaves, diskVars, boundVars
  <2> QED
    BY <2>1, <2>2, <2>3, <2>4
<1>11. CASE Launch
  BY <1>0, <1>11 DEF CertType, HandlerType, ClientType, DiskType, Starting, Launch,
     certVars, handlerVars, clientVars, diskVars, boundVars
<1>12. CASE Booting
  <2>1. ASSUME Stat PROVE CertType'
    <3>1. fresh' \in CAs \union {None}
      <4>1. fresh \in CAs \union {None}
        BY <1>0 DEF CertType
      <4>2. fresh' = fresh \/ (fresh < MaxCAs /\ fresh' = fresh + 1)
        BY <2>1 DEF Stat
      <4> QED
        BY <4>1, <4>2, Numbers DEF CAs, None
    <3>2. server' \in Starting
      BY <2>1 DEF Stat, Starting
    <3>3. UNCHANGED <<cert, key, ca, leaf, trusted>>
      BY <2>1 DEF Stat, fileVars
    <3> QED
      BY <1>0, <3>1, <3>2, <3>3 DEF CertType
  <2>2. ASSUME Load PROVE CertType'
    BY <1>0, <2>2 DEF CertType, Load, fileVars
  <2>3. ASSUME WriteCert PROVE CertType'
    BY <1>0, <2>3 DEF CertType, Starting, WriteCert
  <2>4. ASSUME WriteKey PROVE CertType'
    BY <1>0, <2>4 DEF CertType, Starting, WriteKey
  <2>5. CertType'
    BY <1>12, <2>1, <2>2, <2>3, <2>4 DEF Booting, Boot, Create
  <2> QED
    BY <1>0, <1>12, <2>5 DEF HandlerType, ClientType, DiskType, Booting, handlerVars,
       clientVars, diskVars, boundVars
<1>13. CASE Living
  <2>1. CertType'
    BY <1>0, <1>13, Numbers DEF CertType, Living, Day, CATrust, fileVars
  <2> QED
    BY <1>0, <1>13, <2>1 DEF HandlerType, ClientType, DiskType, Living, handlerVars,
       clientVars, diskVars, boundVars
<1>14. CASE Signal
  BY <1>0, <1>14, Numbers DEF CertType, HandlerType, ClientType, DiskType, Signal,
     certVars, handlerVars, clientVars, diskVars
<1>15. ASSUME Exit, crashes' \in 0..MaxCrashes, signals' = signals
       PROVE  CertType' /\ HandlerType' /\ ClientType' /\ DiskType'
  BY <1>0, <1>15, Numbers DEF CertType, HandlerType, ClientType, DiskType, Exit, Forget,
     NoLeaf, fileVars, clientVars, diskVars
<1>16. CASE Shutdown
  BY <1>0, <1>15, <1>16 DEF Shutdown, DiskType
<1>17. CASE Crash
  BY <1>0, <1>15, <1>17, Numbers DEF Crash, DiskType
<1>18. CASE UNCHANGED vars
  BY <1>0, <1>18 DEF vars, CertType, HandlerType, ClientType, DiskType, certVars,
     handlerVars, clientVars, diskVars, boundVars
<1> QED
  BY <1>1, <1>2, <1>3, <1>4, <1>5, <1>6, <1>7, <1>8, <1>9, <1>10, <1>11, <1>12, <1>13,
     <1>14, <1>16, <1>17, <1>18 DEF Next, Handler, Goes


-----------------------------------------------------------------------------
(* The certificates.                                                       *)

\* The days of a leaf play no part.
LEMMA CertStep == IInv /\ [Next]_vars => CertInv'
<1> SUFFICES ASSUME IInv, [Next]_vars PROVE CertInv'
  OBVIOUS
<1>0. CertType /\ HandlerType /\ CertInv
  BY Parts DEF IInv
<1>1. ASSUME UNCHANGED <<server, certVars>> PROVE CertInv'
  BY <1>0, <1>1 DEF CertInv, certVars
<1>2. ASSUME NEW r \in Requests, Accept(r) PROVE CertInv'
  BY <1>0, <1>2 DEF CertInv, Accept, getCertificate, fileVars, Serving
<1>3. ASSUME NEW r \in Requests, Handler(r) \/ ClientLeaves(r) PROVE CertInv'
  <2>1. UNCHANGED <<server, certVars>>
    BY <1>3 DEF Handler, Goes, ReadBody, Do, Read, Write, Log, Record, Index, Finish,
       ClientLeaves
  <2> QED
    BY <1>1, <2>1
<1>4. CASE Launch
  BY <1>0, <1>4 DEF CertInv, Launch, Serving, Creating, certVars
<1>5. ASSUME Stat PROVE CertInv'
  <2>1. fresh \in CAs \union {None}
    BY <1>0 DEF CertType
  <2>2. CASE cert # None /\ key # None
    BY <1>0, <1>5, <2>2 DEF CertInv, Stat, fileVars, Serving, Creating
  <2>3. CASE ~(cert # None /\ key # None)
    <3>1. fresh' \in CAs
      <4>1. fresh' = fresh + 1 /\ fresh < MaxCAs
        BY <1>5, <2>3 DEF Stat
      <4> QED
        BY <2>1, <4>1, Numbers DEF CAs, None
    <3> QED
      BY <1>0, <1>5, <2>3, <3>1 DEF CertInv, Stat, Serving
  <2> QED
    BY <2>2, <2>3
<1>6. ASSUME Load PROVE CertInv'
  <2>1. cert \in CAs \union {None, Torn}
    BY <1>0 DEF CertType
  <2> QED
    BY <1>0, <1>6, <2>1 DEF CertInv, Load, fileVars, Serving, Creating
<1>7. ASSUME WriteCert PROVE CertInv'
  BY <1>0, <1>7 DEF CertInv, WriteCert, Serving, Creating
<1>8. ASSUME WriteKey PROVE CertInv'
  <2>1. None \notin CAs
    BY DEF CAs, None
  <2> QED
    BY <1>0, <1>8, <2>1 DEF CertInv, WriteKey, Serving, Creating
<1>9. CASE Living
  <2>2. CASE CATrust
    BY <1>0, <2>2 DEF CertInv, CATrust, fileVars, Serving, Creating
  <2>3. CASE Day
    <3>1. leaf # NoLeaf /\ leaf'.ca = leaf.ca
      BY <1>0, <2>3 DEF CertType, Day, NoLeaf
    <3> QED
      BY <1>0, <2>3, <3>1 DEF CertInv, Day, fileVars
  <2> QED
    BY <1>9, <2>2, <2>3 DEF Living
<1>10. CASE Signal
  BY <1>0, <1>10 DEF CertInv, Signal, certVars, Serving, Creating
<1>11. ASSUME Exit PROVE CertInv'
  BY <1>0, <1>11 DEF CertInv, Exit, Forget, fileVars, Serving, Creating
<1> QED
  BY <1>1, <1>2, <1>3, <1>4, <1>5, <1>6, <1>7, <1>8, <1>9, <1>10, <1>11 DEF Next, Booting,
     Boot, Create, Shutdown, Crash, vars

-----------------------------------------------------------------------------
(* The requests.                                                           *)

\* A chunk is read only below the bound, and written and logged only after that.
LEMMA BoundStep == IInv /\ [Next]_vars => BoundInv'
<1> SUFFICES ASSUME IInv, [Next]_vars PROVE BoundInv'
  OBVIOUS
<1>0. HandlerType /\ ClientType /\ DiskType /\ BoundInv
  BY Parts DEF IInv
<1>1. ASSUME UNCHANGED <<at, got, log>> PROVE BoundInv'
  BY <1>0, <1>1 DEF BoundInv
<1>2. ASSUME NEW r \in Requests, Accept(r) PROVE BoundInv'
  BY <1>0, <1>2 DEF BoundInv, HandlerType, Accept, Goto, clientVars, diskVars
<1>3. ASSUME NEW r \in Requests, ReadBody(r) \/ Do(r) PROVE BoundInv'
  BY <1>0, <1>3 DEF BoundInv, HandlerType, ReadBody, Do, Goto, clientVars, diskVars
<1>4. ASSUME NEW r \in Requests, Read(r) PROVE BoundInv'
  BY <1>0, <1>4 DEF BoundInv, HandlerType, Read, Goto, clientVars, diskVars
<1>5. ASSUME NEW r \in Requests, Write(r) PROVE BoundInv'
  BY <1>0, <1>5 DEF BoundInv, HandlerType, ClientType, Write, Goto, diskVars
<1>6. ASSUME NEW r \in Requests, Log(r) PROVE BoundInv'
  BY <1>0, <1>6 DEF BoundInv, HandlerType, DiskType, Log, Goto, clientVars
<1>7. ASSUME NEW r \in Requests, Record(r) PROVE BoundInv'
  BY <1>0, <1>7 DEF BoundInv, HandlerType, Record, Goto, clientVars
<1>8. ASSUME NEW r \in Requests, Index(r) \/ Finish(r) PROVE BoundInv'
  BY <1>0, <1>8 DEF BoundInv, HandlerType, Index, Finish, Goto, clientVars, diskVars
<1>9. ASSUME Exit PROVE BoundInv'
  BY <1>0, <1>9 DEF BoundInv, Exit, clientVars, diskVars
<1>10. ASSUME NEW r \in Requests, ClientLeaves(r) PROVE UNCHANGED <<at, got, log>>
  BY <1>10 DEF ClientLeaves, handlerVars, diskVars
<1>11. Launch \/ Booting \/ Living \/ Signal \/ UNCHANGED vars => UNCHANGED <<at, got, log>>
  BY DEF Launch, Booting, Living, Signal, vars, handlerVars, clientVars, diskVars
<1> QED
  BY <1>1, <1>2, <1>3, <1>4, <1>5, <1>6, <1>7, <1>8, <1>9, <1>10, <1>11 DEF Next, Handler,
     Goes, Shutdown, Crash

\* Nothing changes for s.
Same(s) ==
    /\ at'[s] = at[s] /\ kind'[s] = kind[s] /\ status'[s] = status[s]
    /\ seen'[s] = seen[s] /\ got'[s] = got[s] /\ ended'[s] = ended[s]
    /\ log'[s] = log[s] /\ logFailed'[s] = logFailed[s] /\ json'[s] = json[s]
    /\ spoiled'[s] = spoiled[s]

\* What holds of s goes on holding when nothing changes for s.
LEMMA SameInv ==
    \A s : RequestInv(s) /\ Same(s) /\ (Recorded(s) => Recorded(s)') => RequestInv(s)'
BY DEF RequestInv, Same

\* What a row says stays true.
RowStays(s) ==
    /\ at'[s] \in {"finish", "over"} /\ kind'[s] = kind[s] /\ status'[s] = status[s]
    /\ json'[s] = json[s] /\ log'[s] = log[s] /\ got'[s] = got[s] /\ spoiled'[s] = spoiled[s]

\* The rows stay true when none is added and what each says stays true.
LEMMA RowsStay ==
    RowInv /\ index' = index /\ (\A i \in DOMAIN index : RowStays(index[i].id)) => RowInv'
BY DEF RowInv, RowStays

\* A step for r leaves the other requests alone.
LEMMA OthersSame ==
    \A r, s \in Requests :
        /\ HandlerType /\ ClientType /\ DiskType
        /\ Accept(r) \/ Handler(r) \/ ClientLeaves(r)
        /\ r # s
        => Same(s)
<1> SUFFICES ASSUME NEW r \in Requests, NEW s \in Requests, HandlerType, ClientType, DiskType, r # s,
                    Accept(r) \/ Handler(r) \/ ClientLeaves(r)
             PROVE  Same(s)
  OBVIOUS
<1>1. CASE Accept(r)
  BY <1>1 DEF Same, HandlerType, Accept, Goto, clientVars, diskVars
<1>2. CASE ReadBody(r)
  BY <1>2 DEF Same, HandlerType, ReadBody, Goto, clientVars, diskVars
<1>3. CASE Do(r)
  BY <1>3 DEF Same, HandlerType, Do, Goto, clientVars, diskVars
<1>4. CASE Read(r)
  BY <1>4 DEF Same, HandlerType, Read, Goto, clientVars, diskVars
<1>5. CASE Write(r)
  BY <1>5 DEF Same, HandlerType, ClientType, Write, Goto, diskVars
<1>6. CASE Log(r)
  BY <1>6 DEF Same, HandlerType, DiskType, Log, Goto, DiskWorks, DiskFails, clientVars
<1>7. CASE Record(r)
  BY <1>7 DEF Same, HandlerType, DiskType, Record, Goto, DiskWorks, DiskFails, clientVars
<1>8. CASE Index(r)
  BY <1>8 DEF Same, HandlerType, DiskType, Index, Goto, DiskWorks, DiskFails, clientVars
<1>9. CASE Finish(r)
  BY <1>9 DEF Same, HandlerType, ClientType, Finish, Goto, diskVars
<1>10. CASE ClientLeaves(r)
  BY <1>10 DEF Same, ClientLeaves, handlerVars, diskVars
<1> QED
  BY <1>1, <1>2, <1>3, <1>4, <1>5, <1>6, <1>7, <1>8, <1>9, <1>10 DEF Handler, Goes

\* Below the index there is no row of r, and no step but that one adds any.
LEMMA NoRow ==
    \A r \in Requests : RowInv /\ at[r] \notin {"finish", "over"} => ~Recorded(r)
BY DEF RowInv, Recorded

\* The elements of a sequence.
LEMMA Members ==
    ASSUME NEW S, NEW s \in Seq(S), NEW i \in DOMAIN s PROVE s[i] \in S
OBVIOUS

\* Rows are about requests.
LEMMA RowIds == DiskType => \A i \in DOMAIN index : index[i].id \in Requests
<1> SUFFICES ASSUME DiskType, NEW i \in DOMAIN index PROVE index[i].id \in Requests
  OBVIOUS
<1>1. index \in Seq([id : Requests, status : Statuses])
  BY DEF DiskType
<1>2. index[i] \in [id : Requests, status : Statuses]
  BY <1>1, Members
<1> QED
  BY <1>2

\* A step of a request keeps the requests and the rows right.
LEMMA RequestStep ==
    \A r \in Requests :
        IInv /\ (Accept(r) \/ Handler(r) \/ ClientLeaves(r)) =>
            RowInv' /\ \A s \in Requests : RequestInv(s)'
<1> SUFFICES ASSUME NEW r \in Requests, IInv, Accept(r) \/ Handler(r) \/ ClientLeaves(r)
             PROVE  RowInv' /\ \A s \in Requests : RequestInv(s)'
  OBVIOUS
<1>0. /\ HandlerType /\ ClientType /\ DiskType
      /\ RowInv /\ RequestInv(r) /\ \A s \in Requests : RequestInv(s)
  BY Parts DEF IInv
<1>1. \A s \in Requests \ {r} : Same(s)
  BY <1>0, OthersSame
<1>2. index \in Seq([id : Requests, status : Statuses])
  BY <1>0 DEF DiskType
<1>3. \A i \in DOMAIN index : index[i].id \in Requests
  BY <1>0, RowIds
<1>4. ASSUME index' = index, RequestInv(r)', RowStays(r) \/ ~Recorded(r)
      PROVE  RowInv' /\ \A s \in Requests : RequestInv(s)'
  <2>1. \A s \in Requests : Recorded(s) => Recorded(s)'
    BY <1>4 DEF Recorded
  <2>2. \A i \in DOMAIN index : RowStays(index[i].id)
    BY <1>0, <1>1, <1>3, <1>4 DEF RowInv, RowStays, Same, Recorded
  <2> QED
    BY <1>0, <1>1, <1>4, <2>1, <2>2, SameInv, RowsStay
<1>5. CASE Accept(r)
  <2>1. RequestInv(r)'
    BY <1>0, <1>5 DEF RequestInv, HandlerType, DiskType, Accept, Goto, clientVars, diskVars
  <2>2. index' = index /\ (RowStays(r) \/ ~Recorded(r))
    BY <1>0, <1>5, NoRow DEF Accept, diskVars
  <2> QED
    BY <1>4, <2>1, <2>2
<1>6. CASE ReadBody(r)
  <2>1. RequestInv(r)'
    BY <1>0, <1>6 DEF RequestInv, HandlerType, ReadBody, Goto, clientVars, diskVars
  <2>2. index' = index /\ (RowStays(r) \/ ~Recorded(r))
    BY <1>0, <1>6, NoRow DEF ReadBody, diskVars
  <2> QED
    BY <1>4, <2>1, <2>2
<1>7. CASE Do(r)
  <2>1. RequestInv(r)'
    BY <1>0, <1>7 DEF RequestInv, HandlerType, Do, Goto, clientVars, diskVars
  <2>2. index' = index /\ (RowStays(r) \/ ~Recorded(r))
    BY <1>0, <1>7, NoRow DEF Do, diskVars
  <2> QED
    BY <1>4, <2>1, <2>2
<1>8. CASE Read(r)
  <2>1. RequestInv(r)'
    BY <1>0, <1>8 DEF RequestInv, HandlerType, Read, Goto, clientVars, diskVars
  <2>2. index' = index /\ (RowStays(r) \/ ~Recorded(r))
    BY <1>0, <1>8, NoRow DEF Read, diskVars
  <2> QED
    BY <1>4, <2>1, <2>2
<1>9. CASE Write(r)
  <2>0. UNCHANGED <<kind, status, logFailed, ended, log, json, index, spoiled>>
    BY <1>9 DEF Write, diskVars
  <2>3. /\ at[r] = "write" /\ at'[r] \in {"log", "read", "record"}
        /\ at'[r] = "log" => kind[r] \in Logged
        /\ at'[r] = "log" \/ kind[r] \notin Logged \/ (got'[r] = got[r])
        /\ seen'[r] \in {seen[r], status[r]} /\ got'[r] \in {got[r], got[r] + 1}
    BY <1>0, <1>9 DEF HandlerType, ClientType, Logged, Write, Goto
  <2>1. RequestInv(r)'
    BY <1>0, <2>0, <2>3 DEF RequestInv, ClientType, DiskType
  <2>2. index' = index /\ (RowStays(r) \/ ~Recorded(r))
    BY <1>0, <1>9, NoRow DEF Write, diskVars
  <2> QED
    BY <1>4, <2>1, <2>2
<1>10. CASE Log(r)
  <2>1. RequestInv(r)'
    BY <1>0, <1>10 DEF RequestInv, HandlerType, DiskType, Log, Goto, DiskWorks, DiskFails,
       clientVars
  <2>2. index' = index /\ (RowStays(r) \/ ~Recorded(r))
    BY <1>0, <1>10, NoRow DEF Log
  <2> QED
    BY <1>4, <2>1, <2>2
<1>11. CASE Record(r)
  <2>1. RequestInv(r)'
    BY <1>0, <1>11 DEF RequestInv, HandlerType, DiskType, Record, Goto, DiskWorks,
       DiskFails, clientVars
  <2>2. index' = index /\ (RowStays(r) \/ ~Recorded(r))
    BY <1>0, <1>11, NoRow DEF Record
  <2> QED
    BY <1>4, <2>1, <2>2
<1>12. CASE Finish(r)
  <2>0. UNCHANGED <<kind, status, logFailed, got, log, json, index, spoiled>>
    BY <1>12 DEF Finish, diskVars
  <2>3. /\ at[r] = "finish" /\ at'[r] = "over" /\ seen'[r] \in {seen[r], status[r]}
    BY <1>0, <1>12 DEF HandlerType, ClientType, Finish, Goto
  <2>4. Recorded(r)' <=> Recorded(r)
    BY <2>0 DEF Recorded
  <2>1. RequestInv(r)'
    BY <1>0, <2>0, <2>3, <2>4 DEF RequestInv
  <2>2. index' = index /\ (RowStays(r) \/ ~Recorded(r))
    BY <1>0, <1>12 DEF RowStays, HandlerType, Finish, Goto, diskVars
  <2> QED
    BY <1>4, <2>1, <2>2
<1>13. CASE ClientLeaves(r)
  <2>0. UNCHANGED <<at, kind, status, logFailed, seen, got, ended, log, json, index, spoiled>>
    BY <1>13 DEF ClientLeaves, handlerVars, diskVars
  <2>4. Recorded(r)' <=> Recorded(r)
    BY <2>0 DEF Recorded
  <2>1. RequestInv(r)'
    BY <1>0, <2>0, <2>4 DEF RequestInv
  <2>2. index' = index /\ (RowStays(r) \/ ~Recorded(r))
    BY <1>0, <1>13, NoRow DEF RowStays, ClientLeaves, handlerVars, diskVars
  <2> QED
    BY <1>4, <2>1, <2>2
<1>14. CASE Index(r)
  <2>1. CASE DiskFails(r) /\ index' = index
    <3>1. RequestInv(r)'
      BY <1>0, <1>14, <2>1 DEF RequestInv, HandlerType, DiskType, Index, Goto,
         DiskFails, clientVars
    <3> QED
      BY <1>0, <1>4, <1>14, <2>1, <3>1, NoRow DEF Index
  <2>2. CASE DiskWorks /\ index' = Append(index, [id |-> r, status |-> status[r]])
    <3> DEFINE row == [id |-> r, status |-> status[r]]
    <3>2. /\ Len(index) \in Nat /\ DOMAIN index = 1..Len(index)
          /\ DOMAIN index' = 1..Len(index) + 1
          /\ index'[Len(index) + 1] = row
          /\ \A i \in 1..Len(index) : index'[i] = index[i]
      BY <1>2, <2>2
    <3>3. \A i \in 1..Len(index) : index[i].id # r
      BY <1>0, <1>14, NoRow DEF Recorded, Index
    <3>4. /\ at' = [at EXCEPT ![r] = "finish"]
          /\ UNCHANGED <<kind, status, seen, got, ended, log, logFailed, json, spoiled>>
      BY <1>14, <2>2 DEF Index, Goto, DiskWorks, clientVars
    <3>5. Recorded(r)'
      BY <3>2 DEF Recorded
    <3>6. RequestInv(r)'
      BY <1>0, <1>14, <3>4, <3>5 DEF RequestInv, Index
    <3>7. \A s \in Requests : Recorded(s) => Recorded(s)'
      BY <3>2 DEF Recorded
    <3>8. \A s \in Requests : RequestInv(s)'
      BY <1>0, <1>1, <3>6, <3>7, SameInv
    <3>9. \A i, j \in DOMAIN index' : index'[i].id = index'[j].id => i = j
      BY <1>0, <3>2, <3>3 DEF RowInv
    <3>10. ASSUME NEW i \in DOMAIN index'
           PROVE  LET s == index'[i].id IN
                  /\ at'[s] \in {"finish", "over"} /\ kind'[s] # "refused"
                  /\ index'[i].status = status'[s]
                  /\ spoiled'[s] \/ json'[s] = status'[s]
                  /\ kind'[s] \in Logged => spoiled'[s] \/ log'[s] >= got'[s]
      <4>1. CASE i = Len(index) + 1
        BY <1>0, <1>14, <3>2, <3>4, <4>1 DEF RequestInv, HandlerType, Index
      <4>2. CASE i # Len(index) + 1
        BY <1>0, <1>1, <1>3, <3>2, <3>3, <4>2 DEF RowInv, Same
      <4> QED
        BY <4>1, <4>2
    <3> QED
      BY <3>8, <3>9, <3>10 DEF RowInv
  <2> QED
    BY <1>14, <2>1, <2>2 DEF Index
<1> QED
  BY <1>5, <1>6, <1>7, <1>8, <1>9, <1>10, <1>11, <1>12, <1>13, <1>14 DEF Handler, Goes

\* So does the end of the process, for all handlers at once.
LEMMA ExitStep == IInv /\ Exit => RowInv' /\ \A s \in Requests : RequestInv(s)'
<1> SUFFICES ASSUME IInv, Exit
             PROVE  RowInv' /\ \A s \in Requests : RequestInv(s)'
  OBVIOUS
<1>0. HandlerType /\ DiskType /\ RowInv /\ \A s \in Requests : RequestInv(s)
  BY Parts DEF IInv
<1>1. \A s \in Requests :
          \/ at'[s] = "over" /\ at[s] \notin {"idle", "over"}
          \/ at'[s] = at[s] /\ at[s] \in {"idle", "over"}
  BY DEF Exit, InFlight
<1>2. UNCHANGED <<kind, status, seen, got, ended, log, logFailed, json, index, spoiled>>
  BY DEF Exit, clientVars, diskVars
<1>3. \A s \in Requests : Recorded(s)' <=> Recorded(s)
  BY <1>2 DEF Recorded
<1>4. \A s \in Requests : RequestInv(s)'
  BY <1>0, <1>1, <1>2, <1>3 DEF RequestInv
<1>5. \A i \in DOMAIN index : index[i].id \in Requests
  BY <1>0, RowIds
<1>6. RowInv'
  BY <1>0, <1>1, <1>2, <1>5 DEF RowInv
<1> QED
  BY <1>4, <1>6

\* The invariant is inductive.
LEMMA StepInv == IInv /\ [Next]_vars => IInv'
<1> SUFFICES ASSUME IInv, [Next]_vars PROVE IInv'
  OBVIOUS
<1>1. TypeOK' /\ CertInv' /\ BoundInv'
  BY TypeStep, CertStep, BoundStep
<1>2. RowInv' /\ \A s \in Requests : RequestInv(s)'
  <2>1. CASE \E r \in Requests : Accept(r) \/ Handler(r) \/ ClientLeaves(r)
    BY <2>1, RequestStep
  <2>2. CASE Shutdown \/ Crash
    BY <2>2, ExitStep DEF Shutdown, Crash
  <2>3. CASE Launch \/ Booting \/ Living \/ Signal \/ UNCHANGED vars
    <3>1. UNCHANGED <<handlerVars, clientVars, diskVars, spoiled>>
      BY <2>3 DEF Launch, Booting, Living, Signal, vars
    <3> QED
      BY <3>1 DEF IInv, RowInv, RequestInv, Recorded, handlerVars, clientVars, diskVars
  <2> QED
    BY <2>1, <2>2, <2>3 DEF Next
<1> QED
  BY <1>1, <1>2 DEF IInv

\* It holds in every behaviour.
LEMMA Invariance == Spec => []IInv
BY InitInv, StepInv, PTL DEF Spec

-----------------------------------------------------------------------------
(* Theorems.                                                               *)

\* The types of Server: a log never holds more than a whole response, and no
\* process runs with a CA that was not written out.
THEOREM TypeCorrect == Spec => []TypeOK
<1>1. IInv => TypeOK
  BY DEF IInv
<1> QED
  BY <1>1, Invariance, PTL

\* The rows of a request are one row, if it has any.
LEMMA OneRow ==
    ASSUME RowInv, NEW r, Recorded(r) PROVE \E i \in DOMAIN index : Rows(r) = {i}
BY DEF RowInv, Recorded, Rows

\* Who has seen the end of its response finds it in the audit log, once: the
\* deferred done of the handlers runs before net/http ends the response.
THEOREM AnswersAreRecorded == Spec => []AnsweredIsRecorded
<1>1. IInv => AnsweredIsRecorded
  <2> SUFFICES ASSUME IInv, NEW r \in Requests, ended[r]
               PROVE  IF kind[r] = "refused" THEN Rows(r) = {}
                      ELSE spoiled[r] \/ \E i \in DOMAIN index : Rows(r) = {i}
    BY DEF AnsweredIsRecorded
  <2>1. RowInv /\ RequestInv(r)
    BY DEF IInv
  <2>2. kind[r] = "refused" => Rows(r) = {}
    BY <2>1 DEF RowInv, Rows
  <2>3. kind[r] # "refused" => spoiled[r] \/ Recorded(r)
    BY <2>1 DEF RequestInv
  <2> QED
    BY <2>1, <2>2, <2>3, OneRow
<1> QED
  BY <1>1, Invariance, PTL

\* No row of the index is about something else than what its client has seen,
\* its record says and its log holds.
THEOREM RowsStayTrue == Spec => []RowsAreTrue
<1>1. IInv => RowsAreTrue
  <2> SUFFICES ASSUME IInv, NEW i \in DOMAIN index
               PROVE  LET r == index[i].id IN
                      /\ seen[r] \in {NoStatus, index[i].status} /\ Rows(r) = {i}
                      /\ spoiled[r] \/ json[r] = index[i].status
                      /\ kind[r] \in Logged => spoiled[r] \/ log[r] >= got[r]
    BY DEF RowsAreTrue
  <2>1. index[i].id \in Requests
    BY Parts, RowIds DEF IInv
  <2>2. RowInv /\ RequestInv(index[i].id)
    BY <2>1 DEF IInv
  <2>3. Rows(index[i].id) = {i}
    BY <2>2 DEF RowInv, Rows
  <2> QED
    BY <2>2, <2>3 DEF RowInv, RequestInv
<1> QED
  BY <1>1, Invariance, PTL

\* The CA of a running service is the one that was trusted, over all restarts
\* and kills, and no leaf is shown on the day it expires.
THEOREM TrustIsKept == Spec => []TrustedIsAccepted
<1>1. IInv => TrustedIsAccepted
  <2> SUFFICES ASSUME IInv, server = "up", trusted # None PROVE Accepts(getCertificate)
    BY DEF TrustedIsAccepted
  <2>1. CertInv /\ CertType
    BY Parts DEF IInv
  <2>2. ca = trusted
    BY <2>1 DEF CertInv, Serving
  <2>3. CASE cached
    BY <2>1, <2>2, Numbers DEF CertInv, CertType, cached, getCertificate, Accepts
  <2>4. CASE ~cached
    BY <2>2, <2>4, Numbers DEF getCertificate, Accepts
  <2> QED
    BY <2>3, <2>4
<1> QED
  BY <1>1, Invariance, PTL

=============================================================================
