------------------------------- MODULE Server -------------------------------
(***************************************************************************)
(* The MITM process (internal/hitman/main.go), its request handlers        *)
(* (ServeHTTP, handleResponses, handlePassthrough and forward of proxy.go) *)
(* and the audit log they write (audit.go), over shutdowns, kills, disk    *)
(* faults and clients that leave.                                          *)
(*                                                                         *)
(* Data: a request is one of four kinds; a body is a number of chunks.     *)
(* The fold is what it is to the rest of the process, some writes and an   *)
(* end (module Fold has its inside).  A record's audit files share the     *)
(* request's name, so that each is a function of the request.              *)
(***************************************************************************)
EXTENDS CertAuthority, Sequences

CONSTANTS
    Requests,
    KindsOf,        \* the kinds that each request may be of
    MaxChunks,      \* bound: chunks of a response
    MaxSignals,     \* bound: SIGTERMs
    MaxCrashes,     \* bound: kills
    MaxFaults       \* bound: calls to the disk that fail

\* refused: host not allowed, or a WebSocket; audited: AuditResponse is set.
Kinds == {"refused", "fold", "audited", "plain"}
Logged == {"fold", "audited"}
NoStatus == 0

ASSUME ServerAssumption ==
    /\ KindsOf \in [Requests -> SUBSET Kinds]
    /\ {MaxChunks, MaxSignals, MaxCrashes, MaxFaults} \subseteq Nat

VARIABLES
    at,             \* where the request's handler stands
    kind,
    status,         \* the status the handler has set, and the record's
    upstream,       \* how the upstream's response ended: "open", "eof", "error"
    gone,           \* the client has left
    seen,           \* the status the client has seen
    got,            \* chunks the client has got
    ended,          \* the client saw the response's proper end
    log,            \* chunks in the response log, "req-<id>.sse" or ".response"
    logFailed,      \* respErr
    json,           \* the status in req-<id>.json
    index,          \* index.jsonl
    spoiled,        \* history: the disk failed the request's record
    signals, crashes, faults    \* counters of what is bounded

clientVars == <<gone, seen, got, ended>>
diskVars == <<log, json, index>>
handlerVars == <<at, kind, status, upstream, logFailed>>
boundVars == <<signals, crashes, faults>>
vars == <<server, certVars, handlerVars, clientVars, diskVars, spoiled, boundVars>>

Init ==
    /\ CertInit
    /\ at = [r \in Requests |-> "idle"] /\ kind = [r \in Requests |-> "plain"]
    /\ status = [r \in Requests |-> NoStatus] /\ upstream = [r \in Requests |-> "open"]
    /\ gone = [r \in Requests |-> FALSE] /\ seen = [r \in Requests |-> NoStatus]
    /\ got = [r \in Requests |-> 0] /\ ended = [r \in Requests |-> FALSE]
    /\ log = [r \in Requests |-> 0] /\ logFailed = [r \in Requests |-> FALSE]
    /\ json = [r \in Requests |-> NoStatus] /\ index = <<>>
    /\ spoiled = [r \in Requests |-> FALSE]
    /\ signals = 0 /\ crashes = 0 /\ faults = 0

Goto(r, step) == at' = [at EXCEPT ![r] = step]
InFlight == {r \in Requests : at[r] \notin {"idle", "over"}}

\* A call to the disk that fails on behalf of r.
DiskFails(r) ==
    /\ faults < MaxFaults /\ faults' = faults + 1
    /\ spoiled' = [spoiled EXCEPT ![r] = TRUE]
    /\ UNCHANGED <<signals, crashes>>

DiskWorks == UNCHANGED <<spoiled, boundVars>>

-----------------------------------------------------------------------------
(* The handler.                                                            *)

\* The handshake, and ServeHTTP.  http.Error's page stays in net/http's buffer.
Accept(r) ==
    /\ server = "up" /\ at[r] = "idle"
    /\ trusted # None /\ Accepts(getCertificate) /\ leaf' = getCertificate
    /\ \E k \in KindsOf[r] :
          /\ kind' = [kind EXCEPT ![r] = k]
          /\ IF k = "refused"
             THEN status' = [status EXCEPT ![r] = 403] /\ Goto(r, "finish")
             ELSE Goto(r, "body") /\ UNCHANGED status
    /\ UNCHANGED <<server, fileVars, fresh, ca, trusted, upstream, logFailed,
                   clientVars, diskVars, spoiled, boundVars>>

\* The request body is read, and begin has made the record; the fold sets its
\* status at once, forward when the upstream has answered.
ReadBody(r) ==
    /\ at[r] = "body"
    /\ \/ status' = [status EXCEPT ![r] = 400] /\ Goto(r, "record")
       \/ kind[r] = "fold" /\ status' = [status EXCEPT ![r] = 200] /\ Goto(r, "read")
       \/ kind[r] # "fold" /\ Goto(r, "do") /\ UNCHANGED status
    /\ UNCHANGED <<server, certVars, kind, upstream, logFailed,
                   clientVars, diskVars, spoiled, boundVars>>

Do(r) ==
    /\ at[r] = "do"
    /\ \/ status' = [status EXCEPT ![r] = 502] /\ Goto(r, "record")
       \/ status' = [status EXCEPT ![r] = 200] /\ Goto(r, "read")
    /\ UNCHANGED <<server, certVars, kind, upstream, logFailed,
                   clientVars, diskVars, spoiled, boundVars>>

\* The upstream's next chunk, its end, or an error: forward treats the last
\* two alike.  The fold always ends by itself.
Read(r) ==
    /\ at[r] = "read"
    /\ \/ log[r] < MaxChunks /\ got[r] < MaxChunks /\ Goto(r, "write") /\ UNCHANGED upstream
       \/ /\ Goto(r, "record")
          /\ \E e \in {"eof", "error"} : upstream' = [upstream EXCEPT ![r] = e]
    /\ UNCHANGED <<server, certVars, kind, status, logFailed,
                   clientVars, diskVars, spoiled, boundVars>>

\* Write and Flush.  forward gives up at the first failed write, which it does
\* not log; the fold logs it, and may go on.  A write to a client that left may
\* also succeed.
Write(r) ==
    /\ at[r] = "write"
    /\ \/ /\ ~gone[r]
          /\ got' = [got EXCEPT ![r] = @ + 1] /\ seen' = [seen EXCEPT ![r] = status[r]]
          /\ Goto(r, IF kind[r] \in Logged THEN "log" ELSE "read")
       \/ /\ gone[r]
          /\ Goto(r, IF kind[r] \in Logged THEN "log" ELSE "read")
          /\ UNCHANGED <<got, seen>>
       \/ /\ gone[r]
          /\ Goto(r, IF kind[r] = "fold" THEN "log" ELSE "record")
          /\ UNCHANGED <<got, seen>>
    /\ UNCHANGED <<server, certVars, kind, status, upstream, logFailed,
                   gone, ended, diskVars, spoiled, boundVars>>

\* response: the file is created at its first chunk, or never; errors of a
\* write to it are ignored.
Log(r) ==
    /\ at[r] = "log" /\ Goto(r, "read")
    /\ \/ logFailed[r] /\ DiskWorks /\ UNCHANGED <<log, logFailed>>
       \/ ~logFailed[r] /\ DiskWorks /\ log' = [log EXCEPT ![r] = @ + 1] /\ UNCHANGED logFailed
       \/ /\ ~logFailed[r] /\ DiskFails(r) /\ UNCHANGED log
          /\ logFailed' = [logFailed EXCEPT ![r] = log[r] = 0]
    /\ UNCHANGED <<server, certVars, kind, status, upstream, clientVars, json, index>>

\* done, deferred: the record's file.  Without its directory there is no row,
\* without the file there is one.
Record(r) ==
    /\ at[r] = "record"
    /\ \/ DiskWorks /\ json' = [json EXCEPT ![r] = status[r]] /\ Goto(r, "index")
       \/ DiskFails(r) /\ Goto(r, "index") /\ UNCHANGED json
       \/ DiskFails(r) /\ Goto(r, "finish") /\ UNCHANGED json
    /\ UNCHANGED <<server, certVars, kind, status, upstream, logFailed,
                   clientVars, log, index>>

\* Mutant: the row is written on a goroutine of its own, for which the handler
\* does not wait: the process may end before it gets to run.
IndexBehind(r) ==
    /\ at[r] = "index" /\ Goto(r, "finish")
    /\ DiskWorks /\ index' \in {index, Append(index, [id |-> r, status |-> status[r]])}
    /\ UNCHANGED <<server, certVars, kind, status, upstream, logFailed,
                   clientVars, log, json>>

\* Mutant: forward's rows say 200 too, as the fold's do.
IndexAs200(r) ==
    /\ at[r] = "index" /\ Goto(r, "finish")
    /\ DiskWorks /\ index' = Append(index, [id |-> r, status |-> 200])
    /\ UNCHANGED <<server, certVars, kind, status, upstream, logFailed,
                   clientVars, log, json>>

\* appendIndex, under the auditor's lock.
Index(r) ==
    /\ at[r] = "index" /\ Goto(r, "finish")
    /\ \/ DiskWorks /\ index' = Append(index, [id |-> r, status |-> status[r]])
       \/ DiskFails(r) /\ UNCHANGED index
    /\ UNCHANGED <<server, certVars, kind, status, upstream, logFailed,
                   clientVars, log, json>>

\* The handler has returned: net/http sends what it has buffered, and the
\* chunk that ends the response.
Finish(r) ==
    /\ at[r] = "finish" /\ Goto(r, "over")
    /\ IF ~gone[r]
       THEN seen' = [seen EXCEPT ![r] = status[r]] /\ ended' = [ended EXCEPT ![r] = TRUE]
       ELSE UNCHANGED <<seen, ended>>
    /\ UNCHANGED <<server, certVars, kind, status, upstream, logFailed,
                   gone, got, diskVars, spoiled, boundVars>>

\* What needs neither the client nor the upstream.
Goes(r) == Log(r) \/ Record(r) \/ Index(r) \/ Finish(r)

Handler(r) == ReadBody(r) \/ Do(r) \/ Read(r) \/ Write(r) \/ Goes(r)

ClientLeaves(r) ==
    /\ r \in InFlight /\ ~gone[r] /\ gone' = [gone EXCEPT ![r] = TRUE]
    /\ UNCHANGED <<server, certVars, handlerVars, seen, got, ended,
                   diskVars, spoiled, boundVars>>

-----------------------------------------------------------------------------
(* The process.                                                            *)

\* launchd's KeepAlive.
Launch ==
    /\ server = "down" /\ server' = "stat"
    /\ UNCHANGED <<certVars, handlerVars, clientVars, diskVars, spoiled, boundVars>>

Booting ==
    /\ Boot
    /\ UNCHANGED <<handlerVars, clientVars, diskVars, spoiled, boundVars>>

\* A handshake is all that looks at the leaf and the trust: that days end and
\* a CA is trusted only between requests loses nothing.
Living ==
    /\ InFlight = {} /\ (Day \/ CATrust)
    /\ UNCHANGED <<handlerVars, clientVars, diskVars, spoiled, boundVars>>

\* Shutdown closes the listener; before signal.Notify a signal just kills.
Signal ==
    /\ server = "up" /\ server' = "stopping"
    /\ signals < MaxSignals /\ signals' = signals + 1
    /\ UNCHANGED <<certVars, handlerVars, clientVars, diskVars, spoiled, crashes, faults>>

\* The process ends, and with it the handlers and their connections.
Exit ==
    /\ Forget
    /\ at' = [r \in Requests |-> IF r \in InFlight THEN "over" ELSE at[r]]
    /\ UNCHANGED <<fileVars, fresh, trusted, kind, status, upstream, logFailed,
                   clientVars, diskVars, spoiled, faults>>

\* Mutant: Shutdown without a time limit.
ShutdownUntilIdle ==
    /\ server = "stopping" /\ InFlight = {}
    /\ Exit /\ UNCHANGED <<signals, crashes>>

\* Shutdown returns when no request is in flight, or after five seconds.
Shutdown ==
    /\ server = "stopping"
    /\ Exit /\ UNCHANGED <<signals, crashes>>

Crash ==
    /\ server # "down" /\ crashes < MaxCrashes /\ crashes' = crashes + 1
    /\ Exit /\ UNCHANGED signals

Next ==
    \/ Launch \/ Booting \/ Living \/ Signal \/ Shutdown \/ Crash
    \/ \E r \in Requests : Accept(r) \/ Handler(r) \/ ClientLeaves(r)

Spec == Init /\ [][Next]_vars

\* launchd relaunches, a start goes on, Shutdown's time runs out.  No request
\* need ever end: an upstream may stay silent for ever.
FairSpec == Spec /\ WF_vars(Launch) /\ WF_vars(Booting) /\ WF_vars(Shutdown)

-----------------------------------------------------------------------------
(* Properties.                                                             *)

Statuses == {NoStatus, 200, 400, 403, 502}

TypeOK ==
    /\ server \in Starting \union {"down", "up", "stopping"}
    /\ {cert, key} \subseteq CAs \union {None, Torn}
    /\ {fresh, ca, trusted} \subseteq CAs \union {None}
    /\ leaf \in [ca : CAs \union {None}, left : 0..LeafDays]
    /\ at \in [Requests -> {"idle", "body", "do", "read", "write", "log", "record",
                            "index", "finish", "over"}]
    /\ kind \in [Requests -> Kinds] /\ upstream \in [Requests -> {"open", "eof", "error"}]
    /\ status \in [Requests -> Statuses] /\ seen \in [Requests -> Statuses]
    /\ gone \in [Requests -> BOOLEAN] /\ got \in [Requests -> 0..MaxChunks]
    /\ ended \in [Requests -> BOOLEAN] /\ logFailed \in [Requests -> BOOLEAN]
    /\ log \in [Requests -> 0..MaxChunks] /\ json \in [Requests -> Statuses]
    /\ index \in Seq([id : Requests, status : Statuses])
    /\ spoiled \in [Requests -> BOOLEAN]
    /\ signals \in 0..MaxSignals /\ crashes \in 0..MaxCrashes /\ faults \in 0..MaxFaults

Rows(r) == {i \in DOMAIN index : index[i].id = r}

\* A client that sees its response end properly finds it in the audit log,
\* with the status it saw and all it got, even if the process is killed right
\* after, unless the disk failed.  What was refused is not in the log.
AnsweredIsRecorded ==
    \A r \in Requests : ended[r] =>
        IF kind[r] = "refused" THEN Rows(r) = {}
        ELSE spoiled[r] \/ \E i \in DOMAIN index : Rows(r) = {i}

\* No row is about something that did not happen: its status is the one the
\* client has seen, if any, its request has a file that says the same, and
\* its log holds what the client got; of a kill no row is ever left half true.
RowsAreTrue ==
    \A i \in DOMAIN index : LET r == index[i].id IN
        /\ seen[r] \in {NoStatus, index[i].status} /\ Rows(r) = {i}
        /\ spoiled[r] \/ json[r] = index[i].status
        /\ kind[r] \in Logged => spoiled[r] \/ log[r] >= got[r]

\* Who has once trusted the CA of a running service accepts the certificate
\* of every later one, whatever kills lie in between and however long it runs.
TrustedIsAccepted == server = "up" /\ trusted # None => Accepts(getCertificate)

\* The service comes back after every stop, whatever its requests are doing,
\* and after every kill but one that falls into the writing of the key.
ServesInTheEnd == <>[](server = "up" \/ key = Torn)

\* What forward's comment promises, to stream the response back: a client that
\* sees a proper end has got the upstream's response to its end.
ProperEndIsWhole ==
    \A r \in Requests : ended[r] /\ kind[r] \in {"audited", "plain"} /\ got[r] > 0 =>
        upstream[r] = "eof"

=============================================================================
