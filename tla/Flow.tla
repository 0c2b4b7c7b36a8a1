-------------------------------- MODULE Flow --------------------------------
(***************************************************************************)
(* The life of one flow in netd, NewConnectionEx (internal/hitman/netd.go): *)
(* find the process that owns the connection (ProcessOwner), dial the MITM *)
(* or the real host (UpstreamDial), copy until one end is done (PipeConns), *)
(* close.  That the flow is for a target at all is Capture's part.         *)
(***************************************************************************)
EXTENDS ProcessOwner, UpstreamDial

VARIABLES
    pc,         \* where NewConnectionEx stands
    client,     \* the process that opened the connection, until the route is taken
    route,      \* "mitm" or "pass", once matchesProcess has returned
    due         \* history: the route that the owner deserves

flowVars == <<pc, client, route, due>>
vars == <<ownerVars, dialVars, pipeVars, flowVars>>

Init ==
    /\ OwnerInit /\ DialInit /\ PipeInit
    /\ pc = "idle" /\ client = Nobody /\ route = "none" /\ due = "either"

-----------------------------------------------------------------------------
(* The outside.  The processes matter until the owner is found.            *)

Processing ==
    /\ pc \in {"idle", "lookup"} /\ Kernel
    /\ UNCHANGED <<dialVars, pipeVars, flowVars>>

\* What an end does before the dial is only noticed after it, and what it
\* does after the close is not noticed.  The dial has deadlines of its own for
\* an end that does not read.
EndActs ==
    /\ pc \in {"dial", "pipe"}
    /\ \E e \in Ends :
          /\ e = "upstream" => dial \in Reading \union {"up"}
          /\ \/ Speaks(e) /\ Sends(e)
             \/ Finishes(e)
             \/ Resets(e)
             \/ Stalls(e)
    /\ UNCHANGED <<ownerVars, dialVars, flowVars>>

Proxying == ProxyAnswers /\ UNCHANGED <<ownerVars, flowVars>>

-----------------------------------------------------------------------------
(* NewConnectionEx.                                                        *)

Accept ==
    /\ pc = "idle" /\ holder # Nobody
    /\ client' = holder /\ open' = {"client"}
    /\ IF MatchAll
       THEN pc' = "route" /\ UNCHANGED ownerVars
       ELSE pc' = "lookup" /\ BeginLookup
    /\ UNCHANGED <<route, due, dialVars, peers, inbox, early, deadline, copiers>>

FindProcess ==
    /\ pc = "lookup" /\ Lookup
    /\ pc' = IF look' \in {"found", "missed"} THEN "route" ELSE "lookup"
    /\ UNCHANGED <<client, route, due, dialVars, pipeVars>>

\* Who did not hold the connection at any time that counts cannot be its
\* owner; a process that alone held it all the time must be found.
Deserved ==
    IF MatchAll THEN "mitm"
    ELSE IF seen \cap wanted = {} THEN "pass"
    ELSE IF seen = {client} /\ steady /\ failures < 3 THEN "mitm"
    ELSE "either"

\* matchesProcess has returned; what the lookup leaves is not looked at again.
Route ==
    /\ pc = "route" /\ pc' = "dial" /\ due' = Deserved
    /\ IF Matched THEN route' = "mitm" /\ DialMITM ELSE route' = "pass" /\ DialUpstream
    /\ ForgetLookup /\ client' = Nobody

Dialling ==
    /\ pc = "dial" /\ Dial
    /\ UNCHANGED <<ownerVars, flowVars>>

DialFailed ==
    /\ pc = "dial" /\ dial = "failed" /\ pc' = "closed"
    /\ CloseAll
    /\ UNCHANGED <<client, route, due, ownerVars, dialVars>>

Pipe ==
    /\ pc = "dial" /\ dial = "up" /\ pc' = "pipe"
    /\ StartCopying
    /\ UNCHANGED <<client, route, due, ownerVars, dialVars>>

Close ==
    /\ pc = "pipe" /\ OneIsDone /\ pc' = "closed"
    /\ CloseAll
    /\ UNCHANGED <<client, route, due, ownerVars, dialVars>>

Main == FindProcess \/ Route \/ Dialling \/ DialFailed \/ Pipe \/ Close

Copying(e) == Copy(e) /\ UNCHANGED <<ownerVars, dialVars, flowVars>>

Next ==
    \/ Processing \/ EndActs \/ Proxying
    \/ Accept \/ Main \/ \E e \in Ends : Copying(e)

Spec == Init /\ [][Next]_vars

\* The lookup's calls return, a dial has a time limit (10 and 30 seconds), a
\* handshake a deadline, and a write returns unless it is blocked.
FairSpec == Spec /\ WF_vars(Main) /\ \A e \in Ends : WF_vars(Copying(e))

-----------------------------------------------------------------------------
(* Properties.                                                             *)

Bytes == Seq(1..MaxBytes \union {Field, Refusal})

TypeOK ==
    /\ wanted \in WantedSets \union {{}} /\ holder \in Processes \union {Nobody}
    /\ alive \subseteq Processes /\ seen \subseteq Processes
    /\ kept \in Processes \union {Nobody} /\ age \in 0..TTL /\ away \in [Processes -> 0..TTL]
    /\ look \in {"idle", "load", "path", "found", "missed"} /\ attempt \in 0..2
    /\ forced \in BOOLEAN /\ fromCache \in BOOLEAN /\ steady \in BOOLEAN
    /\ {entry, told, client} \subseteq Processes \union {Nobody} /\ failures \in 0..MaxFailures
    /\ mode \in Modes /\ answered \in 0..Rounds
    /\ dial \in Reading \union {"idle", "A", "AAAA", "connect", "up", "failed"}
    /\ peer \in Addresses \union {"mitm", "proxy", NoPeer}
    /\ sent \in [Ends -> 0..MaxBytes] /\ ended \in [Ends -> {"no", "fin", "reset"}]
    /\ stalled \subseteq Ends
    /\ inbox \in [Ends -> Bytes] /\ early \in Bytes
    /\ deadline \in BOOLEAN /\ open \subseteq Ends
    /\ copier \in [Ends -> {"idle", "read", "write", "close", "done"}]
    /\ chunk \in [Ends -> Bytes] /\ got \in [Ends -> Bytes]
    /\ pc \in {"idle", "lookup", "route", "dial", "pipe", "closed"}
    /\ route \in {"none", "mitm", "pass"} /\ due \in {"mitm", "pass", "either"}

\* The connection of a process that alone held its ports, and still does, is
\* piped to the MITM exactly if the process is a configured one, in spite of
\* the kept table, a call that fails, and processes that come and go; and no
\* process that held the ports longer ago than TTL ever decides.  All others
\* reach a real host, or a tunnel that the proxy granted: netd never connects
\* to a fake address, which would lead back into itself.
RightUpstream ==
    /\ route # "none" /\ due # "either" => route = due
    /\ pc = "pipe" =>
          IF route = "mitm" THEN peer = "mitm"
          ELSE \/ mode = "system" /\ peer \in Addresses /\ Unmap(peer) \notin FakeIPs
               \/ mode # "system" /\ peer = "proxy" /\ answered = Rounds

\* Each end gets what the other has sent, from its first byte and in order,
\* whatever came with the handshake.  netd ends a flow only after one of the
\* ends, and loses nothing that this end has sent, unless an end broke.
FirstEndIsWhole ==
    /\ \A e \in Ends : \A i \in DOMAIN got[e] : got[e][i] = i /\ i <= sent[Other(e)]
    /\ copier["client"] # "idle" /\ open # Ends =>
          \E e \in Ends :
              \/ ended[e] = "reset"
              \/ ended[e] = "fin" /\ Len(got[Other(e)]) = sent[e]

\* Once one of its ends has ended, a flow is closed, whatever the dial, the
\* proxy and the other end do; unless what this end had sent waits for ever for
\* an other end that neither reads nor leaves (netd.go:268-286).
FlowEnds ==
    \A e \in Ends : (pc # "idle" /\ ended[e] # "no") ~> (pc = "closed" \/ []Blocked(e))

=============================================================================
