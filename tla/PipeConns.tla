----------------------------- MODULE PipeConns ------------------------------
(***************************************************************************)
(* pipeConns (internal/hitman/netd.go): two goroutines copy between the    *)
(* client's connection and the upstream one, each closes the connection it *)
(* writes to when it is done, and the first to be done ends the flow.      *)
(*                                                                         *)
(* Data: bytes are numbers, each end sends 1, 2, ... up to MaxBytes.  What *)
(* a SOCKS or HTTP proxy says before the tunnel is up comes in the same    *)
(* stream, as other numbers (UpstreamDial).                                *)
(***************************************************************************)
EXTENDS Naturals, Sequences

CONSTANT MaxBytes       \* bound: bytes each end sends

ASSUME PipeAssumption == MaxBytes \in Nat

Ends == {"client", "upstream"}
Other(e) == IF e = "client" THEN "upstream" ELSE "client"

VARIABLES
    sent, ended,    \* what each end has sent, and whether it ended and how
    stalled,        \* the ends that will not read any more, yet may not leave
    inbox,          \* what has arrived from each end and is not read
    early,          \* read from upstream with the handshake: bufferedConn.r
    deadline,       \* the upstream connection has one
    open,           \* the connections that netd has and has not closed
    copier, chunk,  \* the goroutine that reads each end, and what it holds
    got             \* what was written to each end

peers == <<sent, ended, stalled>>
sockets == <<inbox, early, deadline, open>>
copiers == <<copier, chunk, got>>
pipeVars == <<peers, sockets, copiers>>

PipeInit ==
    /\ sent = [e \in Ends |-> 0] /\ ended = [e \in Ends |-> "no"] /\ stalled = {}
    /\ inbox = [e \in Ends |-> <<>>] /\ early = <<>> /\ deadline = FALSE
    /\ open = {}
    /\ copier = [e \in Ends |-> "idle"] /\ chunk = [e \in Ends |-> <<>>]
    /\ got = [e \in Ends |-> <<>>]

-----------------------------------------------------------------------------
(* The two ends: each may send, half-close, reset and cease to read at any *)
(* time.                                                                   *)

Sends(e) ==
    /\ ended[e] = "no" /\ sent[e] < MaxBytes
    /\ sent' = [sent EXCEPT ![e] = @ + 1]
    /\ inbox' = [inbox EXCEPT ![e] = Append(@, sent'[e])]
    /\ UNCHANGED <<ended, stalled, early, deadline, open, copiers>>

Finishes(e) ==
    /\ ended[e] = "no" /\ ended' = [ended EXCEPT ![e] = "fin"]
    /\ UNCHANGED <<sent, stalled, sockets, copiers>>

\* A reset destroys what netd has not read yet.
Resets(e) ==
    /\ ended[e] # "reset" /\ ended' = [ended EXCEPT ![e] = "reset"]
    /\ inbox' = [inbox EXCEPT ![e] = <<>>]
    /\ UNCHANGED <<sent, stalled, early, deadline, open, copiers>>

\* It shows when something is to be written to it.
Stalls(e) ==
    /\ ended[e] # "reset" /\ copier[Other(e)] = "write"
    /\ stalled' = stalled \union {e}
    /\ UNCHANGED <<sent, ended, sockets, copiers>>

-----------------------------------------------------------------------------
(* The goroutine that reads e and writes to the other end.                 *)

\* bufferedConn.Read: from the buffer first, even if the connection is closed.
ReadEarly(e) ==
    /\ copier[e] = "read" /\ e = "upstream" /\ early # <<>>
    /\ chunk' = [chunk EXCEPT ![e] = early] /\ early' = <<>>
    /\ copier' = [copier EXCEPT ![e] = "write"]
    /\ UNCHANGED <<peers, inbox, deadline, open, got>>

Drained(e) == e = "client" \/ early = <<>>

\* A read returns what is there, or a part of it.
Read(e) ==
    /\ copier[e] = "read" /\ e \in open /\ Drained(e)
    /\ \E n \in 1..Len(inbox[e]) :
          /\ chunk' = [chunk EXCEPT ![e] = SubSeq(inbox[e], 1, n)]
          /\ inbox' = [inbox EXCEPT ![e] = SubSeq(@, n + 1, Len(@))]
    /\ copier' = [copier EXCEPT ![e] = "write"]
    /\ UNCHANGED <<peers, early, deadline, open, got>>

\* The other goroutine has closed the connection, the stream is at its end
\* or broken, or a deadline is over.
AtEnd(e) ==
    \/ e \notin open
    \/ inbox[e] = <<>> /\ ended[e] # "no"
    \/ deadline /\ e = "upstream"

ReadEnds(e) ==
    /\ copier[e] = "read" /\ Drained(e) /\ AtEnd(e)
    /\ copier' = [copier EXCEPT ![e] = "close"]
    /\ UNCHANGED <<peers, sockets, chunk, got>>

Writable(e) == e \in open /\ ended[e] # "reset"

\* What e has sent waits for a reader: io.Copy sets no deadline.
Blocked(e) == copier[e] = "write" /\ Writable(Other(e)) /\ Other(e) \in stalled

\* A write takes as long as its reader does.
Write(e) ==
    /\ copier[e] = "write" /\ ~Blocked(e)
    /\ chunk' = [chunk EXCEPT ![e] = <<>>]
    /\ IF Writable(Other(e))
       THEN /\ got' = [got EXCEPT ![Other(e)] = @ \o chunk[e]]
            /\ copier' = [copier EXCEPT ![e] = "read"]
       ELSE /\ copier' = [copier EXCEPT ![e] = "close"]
            /\ UNCHANGED got
    /\ UNCHANGED <<peers, sockets>>

CloseOther(e) ==
    /\ copier[e] = "close"
    /\ copier' = [copier EXCEPT ![e] = "done"] /\ open' = open \ {Other(e)}
    /\ UNCHANGED <<peers, inbox, early, deadline, chunk, got>>

Copy(e) == ReadEarly(e) \/ Read(e) \/ ReadEnds(e) \/ Write(e) \/ CloseOther(e)

-----------------------------------------------------------------------------
(* The flow's own goroutine starts the two and waits for the first.        *)

StartCopying ==
    /\ copier' = [e \in Ends |-> "read"]
    /\ UNCHANGED <<peers, sockets, chunk, got>>

OneIsDone == \E e \in Ends : copier[e] = "done"

\* The deferred closes of pipeConns and NewConnectionEx.
CloseAll ==
    /\ open' = {}
    /\ UNCHANGED <<peers, inbox, early, deadline, copiers>>

=============================================================================
