---------------------------- MODULE UpstreamDial ----------------------------
(***************************************************************************)
(* How netd reaches the real host of a flow it does not intercept          *)
(* (internal/hitman/proxy_dialer.go, upstreamDialContext): by the first    *)
(* address that the upstream DNS gives, or through a SOCKS5 or an HTTP     *)
(* CONNECT proxy; and the plain dial to the MITM (netd.go).                *)
(*                                                                         *)
(* Data: an address is an element of Addresses; Unmap takes an IPv4-mapped *)
(* IPv6 address to the IPv4 address it stands for.                         *)
(***************************************************************************)
EXTENDS PipeConns, Integers

CONSTANTS
    Modes,          \* of {"system", "socks5", "http"}
    Addresses, FakeIPs, Unmap(_),
    NoPeer

ASSUME DialAssumption ==
    /\ Modes \subseteq {"system", "socks5", "http"}
    /\ FakeIPs \subseteq Addresses /\ \A a \in Addresses : Unmap(a) \in Addresses
    /\ {"mitm", "proxy", NoPeer} \cap Addresses = {} /\ NoPeer \notin {"mitm", "proxy"}

VARIABLES
    mode,
    dial,           \* where the dial stands
    peer,           \* whom netd is connecting, or connected, to
    answered        \* answers of the handshake that the proxy has given

dialVars == <<mode, dial, peer, answered>>

DialInit ==
    /\ mode \in Modes /\ dial = "idle" /\ peer = NoPeer /\ answered = 0

Reading == {"method", "reply", "bound", "status"}

Failed == dial' = "failed" /\ open' = open \ {"upstream"}

-----------------------------------------------------------------------------
(* Whom to dial.                                                           *)

DialMITM ==
    /\ dial = "idle" /\ dial' = "connect" /\ peer' = "mitm"
    /\ UNCHANGED <<mode, answered, pipeVars>>

DialUpstream ==
    /\ dial = "idle"
    /\ IF mode = "system" THEN dial' = "A" /\ UNCHANGED peer
                          ELSE dial' = "connect" /\ peer' = "proxy"
    /\ UNCHANGED <<mode, answered, pipeVars>>

prefixContains(a) == Unmap(a) \in FakeIPs

\* The first address in the answer is taken, or refused; no other is tried.
ResolveAddress ==
    /\ dial \in {"A", "AAAA"}
    /\ \E a \in Addresses :
          IF prefixContains(a) THEN dial' = "failed" /\ UNCHANGED peer
                               ELSE dial' = "connect" /\ peer' = a
    /\ UNCHANGED <<mode, answered, pipeVars>>

\* No address in the answer: after A, AAAA is asked for.
ResolveNothing ==
    /\ dial \in {"A", "AAAA"}
    /\ dial' = IF dial = "A" THEN "AAAA" ELSE "failed"
    /\ UNCHANGED <<mode, peer, answered, pipeVars>>

\* The question times out or is refused.
ResolveFails ==
    /\ dial \in {"A", "AAAA"} /\ dial' = "failed"
    /\ UNCHANGED <<mode, peer, answered, pipeVars>>

\* Mutant: the handshake has no deadline.
SetNoDeadline == UNCHANGED deadline

SetDeadline == deadline' = TRUE

\* With a proxy, a deadline is set and the first request written.
Connect ==
    /\ dial = "connect" /\ open' = open \union {"upstream"}
    /\ IF peer = "proxy"
       THEN /\ SetDeadline
            /\ dial' = IF mode = "socks5" THEN "method" ELSE "status"
       ELSE dial' = "up" /\ UNCHANGED deadline
    /\ UNCHANGED <<mode, peer, answered, peers, inbox, early, copiers>>

ConnectFails ==
    /\ dial = "connect" /\ dial' = "failed"
    /\ UNCHANGED <<mode, peer, answered, pipeVars>>

-----------------------------------------------------------------------------
(* The proxy's side, outside of the program: it answers a request with     *)
(* what netd reads next, or refuses, and passes the host's bytes on once   *)
(* it has granted the tunnel.                                              *)

Field == 0
Refusal == -1

Rounds == IF mode = "socks5" THEN 2 ELSE 1

Asked == IF dial \in {"method", "status"} THEN 1
         ELSE IF dial \in {"reply", "bound"} THEN 2 ELSE 0

\* The method, then the reply and the bound address; or the status.
Answer == IF Asked = 2 THEN <<Field, Field>> ELSE <<Field>>

ProxyAnswers ==
    /\ answered < Asked /\ answered' = answered + 1 /\ ended["upstream"] = "no"
    /\ \E a \in {Answer, <<Refusal>>} :
          inbox' = [inbox EXCEPT !["upstream"] = @ \o a]
    /\ UNCHANGED <<mode, dial, peer, peers, early, deadline, open, copiers>>

Speaks(e) ==
    e = "upstream" => /\ "upstream" \in open \/ dial = "up"
                      /\ peer = "proxy" => answered = Rounds

-----------------------------------------------------------------------------
(* The handshakes.                                                         *)

TunnelUp == dial' = "up" /\ deadline' = FALSE

\* socks5Handshake reads each field to its length and not further.
ReadSOCKS ==
    /\ dial \in {"method", "reply", "bound"} /\ inbox["upstream"] # <<>>
    /\ inbox' = [inbox EXCEPT !["upstream"] = Tail(@)]
    /\ IF Head(inbox["upstream"]) = Refusal
       THEN Failed /\ deadline' = FALSE
       ELSE /\ UNCHANGED open
            /\ CASE dial = "method" -> dial' = "reply" /\ UNCHANGED deadline
                 [] dial = "reply"  -> dial' = "bound" /\ UNCHANGED deadline
                 [] dial = "bound"  -> TunnelUp
    /\ UNCHANGED <<mode, peer, answered, peers, early, copiers>>

\* Mutant: what was read behind the header is dropped with the reader.
KeepNone(bytes) == <<>>

\* bufferedConn: the tunnel is read through the reader of the header.
Keep(bytes) == bytes

\* httpConnectHandshake reads through a buffer, which takes what has come
\* behind the header as well.
ReadCONNECT ==
    /\ dial = "status" /\ inbox["upstream"] # <<>>
    /\ IF Head(inbox["upstream"]) = Refusal
       THEN /\ Failed /\ deadline' = FALSE
            /\ UNCHANGED <<inbox, early>>
       ELSE LET behind == Tail(inbox["upstream"]) IN
            \E n \in 0..Len(behind) :
                /\ early' = Keep(SubSeq(behind, 1, n))
                /\ inbox' = [inbox EXCEPT !["upstream"] = SubSeq(behind, n + 1, Len(behind))]
                /\ TunnelUp /\ UNCHANGED open
    /\ UNCHANGED <<mode, peer, answered, peers, copiers>>

\* The proxy hangs up, or the deadline is over.
HandshakeFails ==
    /\ dial \in Reading
    /\ deadline \/ (ended["upstream"] # "no" /\ inbox["upstream"] = <<>>)
    /\ Failed /\ deadline' = FALSE
    /\ UNCHANGED <<mode, peer, answered, peers, inbox, early, copiers>>

Dial ==
    \/ ResolveAddress \/ ResolveNothing \/ ResolveFails
    \/ Connect \/ ConnectFails
    \/ ReadSOCKS \/ ReadCONNECT \/ HandshakeFails

=============================================================================
