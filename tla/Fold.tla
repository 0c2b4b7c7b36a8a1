-------------------------------- MODULE Fold --------------------------------
(***************************************************************************)
(* The Codex fold: one client request answered from several upstream       *)
(* rounds (internal/hitman/foldstream.go, driven by handleResponses in     *)
(* proxy.go).  Reasoning items are streamed to the client as they arrive,  *)
(* other output items are buffered.  When a round was truncated while it   *)
(* reasoned, its buffered items are dropped and the model is asked again   *)
(* with the reasoning so far and a nudge; otherwise the buffered items are *)
(* flushed, re-indexed, and one rebuilt terminal event ends the stream.    *)
(*                                                                         *)
(* One handler goroutine runs the fold, so each of its steps up to the     *)
(* next read or write is one action.  Beside it the upstream chooses what  *)
(* to send and when to fail, and the client may leave.                     *)
(*                                                                         *)
(* Data: an output item is identified by its round and upstream index.     *)
(* The constant parts of a request body (nextRoundBody) are left out: a    *)
(* request is the list of items replayed after the client's own input.     *)
(***************************************************************************)
EXTENDS FoldPolicy, FiniteSets

CONSTANTS
    MaxIndex,       \* upstream output_index is at most MaxIndex
    MaxEvents,      \* upstream sends at most so many events before the terminal
    Usages,         \* usage objects of terminal events; NoUsage: none given
    Ordered         \* the upstream follows the documented order of events

ASSUME FoldAssumption ==
    /\ MaxIndex \in Nat
    /\ MaxEvents \in Nat
    /\ Usages \subseteq Usage
    /\ Ordered \in BOOLEAN

NoIndex == -1                           \* the event has no output_index
Indices == {NoIndex} \union (0..MaxIndex)

Terminals == {"completed", "failed", "incomplete"}      \* terminalTypes
ItemTypes == {"added", "delta", "done"}
Preambles == {"created", "in_progress"}

VARIABLES
    pc,             \* where run() stands
    roundNo, dsOI, seq, baseResponse, finalOutput, replayTail,
    summedUsage, firstUsage, roundsInfo,
    roundReasoning, kind, oiToDS, buffered, terminal, usage,
    conn,           \* the client's connection: "up", "gone", or "failed"
    out,            \* all that was written to the client, in order
    answer,         \* the response object of the terminal event written
    requests,       \* the request of each round
    heard           \* the upstream's events of this round, in order

roundVars == <<roundReasoning, kind, oiToDS, buffered, terminal, usage>>
usageVars == <<summedUsage, firstUsage, roundsInfo>>
replyVars == <<conn, out, seq>>
vars == <<pc, roundNo, dsOI, seq, baseResponse, finalOutput, replayTail,
          usageVars, roundVars, conn, out, answer, requests, heard>>

-----------------------------------------------------------------------------
(* Items, events, and the two ways the last write can end.                 *)

\* What an upstream item object says; full: it came with the item's done event.
Item(k, oi, full, enc) ==
    [kind |-> k, round |-> roundNo, oi |-> oi, full |-> full, enc |-> enc]

\* commentaryNudge: the message that makes the model resume.
Nudge == [kind |-> "nudge", round |-> 0, oi |-> NoIndex,
          full |-> TRUE, enc |-> FALSE]

\* An event for the client: upstream item src, downstream index oi.
Event(type, part, src, oi) ==
    [type |-> type, part |-> part, round |-> roundNo, src |-> src, oi |-> oi,
     seq |-> -1]

Done == Event("[DONE]", "marker", NoIndex, NoIndex)

Stamped(ev) == [ev EXCEPT !.seq = seq]

\* The write of handleResponses' emit: a client that left is noticed at this
\* write or at a later one, and a failed connection stays failed.  The event
\* is recorded by the audit log whether or not the write succeeded.
Emit(ev, ok) ==
    /\ out' = Append(out, ev)
    /\ \/ ok  /\ conn # "failed" /\ UNCHANGED conn
       \/ ~ok /\ conn # "up" /\ conn' = "failed"

\* Mutant: an event is counted only when it was written.
SendCounted(ev, ok) == Emit(Stamped(ev), ok) /\ seq' = IF ok THEN seq + 1 ELSE seq

\* stamp, then emit.
Send(ev, ok) == Emit(Stamped(ev), ok) /\ seq' = seq + 1

\* Mutant: errors of emit are ignored.
RelayAnyway(ev) == \E ok \in BOOLEAN : Send(ev, ok) /\ pc' = "read"

\* What processEvent does with an error of emit: the round is over.
Relay(ev) == \E ok \in BOOLEAN : Send(ev, ok) /\ pc' = IF ok THEN "read" ELSE "error"

hasEncryptedContent ==
    roundReasoning # <<>> /\ roundReasoning[Len(roundReasoning)].enc

EmptyReply(type) == [type |-> type, id |-> 0, output |-> <<>>, usage |-> ZeroBill,
                     bill |-> ZeroBill, rounds |-> <<>>, reason |-> ""]

NoAnswer == EmptyReply("none")

-----------------------------------------------------------------------------
Init ==
    /\ pc = "open" /\ roundNo = 0 /\ dsOI = 0 /\ seq = 0 /\ baseResponse = 0
    /\ finalOutput = <<>> /\ replayTail = <<>>
    /\ summedUsage = ZeroBill /\ firstUsage = NoUsage /\ roundsInfo = <<>>
    /\ roundReasoning = <<>> /\ buffered = <<>>
    /\ kind = [oi \in Indices |-> "none"] /\ oiToDS = [oi \in Indices |-> 0]
    /\ terminal = "none" /\ usage = NoUsage
    /\ conn = "up" /\ out = <<>> /\ answer = NoAnswer
    /\ requests = <<>> /\ heard = <<>>

\* Mutant: what was held back is kept for the next round.
ResetRoundButBuffer ==
    /\ roundReasoning' = <<>> /\ UNCHANGED buffered
    /\ kind' = [oi \in Indices |-> "none"] /\ oiToDS' = [oi \in Indices |-> 0]
    /\ terminal' = "none" /\ usage' = NoUsage

ResetRound ==
    /\ roundReasoning' = <<>> /\ buffered' = <<>>
    /\ kind' = [oi \in Indices |-> "none"] /\ oiToDS' = [oi \in Indices |-> 0]
    /\ terminal' = "none" /\ usage' = NoUsage

\* The request may fail or be refused: in round 1 nothing was sent yet, and
\* the client is told the upstream's status.
OpenRound ==
    /\ pc = "open"
    /\ roundNo' = roundNo + 1
    /\ ResetRound
    /\ requests' = Append(requests, replayTail)
    /\ heard' = <<>>
    /\ pc' \in {"read", IF roundNo = 0 THEN "rejected" ELSE "error"}
    /\ UNCHANGED <<dsOI, baseResponse, finalOutput, replayTail, usageVars,
                   replyVars, answer>>

-----------------------------------------------------------------------------
(* The upstream.  An ordered one announces the response, then sends item   *)
(* after item: added, deltas, done.  A failure may cut an item short.      *)

Announced == {i \in DOMAIN heard : heard[i].type = "added"}

NextIndex == Cardinality(Announced)

\* No item was finished since the latest one was announced.
ItemOpen ==
    \E i \in Announced : \A j \in DOMAIN heard : heard[j].type = "done" => j < i

InOrder(type, oi) ==
    CASE type = "created"                    -> heard = <<>>
      [] type = "in_progress"                -> Len(heard) = 1
      [] type = "added"                      -> heard # <<>> /\ ~ItemOpen /\ oi = NextIndex
      [] type \in {"delta", "done"}          -> ItemOpen /\ oi = NextIndex - 1
      [] type \in {"completed", "incomplete"} -> heard # <<>> /\ ~ItemOpen
      [] OTHER                               -> heard # <<>>

\* The next event of the body is read.
Hear(type, oi) ==
    /\ pc = "read"
    /\ Len(heard) < MaxEvents \/ type \in Terminals
    /\ Ordered => InOrder(type, oi)
    /\ heard' = Append(heard, [type |-> type, oi |-> oi])
    /\ UNCHANGED <<roundNo, replayTail, usageVars, answer, requests>>

-----------------------------------------------------------------------------
(* processEvent, one action per branch.                                    *)

\* Round 1 announces the response; the client hears of no other round.
ForwardPreamble(type) ==
    /\ roundNo = 1
    /\ Hear(type, NoIndex)
    /\ baseResponse' = IF type = "created" THEN roundNo ELSE baseResponse
    /\ Relay(Event(type, "control", NoIndex, NoIndex))
    /\ UNCHANGED <<dsOI, finalOutput, roundVars>>

\* Mutant: the latest round's response is remembered.
DropPreambleRemembering(type) ==
    /\ roundNo # 1
    /\ Hear(type, NoIndex)
    /\ baseResponse' = roundNo
    /\ UNCHANGED <<pc, dsOI, finalOutput, replyVars, roundVars>>

DropPreamble(type) ==
    /\ roundNo # 1
    /\ Hear(type, NoIndex)
    /\ UNCHANGED <<pc, dsOI, baseResponse, finalOutput, replyVars, roundVars>>

\* A terminal event ends the round and is kept; u is its usage, if any.
HearTerminal(type, u) ==
    /\ Hear(type, NoIndex)
    /\ terminal' = type
    /\ usage' = u
    /\ pc' = "end"
    /\ UNCHANGED <<dsOI, baseResponse, finalOutput, replyVars,
                   roundReasoning, kind, oiToDS, buffered>>

\* A reasoning item is announced at once, at the client's next index.
AddReasoning(oi) ==
    /\ Hear("added", oi)
    /\ kind' = [kind EXCEPT ![oi] = "reasoning"]
    /\ oiToDS' = [oiToDS EXCEPT ![oi] = dsOI]
    /\ dsOI' = dsOI + 1
    /\ Relay(Event("added", "thought", oi, dsOI))
    /\ UNCHANGED <<baseResponse, finalOutput,
                   roundReasoning, buffered, terminal, usage>>

\* Any other item is held back until it is known that the round stands.
AddBuffered(oi) ==
    /\ Hear("added", oi)
    /\ kind' = [kind EXCEPT ![oi] = "buffered"]
    /\ buffered' = Append(buffered,
            [item |-> Item("message", oi, FALSE, FALSE), events |-> <<"added">>])
    /\ UNCHANGED <<pc, dsOI, baseResponse, finalOutput, replyVars,
                   roundReasoning, oiToDS, terminal, usage>>

\* enc: the item of a done event carries encrypted_content.  A done event
\* without an item acts as a delta does.
RelayReasoning(type, oi, enc) ==
    LET item == Item("reasoning", oi, TRUE, enc) IN
    /\ kind[oi] = "reasoning"
    /\ Hear(type, oi)
    /\ IF type = "done"
       THEN /\ roundReasoning' = Append(roundReasoning, item)
            /\ finalOutput' = Append(finalOutput, item)
       ELSE UNCHANGED <<roundReasoning, finalOutput>>
    /\ Relay(Event(type, "thought", oi, oiToDS[oi]))
    /\ UNCHANGED <<dsOI, baseResponse, kind, oiToDS, buffered, terminal, usage>>

\* A done event brings the finished item.
Joined(entry, type) ==
    [item   |-> [entry.item EXCEPT !.full = @ \/ type = "done"],
     events |-> Append(entry.events, type)]

\* The event joins the first entry of its index.
HoldEvent(type, oi) ==
    /\ kind[oi] = "buffered"
    /\ Hear(type, oi)
    /\ LET i == CHOOSE j \in DOMAIN buffered :
                    /\ buffered[j].item.oi = oi
                    /\ \A k \in DOMAIN buffered : buffered[k].item.oi = oi => j <= k
       IN  buffered' = [buffered EXCEPT ![i] = Joined(@, type)]
    /\ UNCHANGED <<pc, dsOI, baseResponse, finalOutput, replyVars,
                   roundReasoning, kind, oiToDS, terminal, usage>>

\* An event of no known item is passed on with the index it has.
RelayRaw(type, oi) ==
    /\ kind[oi] = "none"
    /\ Hear(type, oi)
    /\ Relay(Event(type, "control", oi, oi))
    /\ UNCHANGED <<dsOI, baseResponse, finalOutput, roundVars>>

\* The body ended without a terminal event.
EndOfBody ==
    /\ pc = "read"
    /\ pc' = "eof"
    /\ UNCHANGED <<roundNo, dsOI, baseResponse, finalOutput, replayTail, usageVars,
                   roundVars, replyVars, answer, requests, heard>>

\* The body broke, or held an event that does not parse or is too large.
FailRead ==
    /\ pc = "read"
    /\ pc' = "error"
    /\ UNCHANGED <<roundNo, dsOI, baseResponse, finalOutput, replayTail, usageVars,
                   roundVars, replyVars, answer, requests, heard>>

\* Mutant: the request upstream outlives the client's.
CancelNothing == conn = "up" /\ FailRead

\* The request upstream carries the client's context: it is cancelled when
\* the client has left, and the pending read fails.
CancelRead == conn # "up" /\ FailRead

-----------------------------------------------------------------------------
(* The end of a round: endRound, then shouldContinue.                      *)

EndRound ==
    LET tokens == usage.reasoning IN
    /\ pc = "end"
    /\ summedUsage' = sumUsage(summedUsage, usage)
    /\ firstUsage' = IF roundNo = 1 THEN usage ELSE firstUsage
    /\ roundsInfo' = Append(roundsInfo,
            [round |-> roundNo, tokens |-> tokens, n |-> tierN(tokens)])
    /\ UNCHANGED <<roundNo, dsOI, baseResponse, finalOutput, roundVars,
                   replyVars, answer, requests, heard>>

\* Mutant: only the latest round is replayed.
NextTailOfRound == Append(roundReasoning, Nudge)

\* prepareNextRound
NextTail == replayTail \o Append(roundReasoning, Nudge)

Continue ==
    /\ EndRound
    /\ shouldContinue(terminal, usage.reasoning, hasEncryptedContent, roundNo)
    /\ replayTail' = NextTail
    /\ pc' = "open"

\* Mutant: only the limit ends a fold.
StopAtLimit ==
    /\ EndRound
    /\ roundNo > MaxContinue
    /\ pc' = "flush"
    /\ UNCHANGED replayTail

Stop ==
    /\ EndRound
    /\ ~shouldContinue(terminal, usage.reasoning, hasEncryptedContent, roundNo)
    /\ pc' = "flush"
    /\ UNCHANGED replayTail

-----------------------------------------------------------------------------
(* The end of the stream.                                                  *)

\* Mutant: held events keep the upstream's index.
HeldIndexUpstream(src) == src

HeldIndex(src) == IF src = NoIndex THEN NoIndex ELSE dsOI

\* flushCleanStop: the next held event, with the index its item has now.
Flush ==
    LET entry == Head(buffered)
        src   == entry.item.oi
        rest  == Tail(entry.events)
    IN
    /\ pc = "flush" /\ buffered # <<>>
    /\ \E ok \in BOOLEAN :
          /\ Send(Event(Head(entry.events), "answer", src, HeldIndex(src)), ok)
          /\ \/ /\ ~ok
                /\ pc' = "marker"
                /\ UNCHANGED <<dsOI, finalOutput, buffered>>
             \/ /\ ok /\ rest # <<>>
                /\ buffered' = <<[entry EXCEPT !.events = rest]>> \o Tail(buffered)
                /\ UNCHANGED <<pc, dsOI, finalOutput>>
             \/ /\ ok /\ rest = <<>>
                /\ buffered' = Tail(buffered)
                /\ dsOI' = dsOI + 1
                /\ finalOutput' = Append(finalOutput, entry.item)
                /\ UNCHANGED pc
    /\ UNCHANGED <<roundNo, baseResponse, replayTail, usageVars, answer, requests, heard,
                   roundReasoning, kind, oiToDS, terminal, usage>>

\* The response object the client is left with.
Reply(type, id, final, reason) ==
    [type |-> type, id |-> id, output |-> finalOutput,
     usage |-> agentUsage(firstUsage, summedUsage, usage, final),
     bill |-> summedUsage, rounds |-> roundsInfo, reason |-> reason]

SendTerminal(reply, ok) ==
    /\ answer' = reply
    /\ Send(Event(reply.type, "terminal", NoIndex, NoIndex), ok)
    /\ UNCHANGED <<roundNo, dsOI, baseResponse, finalOutput, replayTail, usageVars,
                   roundVars, requests, heard>>

\* terminalEvent: the upstream's terminal, rebuilt for the whole fold.
WriteTerminal ==
    LET id     == IF baseResponse # 0 THEN baseResponse ELSE roundNo
        reason == stoppedReason(terminal, usage.reasoning, hasEncryptedContent, roundNo)
    IN
    /\ pc = "flush" /\ buffered = <<>>
    /\ \E ok \in BOOLEAN :
          /\ SendTerminal(Reply(terminal, id, TRUE, reason), ok)
          /\ pc' = IF ok THEN "marker" ELSE "returned"

\* incompleteEvent: the stream broke after it had begun.
WriteIncomplete ==
    LET reason == IF pc = "eof" THEN "upstream_eof" ELSE "upstream_error" IN
    /\ pc \in {"eof", "error"}
    /\ \E ok \in BOOLEAN :
          SendTerminal(Reply("incomplete", baseResponse, FALSE, reason), ok)
    /\ pc' = "marker"

\* Mutant: a refusal is not followed by [DONE].
WriteFailedOnly ==
    /\ pc = "rejected"
    /\ \E ok \in BOOLEAN : SendTerminal(EmptyReply("failed"), ok)
    /\ pc' = "returned"

\* failedEvent: the request was refused outright.
WriteFailed ==
    /\ pc = "rejected"
    /\ \E ok \in BOOLEAN : SendTerminal(EmptyReply("failed"), ok)
    /\ pc' = "marker"

\* emitDone
WriteDone ==
    /\ pc = "marker"
    /\ \E ok \in BOOLEAN : Emit(Done, ok)
    /\ pc' = "returned"
    /\ UNCHANGED <<roundNo, dsOI, seq, baseResponse, finalOutput, replayTail, usageVars,
                   roundVars, answer, requests, heard>>

-----------------------------------------------------------------------------
ClientLeaves ==
    /\ conn = "up" /\ pc # "returned"
    /\ conn' = "gone"
    /\ UNCHANGED <<pc, roundNo, dsOI, seq, baseResponse, finalOutput, replayTail,
                   usageVars, roundVars, out, answer, requests, heard>>

Returned == pc = "returned" /\ UNCHANGED vars

Upstream ==
    \/ \E t \in Preambles : ForwardPreamble(t) \/ DropPreamble(t)
    \/ \E t \in Terminals, u \in Usages : HearTerminal(t, u)
    \/ \E oi \in Indices : AddReasoning(oi) \/ AddBuffered(oi)
    \/ \E t \in {"delta", "done"}, oi \in Indices, enc \in BOOLEAN :
           (enc => t = "done") /\ RelayReasoning(t, oi, enc)
    \/ \E t \in {"delta", "done"}, oi \in Indices : HoldEvent(t, oi) \/ RelayRaw(t, oi)
    \/ EndOfBody
    \/ FailRead

Handler ==
    \/ OpenRound \/ CancelRead
    \/ Continue \/ Stop
    \/ Flush \/ WriteTerminal \/ WriteIncomplete \/ WriteFailed \/ WriteDone

Next == Upstream \/ Handler \/ ClientLeaves \/ Returned

Spec == Init /\ [][Next]_vars

\* The handler's own steps are not delayed for ever: a request upstream has a
\* deadline (ResponseHeaderTimeout), a cancelled read returns, and a write
\* returns when the client reads or leaves.  The upstream owes nothing.
FairSpec == Spec /\ WF_vars(Handler)

-----------------------------------------------------------------------------
(* Properties.                                                             *)

Items == [kind : {"reasoning", "message", "nudge"}, round : Nat, oi : Indices,
          full : BOOLEAN, enc : BOOLEAN]

Entries == [item : Items, events : Seq(ItemTypes) \ {<<>>}]

Events == [type : Preambles \union ItemTypes \union Terminals \union {"[DONE]"},
           part : {"control", "thought", "answer", "terminal", "marker"},
           round : Nat, src : Indices, oi : Nat \union {NoIndex}, seq : Nat \union {-1}]

Replies == [type : Terminals \union {"none"}, id : Nat, output : Seq(Items),
            usage : Bill, bill : Bill,
            rounds : Seq([round : Nat, tokens : Nat \union {NoTokens}, n : Nat]),
            reason : {"", "no_encrypted_content", "max_continue", "tier_out_of_window",
                      "upstream_eof", "upstream_error"}]

\* Types, and the limit that maxContinue puts on the rounds.
TypeOK ==
    /\ pc \in {"open", "read", "error", "rejected", "eof", "end", "flush", "marker", "returned"}
    /\ roundNo \in 0..(MaxContinue + 1)
    /\ dsOI \in Nat /\ seq \in Nat /\ baseResponse \in {0, 1}
    /\ finalOutput \in Seq(Items) /\ replayTail \in Seq(Items)
    /\ summedUsage \in Bill /\ firstUsage \in Usage
    /\ roundsInfo \in Seq([round : Nat, tokens : Nat \union {NoTokens}, n : Nat])
    /\ roundReasoning \in Seq(Items)
    /\ kind \in [Indices -> {"none", "reasoning", "buffered"}]
    /\ oiToDS \in [Indices -> Nat]
    /\ buffered \in Seq(Entries)
    /\ terminal \in Terminals \union {"none"} /\ usage \in Usage
    /\ conn \in {"up", "gone", "failed"}
    /\ out \in Seq(Events) /\ answer \in Replies
    /\ requests \in Seq(Seq(Items))
    /\ heard \in Seq([type : Preambles \union ItemTypes \union Terminals, oi : Indices])

Told == answer.type # "none"            \* the client got a terminal event
Completed == Told /\ terminal # "none"   \* and it is the upstream's own

\* The place of i among the members of S.
Rank(S, i) == Cardinality({j \in S : j <= i})

\* In a completed response, the output_index of every event the client saw is
\* the position of that event's item in the final output, and every item of
\* the final output is in its finished form.  Indices are handed out while
\* events arrive, the output is collected elsewhere, and the held items are
\* numbered only at the flush (foldstream.go:311-357, 464-479).
OutputIndexIsPosition ==
    Completed /\ answer.type = "completed" =>
        /\ \A i \in DOMAIN out :
              out[i].part \in {"thought", "answer"} =>
                  /\ out[i].oi + 1 \in DOMAIN answer.output
                  /\ answer.output[out[i].oi + 1].round = out[i].round
                  /\ answer.output[out[i].oi + 1].oi = out[i].src
        /\ \A k \in DOMAIN answer.output : answer.output[k].full

\* The answer's events heard in this round, and those sent, each at its rank.
Held == {h \in DOMAIN heard : kind[heard[h].oi] = "buffered"}

Answers == {i \in DOMAIN out : out[i].part = "answer"}

IsHeld(p, type, src) ==
    \E h \in Held : Rank(Held, h) = p /\ heard[h].type = type /\ heard[h].oi = src

\* The answer of the round that stands reaches the client whole, in order
\* and once; nothing of the answers of dropped rounds does.
FinalAnswerWhole ==
    /\ Completed => Cardinality(Answers) = Cardinality(Held)
    /\ \A i \in Answers :
          out[i].round = roundNo /\ IsHeld(Rank(Answers, i), out[i].type, out[i].src)

\* The response the client is told of at the end is the one that was
\* announced to it at the start, whichever round ended the fold.
IdentityStable ==
    \A i \in DOMAIN out :
        out[i].type = "created" /\ Told => answer.id = out[i].round

\* The events of a stream that showed the client the end of a reasoning item
\* before round r, and the place of that item in the replay: after the items
\* shown before it, and the nudges of the rounds before its own.
EndsThought(ev) == ev.part = "thought" /\ ev.type = "done"

Shown(stream, r) ==
    {i \in DOMAIN stream : EndsThought(stream[i]) /\ stream[i].round < r}

Place(stream, r, i) == Rank(Shown(stream, r), i) + stream[i].round - 1

Replays(tail, stream, r) ==
    /\ \A i \in Shown(stream, r) :
          LET p == Place(stream, r, i) IN
          /\ p \in DOMAIN tail /\ tail[p].kind = "reasoning"
          /\ tail[p].round = stream[i].round /\ tail[p].oi = stream[i].src
    /\ \A p \in DOMAIN tail :
          tail[p] = Nudge \/ \E i \in Shown(stream, r) : p = Place(stream, r, i)

\* Every continuation request replays exactly the reasoning items whose end
\* the client was shown, in that order, with one nudge after each round.
ReplayIsWhatWasShown ==
    \A r \in DOMAIN requests :
        /\ Replays(requests[r], out, r)
        /\ Len(requests[r]) = Cardinality(Shown(out, r)) + r - 1

\* A round was truncated in tier n when it reports TruncationStep*n - 2 reasoning
\* tokens: the rule of fold.go:46, where a bound and a remainder decide it.
TruncatedAt(tokens, n) == tokens # NoTokens /\ tokens = TruncationStep * n - 2

Truncated(tokens) == \E n \in 1..(tokens + 2) : TruncatedAt(tokens, n)

InWindow(tokens) ==
    \E n \in 1..(tokens + 2) :
        TruncatedAt(tokens, n) /\ (MaxTierN # 0 => n <= MaxTierN)

\* The model is only asked again after a round that the reply's metadata
\* lists with the tokens of a truncation in the window, and with encrypted
\* reasoning of that round to resume from right before the nudge.
ContinuationsWarranted ==
    \A r \in 2..Len(requests) :
        LET tail == requests[r] IN
        /\ r - 1 \in DOMAIN roundsInfo /\ InWindow(roundsInfo[r - 1].tokens)
        /\ Len(tail) >= 2 /\ tail[Len(tail)] = Nudge
        /\ tail[Len(tail) - 1].enc /\ tail[Len(tail) - 1].round = r - 1

\* The reasoning tokens of the rounds of a list, one by one.
ListedTokens(rounds) ==
    UNION {{<<r, k>> : k \in 1..rounds[r].tokens} : r \in DOMAIN rounds}

\* Every round that came to its end is listed once, and the reasoning that is
\* presented as that of one response is the sum over the rounds listed.  The
\* usage presented never exceeds what all rounds were billed, when no round
\* reports more reasoning than output tokens.
BilledCoversReported ==
    Told =>
        /\ Len(answer.rounds) = roundNo - (IF terminal = "none" THEN 1 ELSE 0)
        /\ answer.usage.reasoning = Cardinality(ListedTokens(answer.rounds))
        /\ (\A u \in Usages : Tokens(u) <= u.output) =>
              /\ answer.usage.input <= answer.bill.input
              /\ answer.usage.output <= answer.bill.output

\* Whatever the limits, a completed response says that its last round was
\* truncated if and only if it was (config.go:13-15), and blames the window
\* only for a tier above it: shouldContinue and stoppedReason decide this
\* separately.
TruncationAlwaysReported ==
    Completed /\ answer.type = "completed" =>
        LET tokens == answer.rounds[Len(answer.rounds)].tokens IN
        /\ Truncated(tokens) <=> (answer.reason # "")
        /\ answer.reason = "tier_out_of_window" => ~InWindow(tokens)

\* A client that stayed to the end was sent a terminal event and then [DONE].
ConnectedClientGetsEnd ==
    pc = "returned" /\ conn # "failed" =>
        /\ Len(out) >= 2
        /\ out[Len(out)].part = "marker"
        /\ out[Len(out) - 1].part = "terminal"

\* The proxy's own response.failed carries no output, so it may only be the
\* first thing a client hears: a stream that has begun is ended incomplete.
RefusalComesFirst ==
    Told /\ terminal = "none" /\ answer.type = "failed" => out[1].part = "terminal"

\* After a write to the client has failed, no more upstream rounds are paid for.
NoRoundForLostClient == [][conn = "failed" => requests' = requests]_vars

\* The fold presents itself as one response, however many rounds it took.
Marked == out # <<>> /\ out[Len(out)].part = "marker"

Sent(ev) == [part |-> IF ev.part = "control" THEN "thought" ELSE ev.part, seq |-> ev.seq]

AsOneResponse == INSTANCE ResponseStream WITH
    stream <- [i \in DOMAIN out |-> Sent(out[i])],
    phase  <- IF Marked THEN "closed"
              ELSE IF Told THEN "concluded"
              ELSE IF pc \in {"flush", "marker"} THEN "answering"
              ELSE "thinking",
    lost   <- (conn = "failed")
IsOneResponse == AsOneResponse!Spec

\* When the client leaves, the handler returns, even from a silent upstream:
\* nothing keeps its goroutine and the upstream request for ever.
LeavingEndsHandler == (conn # "up") ~> (pc = "returned")

\* If the upstream ends every body it begins, the handler returns.
HandlerReturns == ([]<>(pc # "read")) => <>(pc = "returned")

=============================================================================
