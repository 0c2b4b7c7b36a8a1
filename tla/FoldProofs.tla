----------------------------- MODULE FoldProofs -----------------------------
(***************************************************************************)
(* Proofs about the fold, for every configuration, every bound and every   *)
(* upstream: its types, what the client is sent, in what order, and when   *)
(* it is given up, that the fold implements ResponseStream, and what its   *)
(* reply says and its requests hold.                                       *)
(***************************************************************************)
EXTENDS Fold, FiniteSetTheorems, SequenceTheorems, TLAPS

-----------------------------------------------------------------------------
(* Sequences.                                                              *)

LEMMA AppendTyped ==
    ASSUME NEW S, NEW s \in Seq(S), NEW e \in S
    PROVE  Append(s, e) \in Seq(S)
OBVIOUS

LEMMA ReplaceTyped ==
    ASSUME NEW S, NEW s \in Seq(S), NEW i, NEW e, i \in DOMAIN s => e \in S
    PROVE  [s EXCEPT ![i] = e] \in Seq(S)
<1>1. CASE i \in 1..Len(s)
  BY <1>1, ExceptSeq
<1>2. CASE i \notin 1..Len(s)
  <2>1. s \in [1..Len(s) -> S]
    OBVIOUS
  <2>2. [s EXCEPT ![i] = e] = s
    BY <1>2, <2>1
  <2> QED
    BY <2>2
<1> QED
  BY <1>1, <1>2

-----------------------------------------------------------------------------
(* The decisions and sums of FoldPolicy.                                   *)

LEMMA TierNat ==
    ASSUME NEW t \in Nat \union {NoTokens}
    PROVE  tierN(t) \in Nat
<1> USE PolicyAssumption DEF NoTokens, NoTier
<1>1. CASE t = NoTokens
  BY <1>1 DEF tierN
<1>2. CASE t \in Nat
  <2>1. (t + 2) \div TruncationStep \in Nat
    BY <1>2
  <2> QED
    BY <2>1 DEF tierN
<1> QED
  BY <1>1, <1>2

LEMMA SumIsBill ==
    ASSUME NEW acc \in Bill, NEW u \in Usage
    PROVE  sumUsage(acc, u) \in Bill
BY DEF sumUsage, Bill, Usage, Tokens, NoTokens

LEMMA AgentIsBill ==
    ASSUME NEW first \in Usage, NEW summed \in Bill, NEW u \in Usage, NEW b \in BOOLEAN
    PROVE  agentUsage(first, summed, u, b) \in Bill
BY DEF agentUsage, answerTokens, Bill, Usage, Tokens, NoTokens

LEMMA ReasonTyped ==
    ASSUME NEW type, NEW t, NEW e, NEW r
    PROVE  stoppedReason(type, t, e, r)
               \in {"", "no_encrypted_content", "max_continue", "tier_out_of_window"}
BY DEF stoppedReason

-----------------------------------------------------------------------------
(* Items, events and writes.                                               *)

LEMMA ItemTyped ==
    ASSUME TypeOK, NEW k \in {"reasoning", "message"}, NEW oi \in Indices,
           NEW full \in BOOLEAN, NEW enc \in BOOLEAN
    PROVE  Item(k, oi, full, enc) \in Items
BY DEF TypeOK, Item, Items

LEMMA NudgeTyped == Nudge \in Items
BY DEF Nudge, Items, NoIndex, Indices

LEMMA EventTyped ==
    ASSUME TypeOK,
           NEW type \in Preambles \union ItemTypes \union Terminals \union {"[DONE]"},
           NEW part \in {"control", "thought", "answer", "terminal", "marker"},
           NEW src \in Indices, NEW oi \in Nat \union {NoIndex}
    PROVE  Event(type, part, src, oi) \in Events
BY DEF TypeOK, Event, Events

LEMMA EmitTyped ==
    ASSUME TypeOK, NEW ev \in Events, NEW ok \in BOOLEAN, Emit(ev, ok)
    PROVE  out' \in Seq(Events) /\ conn' \in {"up", "gone", "failed"}
BY DEF TypeOK, Emit

LEMMA SendTyped ==
    ASSUME TypeOK, NEW ev \in Events, NEW ok \in BOOLEAN, Send(ev, ok)
    PROVE  /\ out' \in Seq(Events) /\ conn' \in {"up", "gone", "failed"}
           /\ seq' \in Nat
<1>1. Stamped(ev) \in Events
  BY DEF TypeOK, Stamped, Events
<1>2. Emit(Stamped(ev), ok) /\ seq' = seq + 1
  BY DEF Send
<1> QED
  BY <1>1, <1>2, EmitTyped DEF TypeOK

LEMMA RelayTyped ==
    ASSUME TypeOK, NEW ev \in Events, Relay(ev)
    PROVE  /\ out' \in Seq(Events) /\ conn' \in {"up", "gone", "failed"}
           /\ seq' \in Nat /\ pc' \in {"read", "error"}
<1>1. PICK ok \in BOOLEAN : Send(ev, ok) /\ pc' = IF ok THEN "read" ELSE "error"
  BY DEF Relay
<1> QED
  BY <1>1, SendTyped

LEMMA HearTyped ==
    ASSUME TypeOK, NEW oi \in Indices,
           NEW type \in Preambles \union ItemTypes \union Terminals, Hear(type, oi)
    PROVE  heard' \in Seq([type : Preambles \union ItemTypes \union Terminals, oi : Indices])
BY DEF TypeOK, Hear

-----------------------------------------------------------------------------
(* The inductive invariant behind the types: which rounds can be open.     *)

RoundInv ==
    /\ pc = "open" => roundNo <= MaxContinue
    /\ pc # "open" => roundNo >= 1
    /\ pc = "rejected" => roundNo = 1
    /\ pc \in {"read", "eof", "error", "rejected"} => terminal = "none"
    /\ pc \in {"end", "flush"} => terminal # "none"

IInv == TypeOK /\ RoundInv

LEMMA EmptyReplyTyped ==
    ASSUME NEW type \in Terminals \union {"none"}
    PROVE  EmptyReply(type) \in Replies
<1>1. ZeroBill \in Bill
  BY DEF ZeroBill, Bill
<1> QED
  BY <1>1 DEF EmptyReply, Replies

LEMMA InitInv == Init => IInv
<1> SUFFICES ASSUME Init PROVE IInv
  OBVIOUS
<1> USE PolicyAssumption
<1>1. NoUsage \in Usage /\ ZeroBill \in Bill
  BY DEF NoUsage, ZeroBill, Usage, Bill, NoTokens
<1>2. NoAnswer \in Replies
  BY EmptyReplyTyped DEF NoAnswer
<1> QED
  BY <1>1, <1>2 DEF Init, IInv, TypeOK, RoundInv

LEMMA OpenRoundInv == IInv /\ OpenRound => IInv'
<1> SUFFICES ASSUME IInv, OpenRound PROVE IInv'
  OBVIOUS
<1> USE PolicyAssumption
<1>1. NoUsage \in Usage
  BY DEF NoUsage, Usage, NoTokens
<1>2. requests' \in Seq(Seq(Items))
  BY DEF IInv, TypeOK, OpenRound
<1>3. roundNo' \in 1..(MaxContinue + 1) /\ pc' \in {"read", "rejected", "error"}
  BY DEF IInv, TypeOK, RoundInv, OpenRound
<1> QED
  BY <1>1, <1>2, <1>3
  DEF IInv, TypeOK, RoundInv, OpenRound, ResetRound, usageVars, replyVars

LEMMA ForwardPreambleInv ==
    ASSUME IInv, NEW type \in Preambles, ForwardPreamble(type)
    PROVE  IInv'
<1> DEFINE ev == Event(type, "control", NoIndex, NoIndex)
<1>1. ev \in Events
  BY EventTyped DEF IInv, Indices
<1>2. Relay(ev) /\ Hear(type, NoIndex)
  BY DEF ForwardPreamble
<1>3. /\ out' \in Seq(Events) /\ conn' \in {"up", "gone", "failed"}
      /\ seq' \in Nat /\ pc' \in {"read", "error"}
  BY <1>1, <1>2, RelayTyped DEF IInv
<1>4. heard' \in Seq([type : Preambles \union ItemTypes \union Terminals, oi : Indices])
  BY <1>2, HearTyped DEF IInv, Indices
<1> QED
  BY <1>2, <1>3, <1>4
  DEF IInv, TypeOK, RoundInv, ForwardPreamble, Hear, usageVars, roundVars

LEMMA DropPreambleInv ==
    ASSUME IInv, NEW type \in Preambles, DropPreamble(type)
    PROVE  IInv'
<1>1. heard' \in Seq([type : Preambles \union ItemTypes \union Terminals, oi : Indices])
  BY HearTyped DEF IInv, Indices, DropPreamble
<1> QED
  BY <1>1 DEF IInv, TypeOK, RoundInv, DropPreamble, Hear, usageVars, roundVars, replyVars

LEMMA HearTerminalInv ==
    ASSUME IInv, NEW type \in Terminals, NEW u \in Usages, HearTerminal(type, u)
    PROVE  IInv'
<1>1. heard' \in Seq([type : Preambles \union ItemTypes \union Terminals, oi : Indices])
  BY HearTyped DEF IInv, Indices, HearTerminal
<1>2. u \in Usage /\ type # "none"
  BY FoldAssumption DEF Terminals
<1> QED
  BY <1>1, <1>2 DEF IInv, TypeOK, RoundInv, HearTerminal, Hear, usageVars, replyVars

LEMMA AddReasoningInv ==
    ASSUME IInv, NEW oi \in Indices, AddReasoning(oi)
    PROVE  IInv'
<1> DEFINE ev == Event("added", "thought", oi, dsOI)
<1>1. ev \in Events
  BY EventTyped DEF IInv, TypeOK, ItemTypes
<1>2. Relay(ev) /\ Hear("added", oi)
  BY DEF AddReasoning
<1>3. /\ out' \in Seq(Events) /\ conn' \in {"up", "gone", "failed"}
      /\ seq' \in Nat /\ pc' \in {"read", "error"}
  BY <1>1, <1>2, RelayTyped DEF IInv
<1>4. heard' \in Seq([type : Preambles \union ItemTypes \union Terminals, oi : Indices])
  BY <1>2, HearTyped DEF IInv, ItemTypes
<1> QED
  BY <1>2, <1>3, <1>4
  DEF IInv, TypeOK, RoundInv, AddReasoning, Hear, usageVars

LEMMA AddBufferedInv ==
    ASSUME IInv, NEW oi \in Indices, AddBuffered(oi)
    PROVE  IInv'
<1>1. heard' \in Seq([type : Preambles \union ItemTypes \union Terminals, oi : Indices])
  BY HearTyped DEF IInv, ItemTypes, AddBuffered
<1>2. Item("message", oi, FALSE, FALSE) \in Items
  BY ItemTyped DEF IInv
<1>3. buffered' \in Seq(Entries)
  <2>1. <<"added">> \in Seq(ItemTypes)
    BY DEF ItemTypes
  <2>2. [item |-> Item("message", oi, FALSE, FALSE), events |-> <<"added">>]
            \in Entries
    BY <1>2, <2>1 DEF Entries
  <2>3. buffered \in Seq(Entries)
    BY DEF IInv, TypeOK
  <2> QED
    BY <2>2, <2>3, AppendTyped, Zenon DEF AddBuffered
<1> QED
  BY <1>1, <1>3 DEF IInv, TypeOK, RoundInv, AddBuffered, Hear, usageVars, replyVars

LEMMA RelayReasoningInv ==
    ASSUME IInv, NEW type \in {"delta", "done"}, NEW oi \in Indices, NEW enc \in BOOLEAN,
           RelayReasoning(type, oi, enc)
    PROVE  IInv'
<1> DEFINE ev == Event(type, "thought", oi, oiToDS[oi])
<1>1. ev \in Events
  BY EventTyped DEF IInv, TypeOK, ItemTypes
<1>2. Relay(ev) /\ Hear(type, oi)
  BY DEF RelayReasoning
<1>3. /\ out' \in Seq(Events) /\ conn' \in {"up", "gone", "failed"}
      /\ seq' \in Nat /\ pc' \in {"read", "error"}
  BY <1>1, <1>2, RelayTyped DEF IInv
<1>4. heard' \in Seq([type : Preambles \union ItemTypes \union Terminals, oi : Indices])
  BY <1>2, HearTyped DEF IInv, ItemTypes
<1>5. roundReasoning' \in Seq(Items) /\ finalOutput' \in Seq(Items)
  <2>1. Item("reasoning", oi, TRUE, enc) \in Items
    BY ItemTyped DEF IInv
  <2>2. roundReasoning \in Seq(Items) /\ finalOutput \in Seq(Items)
    BY DEF IInv, TypeOK
  <2>3. \/ /\ roundReasoning' = Append(roundReasoning, Item("reasoning", oi, TRUE, enc))
           /\ finalOutput' = Append(finalOutput, Item("reasoning", oi, TRUE, enc))
        \/ roundReasoning' = roundReasoning /\ finalOutput' = finalOutput
    BY Zenon DEF RelayReasoning
  <2> QED
    BY <2>1, <2>2, <2>3, AppendTyped, Zenon
<1> QED
  BY <1>2, <1>3, <1>4, <1>5
  DEF IInv, TypeOK, RoundInv, RelayReasoning, Hear, usageVars

LEMMA RelayRawInv ==
    ASSUME IInv, NEW type \in {"delta", "done"}, NEW oi \in Indices, RelayRaw(type, oi)
    PROVE  IInv'
<1> DEFINE ev == Event(type, "control", oi, oi)
<1>1. ev \in Events
  <2>1. oi \in Nat \union {NoIndex}
    BY FoldAssumption DEF Indices
  <2> QED
    BY <2>1, EventTyped DEF IInv, ItemTypes
<1>2. Relay(ev) /\ Hear(type, oi)
  BY DEF RelayRaw
<1>3. /\ out' \in Seq(Events) /\ conn' \in {"up", "gone", "failed"}
      /\ seq' \in Nat /\ pc' \in {"read", "error"}
  BY <1>1, <1>2, RelayTyped DEF IInv
<1>4. heard' \in Seq([type : Preambles \union ItemTypes \union Terminals, oi : Indices])
  BY <1>2, HearTyped DEF IInv, ItemTypes
<1> QED
  BY <1>2, <1>3, <1>4
  DEF IInv, TypeOK, RoundInv, RelayRaw, Hear, usageVars, roundVars

LEMMA HoldEventInv ==
    ASSUME IInv, NEW type \in {"delta", "done"}, NEW oi \in Indices, HoldEvent(type, oi)
    PROVE  IInv'
<1>1. heard' \in Seq([type : Preambles \union ItemTypes \union Terminals, oi : Indices])
  BY HearTyped DEF IInv, ItemTypes, HoldEvent
<1>2. buffered' \in Seq(Entries)
  <2>1. ASSUME NEW e \in Entries PROVE Joined(e, type) \in Entries
    <3>1. type \in ItemTypes
      BY DEF ItemTypes
    <3>2. e.item \in Items /\ e.events \in Seq(ItemTypes)
      BY DEF Entries
    <3>3. [e.item EXCEPT !.full = @ \/ type = "done"] \in Items
      BY <3>2 DEF Items
    <3>4. Append(e.events, type) \in Seq(ItemTypes) \ {<<>>}
      BY <3>1, <3>2
    <3> QED
      BY <3>3, <3>4 DEF Joined, Entries
  <2>2. buffered \in Seq(Entries)
    BY DEF IInv, TypeOK
  <2>3. PICK i : buffered' = [buffered EXCEPT ![i] = Joined(@, type)]
    BY DEF HoldEvent
  <2> QED
    BY <2>1, <2>2, <2>3, ReplaceTyped
<1> QED
  BY <1>1, <1>2 DEF IInv, TypeOK, RoundInv, HoldEvent, Hear, usageVars, replyVars

LEMMA EndOfReadInv ==
    ASSUME IInv, EndOfBody \/ FailRead \/ CancelRead
    PROVE  IInv'
BY DEF IInv, TypeOK, RoundInv, EndOfBody, FailRead, CancelRead,
       usageVars, roundVars, replyVars

LEMMA EndRoundTyped ==
    ASSUME IInv, EndRound
    PROVE  /\ summedUsage' \in Bill /\ firstUsage' \in Usage
           /\ roundsInfo' \in Seq([round : Nat, tokens : Nat \union {NoTokens}, n : Nat])
<1>1. summedUsage' \in Bill
  BY SumIsBill DEF IInv, TypeOK, EndRound
<1>2. firstUsage' \in Usage
  BY DEF IInv, TypeOK, EndRound
<1>3. usage.reasoning \in Nat \union {NoTokens} /\ roundNo \in Nat
  BY DEF IInv, TypeOK, Usage
<1>4. [round |-> roundNo, tokens |-> usage.reasoning, n |-> tierN(usage.reasoning)]
          \in [round : Nat, tokens : Nat \union {NoTokens}, n : Nat]
  BY <1>3, TierNat
<1>5. roundsInfo' \in Seq([round : Nat, tokens : Nat \union {NoTokens}, n : Nat])
  <2>1. roundsInfo \in Seq([round : Nat, tokens : Nat \union {NoTokens}, n : Nat])
    BY DEF IInv, TypeOK
  <2> QED
    BY <1>4, <2>1, AppendTyped, Zenon DEF EndRound
<1> QED
  BY <1>1, <1>2, <1>5

LEMMA ContinueInv == ASSUME IInv, Continue PROVE IInv'
<1>1. EndRound /\ pc' = "open" /\ roundNo <= MaxContinue
  BY DEF Continue, shouldContinue
<1>2. replayTail' \in Seq(Items)
  BY NudgeTyped DEF IInv, TypeOK, Continue, NextTail
<1> QED
  BY <1>1, <1>2, EndRoundTyped
  DEF IInv, TypeOK, RoundInv, EndRound, roundVars, replyVars

LEMMA StopInv == ASSUME IInv, Stop PROVE IInv'
<1>1. EndRound /\ pc' = "flush" /\ replayTail' = replayTail
  BY DEF Stop
<1> QED
  BY <1>1, EndRoundTyped
  DEF IInv, TypeOK, RoundInv, EndRound, roundVars, replyVars

LEMMA FlushInv == ASSUME IInv, Flush PROVE IInv'
<1> DEFINE entry == Head(buffered)
           ev    == Event(Head(entry.events), "answer", entry.item.oi, HeldIndex(entry.item.oi))
           rest  == Tail(entry.events)
<1>1. buffered \in Seq(Entries) /\ buffered # <<>> /\ pc = "flush"
  BY DEF IInv, TypeOK, Flush
<1>2. entry \in Entries /\ Tail(buffered) \in Seq(Entries)
  BY <1>1
<1>3. /\ entry.item \in Items /\ entry.events \in Seq(ItemTypes) /\ entry.events # <<>>
      /\ Head(entry.events) \in ItemTypes /\ rest \in Seq(ItemTypes)
  <2>1. entry.item \in Items /\ entry.events \in Seq(ItemTypes) /\ entry.events # <<>>
    BY <1>2 DEF Entries
  <2> QED
    BY <2>1, HeadTailProperties
<1>4. ev \in Events
  <2>1. entry.item.oi \in Indices
    BY <1>3 DEF Items
  <2>2. HeldIndex(entry.item.oi) \in Nat \union {NoIndex}
    BY DEF HeldIndex, IInv, TypeOK
  <2> QED
    BY <1>3, <2>1, <2>2, EventTyped DEF IInv
<1>5. PICK ok \in BOOLEAN :
        /\ Send(ev, ok)
        /\ \/ pc' = "marker" /\ UNCHANGED <<dsOI, finalOutput, buffered>>
           \/ /\ rest # <<>>
              /\ buffered' = <<[entry EXCEPT !.events = rest]>> \o Tail(buffered)
              /\ UNCHANGED <<pc, dsOI, finalOutput>>
           \/ /\ buffered' = Tail(buffered) /\ dsOI' = dsOI + 1
              /\ finalOutput' = Append(finalOutput, entry.item)
              /\ UNCHANGED pc
  BY Zenon DEF Flush
<1>6. out' \in Seq(Events) /\ conn' \in {"up", "gone", "failed"} /\ seq' \in Nat
  BY <1>4, <1>5, SendTyped DEF IInv
<1>7. buffered' \in Seq(Entries) /\ dsOI' \in Nat /\ finalOutput' \in Seq(Items)
      /\ pc' \in {"flush", "marker"}
  <2>1. dsOI \in Nat /\ finalOutput \in Seq(Items)
    BY DEF IInv, TypeOK
  <2>2. CASE pc' = "marker" /\ UNCHANGED <<dsOI, finalOutput, buffered>>
    BY <1>1, <2>1, <2>2
  <2>3. CASE /\ rest # <<>>
             /\ buffered' = <<[entry EXCEPT !.events = rest]>> \o Tail(buffered)
             /\ UNCHANGED <<pc, dsOI, finalOutput>>
    <3>1. [entry EXCEPT !.events = rest] \in Entries
      BY <1>2, <1>3, <2>3 DEF Entries
    <3>2. <<[entry EXCEPT !.events = rest]>> \in Seq(Entries)
      BY <3>1
    <3>3. buffered' \in Seq(Entries)
      BY <1>2, <2>3, <3>2, ConcatProperties, Zenon
    <3> QED
      BY <1>1, <2>1, <2>3, <3>3
  <2>4. CASE /\ buffered' = Tail(buffered) /\ dsOI' = dsOI + 1
             /\ finalOutput' = Append(finalOutput, entry.item)
             /\ UNCHANGED pc
    <3>1. finalOutput' \in Seq(Items)
      BY <1>3, <2>1, <2>4, AppendTyped, Zenon
    <3> QED
      BY <1>1, <1>2, <2>1, <2>4, <3>1
  <2> QED
    BY <1>5, <2>2, <2>3, <2>4
<1> QED
  BY <1>1, <1>6, <1>7 DEF IInv, TypeOK, RoundInv, Flush, usageVars

LEMMA ReplyTyped ==
    ASSUME IInv, NEW type \in Terminals, NEW id \in Nat, NEW final \in BOOLEAN,
           NEW reason \in {"", "no_encrypted_content", "max_continue", "tier_out_of_window",
                           "upstream_eof", "upstream_error"}
    PROVE  Reply(type, id, final, reason) \in Replies
<1>1. agentUsage(firstUsage, summedUsage, usage, final) \in Bill
  BY AgentIsBill DEF IInv, TypeOK
<1> QED
  BY <1>1 DEF IInv, TypeOK, Reply, Replies

\* Every way to end the stream keeps the types: the reply is well formed.
LEMMA SendTerminalInv ==
    ASSUME IInv, pc # "open", NEW reply \in Replies, reply.type \in Terminals,
           NEW ok \in BOOLEAN, SendTerminal(reply, ok), pc' \in {"marker", "returned"}
    PROVE  IInv'
<1> DEFINE ev == Event(reply.type, "terminal", NoIndex, NoIndex)
<1>1. ev \in Events
  BY EventTyped DEF IInv, Indices
<1>2. out' \in Seq(Events) /\ conn' \in {"up", "gone", "failed"} /\ seq' \in Nat
  BY <1>1, SendTyped DEF IInv, SendTerminal
<1> QED
  BY <1>2 DEF IInv, TypeOK, RoundInv, SendTerminal, usageVars, roundVars

LEMMA WriteTerminalInv ==
    ASSUME IInv, WriteTerminal
    PROVE  IInv'
<1> DEFINE id     == IF baseResponse # 0 THEN baseResponse ELSE roundNo
           reason == stoppedReason(terminal, usage.reasoning, hasEncryptedContent, roundNo)
           reply  == Reply(terminal, id, TRUE, reason)
<1>1. id \in Nat /\ terminal \in Terminals
  BY PolicyAssumption DEF IInv, TypeOK, RoundInv, WriteTerminal
<1>2. reply \in Replies
  BY <1>1, ReasonTyped, ReplyTyped
<1>3. reply.type = terminal
  BY DEF Reply
<1>4. PICK ok \in BOOLEAN :
        SendTerminal(reply, ok) /\ pc' = IF ok THEN "marker" ELSE "returned"
  BY DEF WriteTerminal
<1>5. pc # "open"
  BY DEF WriteTerminal
<1> HIDE DEF reply
<1> QED
  BY <1>1, <1>2, <1>3, <1>4, <1>5, SendTerminalInv

LEMMA WriteIncompleteInv == ASSUME IInv, WriteIncomplete PROVE IInv'
<1> DEFINE reason == IF pc = "eof" THEN "upstream_eof" ELSE "upstream_error"
           reply  == Reply("incomplete", baseResponse, FALSE, reason)
<1>1. baseResponse \in Nat /\ "incomplete" \in Terminals
  BY DEF IInv, TypeOK, Terminals
<1>2. reply \in Replies /\ reply.type \in Terminals
  <2>1. reply \in Replies
    BY <1>1, ReplyTyped
  <2>2. reply.type = "incomplete"
    BY DEF Reply
  <2> QED
    BY <1>1, <2>1, <2>2
<1>3. PICK ok \in BOOLEAN : SendTerminal(reply, ok)
  BY DEF WriteIncomplete
<1>4. pc # "open" /\ pc' = "marker"
  BY DEF WriteIncomplete
<1> HIDE DEF reply
<1> QED
  BY <1>2, <1>3, <1>4, SendTerminalInv

LEMMA WriteFailedInv == ASSUME IInv, WriteFailed PROVE IInv'
<1> DEFINE reply == EmptyReply("failed")
<1>1. reply \in Replies /\ reply.type \in Terminals
  <2>1. reply.type = "failed" /\ "failed" \in Terminals
    BY DEF EmptyReply, Terminals
  <2> QED
    BY <2>1, EmptyReplyTyped
<1>2. PICK ok \in BOOLEAN : SendTerminal(reply, ok)
  BY DEF WriteFailed
<1>3. pc # "open" /\ pc' = "marker"
  BY DEF WriteFailed
<1> HIDE DEF reply
<1> QED
  BY <1>1, <1>2, <1>3, SendTerminalInv

LEMMA WriteDoneInv == ASSUME IInv, WriteDone PROVE IInv'
<1>1. Done \in Events
  BY EventTyped DEF IInv, Done, Indices
<1>2. PICK ok \in BOOLEAN : Emit(Done, ok)
  BY DEF WriteDone
<1>3. out' \in Seq(Events) /\ conn' \in {"up", "gone", "failed"}
  BY <1>1, <1>2, EmitTyped DEF IInv
<1> QED
  BY <1>3 DEF IInv, TypeOK, RoundInv, WriteDone, usageVars, roundVars

LEMMA ClientLeavesInv == ASSUME IInv, ClientLeaves PROVE IInv'
BY DEF IInv, TypeOK, RoundInv, ClientLeaves, usageVars, roundVars

LEMMA StutterInv == ASSUME IInv, UNCHANGED vars PROVE IInv'
BY DEF IInv, TypeOK, RoundInv, vars, usageVars, roundVars

LEMMA NextInv == ASSUME IInv, [Next]_vars PROVE IInv'
<1>1. ASSUME Upstream PROVE IInv'
  <2>1. ASSUME NEW t \in Preambles, ForwardPreamble(t) \/ DropPreamble(t) PROVE IInv'
    BY <2>1, ForwardPreambleInv, DropPreambleInv
  <2>2. ASSUME NEW t \in Terminals, NEW u \in Usages, HearTerminal(t, u) PROVE IInv'
    BY <2>2, HearTerminalInv
  <2>3. ASSUME NEW oi \in Indices, AddReasoning(oi) \/ AddBuffered(oi) PROVE IInv'
    BY <2>3, AddReasoningInv, AddBufferedInv
  <2>4. ASSUME NEW t \in {"delta", "done"}, NEW oi \in Indices, NEW enc \in BOOLEAN,
               RelayReasoning(t, oi, enc)
        PROVE  IInv'
    BY <2>4, RelayReasoningInv
  <2>5. ASSUME NEW t \in {"delta", "done"}, NEW oi \in Indices,
               HoldEvent(t, oi) \/ RelayRaw(t, oi)
        PROVE  IInv'
    BY <2>5, HoldEventInv, RelayRawInv
  <2> QED
    BY <1>1, <2>1, <2>2, <2>3, <2>4, <2>5, EndOfReadInv DEF Upstream
<1>2. ASSUME Handler PROVE IInv'
  BY <1>2, OpenRoundInv, EndOfReadInv, ContinueInv, StopInv, FlushInv,
     WriteTerminalInv, WriteIncompleteInv, WriteFailedInv, WriteDoneInv
  DEF Handler
<1>3. CASE ClientLeaves
  BY <1>3, ClientLeavesInv
<1>4. CASE Returned \/ UNCHANGED vars
  BY <1>4, StutterInv DEF Returned
<1> QED
  BY <1>1, <1>2, <1>3, <1>4 DEF Next

\* Every reachable state of the fold has the types TypeOK states, and no fold
\* opens more than maxContinue + 1 upstream rounds (foldstream.go:407).
THEOREM TypeCorrect == Spec => []TypeOK
<1>1. IInv /\ [Next]_vars => IInv'
  BY NextInv
<1>2. IInv => TypeOK
  BY DEF IInv
<1> QED
  BY InitInv, <1>1, <1>2, PTL DEF Spec

-----------------------------------------------------------------------------
(* What has been sent.                                                     *)

\* Where the handler stands decides what has been sent.
SentInv ==
    /\ Marked => pc = "returned"
    /\ ~Marked => seq = Len(out)
    /\ Told => pc \in {"marker", "returned"} /\ out # <<>>
    /\ conn = "failed" => pc \in {"error", "marker", "returned"}
    /\ pc = "marker" /\ ~Told => conn = "failed"
    /\ pc = "marker" /\ conn # "failed" => out # <<>> /\ out[Len(out)].part = "terminal"
    /\ (pc = "open" /\ roundNo = 0) \/ pc = "rejected" => out = <<>>

ClientInv == SentInv /\ ConnectedClientGetsEnd /\ RefusalComesFirst

-----------------------------------------------------------------------------
(* One write.                                                              *)

LEMMA EmitAppends ==
    ASSUME TypeOK, NEW ev \in Events, NEW ok \in BOOLEAN, Emit(ev, ok)
    PROVE  /\ out' = Append(out, ev) /\ Len(out') = Len(out) + 1 /\ out' # <<>>
           /\ out'[Len(out')] = ev
           /\ out # <<>> => out'[1] = out[1]
           /\ out = <<>> => out'[1] = ev
           /\ Len(out') >= 2 => out'[Len(out') - 1] = out[Len(out)]
           /\ conn = "failed" => conn' = "failed"
           /\ ok => conn' # "failed"
           /\ ~ok => conn' = "failed"
<1>1. out' = Append(out, ev) /\ out \in Seq(Events)
  BY DEF Emit, TypeOK
<1>2. conn \in {"up", "gone", "failed"}
  BY DEF TypeOK
<1>3. (ok /\ conn # "failed" /\ conn' = conn) \/ (~ok /\ conn # "up" /\ conn' = "failed")
  BY DEF Emit
<1>4. /\ Len(out') = Len(out) + 1 /\ out' # <<>> /\ out'[Len(out')] = ev
      /\ out # <<>> => out'[1] = out[1]
      /\ out = <<>> => out'[1] = ev
      /\ Len(out') >= 2 => out'[Len(out') - 1] = out[Len(out)]
  BY <1>1
<1> QED
  BY <1>1, <1>2, <1>3, <1>4

LEMMA SendAppends ==
    ASSUME TypeOK, NEW ev \in Events, NEW ok \in BOOLEAN, Send(ev, ok)
    PROVE  /\ Emit(Stamped(ev), ok) /\ Stamped(ev) \in Events
           /\ Stamped(ev).part = ev.part /\ Stamped(ev).seq = seq
           /\ seq' = seq + 1
<1>1. Stamped(ev) \in Events /\ Stamped(ev).part = ev.part /\ Stamped(ev).seq = seq
  BY DEF TypeOK, Stamped, Events
<1> QED
  BY <1>1 DEF Send

LEMMA SendWrites ==
    ASSUME TypeOK, NEW ev \in Events, NEW ok \in BOOLEAN, Send(ev, ok)
    PROVE  /\ out' = Append(out, Stamped(ev)) /\ Len(out') = Len(out) + 1 /\ out' # <<>>
           /\ out'[Len(out')].part = ev.part
           /\ out # <<>> => out'[1] = out[1]
           /\ out = <<>> => out'[1].part = ev.part
           /\ conn = "failed" => conn' = "failed"
           /\ ok => conn' # "failed"
           /\ ~ok => conn' = "failed"
           /\ seq' = seq + 1 /\ Stamped(ev).part = ev.part /\ Stamped(ev).seq = seq
<1> DEFINE st == Stamped(ev)
<1>1. /\ Emit(st, ok) /\ st \in Events
      /\ st.part = ev.part /\ st.seq = seq /\ seq' = seq + 1
  BY SendAppends
<1> HIDE DEF st
<1>2. /\ out' = Append(out, st) /\ Len(out') = Len(out) + 1 /\ out' # <<>>
      /\ out'[Len(out')] = st
      /\ out # <<>> => out'[1] = out[1]
      /\ out = <<>> => out'[1] = st
      /\ conn = "failed" => conn' = "failed"
      /\ ok => conn' # "failed"
      /\ ~ok => conn' = "failed"
  BY <1>1, EmitAppends
<1> QED
  BY <1>1, <1>2 DEF st

-----------------------------------------------------------------------------
(* Each step keeps ClientInv.                                              *)

\* An event relayed while a round is read.
LEMMA RelayClient ==
    ASSUME IInv, ClientInv, pc = "read", NEW ev \in Events,
           ev.part \in {"control", "thought"},
           Relay(ev), UNCHANGED <<roundNo, answer>>
    PROVE  ClientInv'
<1>1. PICK ok \in BOOLEAN : Send(ev, ok) /\ pc' = IF ok THEN "read" ELSE "error"
  BY DEF Relay
<1>2. Send(ev, ok) /\ (ok => pc' = "read") /\ (~ok => pc' = "error") /\ pc' \in {"read", "error"}
  BY <1>1
<1>3. TypeOK /\ ~Marked /\ seq = Len(out) /\ ~Told
  BY DEF IInv, ClientInv, SentInv
<1>4. /\ Len(out') = Len(out) + 1 /\ out'[Len(out')].part = ev.part
      /\ ok => conn' # "failed"
      /\ seq' = seq + 1
  BY <1>2, <1>3, SendWrites
<1>5. ~Marked' /\ seq' = Len(out') /\ ~Told'
  BY <1>3, <1>4 DEF Marked, Told
<1> QED
  BY <1>2, <1>4, <1>5
  DEF ClientInv, SentInv, ConnectedClientGetsEnd, RefusalComesFirst

\* A step of the handler that writes nothing.
LEMMA QuietClient ==
    ASSUME IInv, ClientInv, UNCHANGED <<out, seq, conn, answer>>,
           pc \in {"open", "read", "end"},
           \/ pc = "open" /\ roundNo = 0 /\ pc' \in {"read", "rejected"}
           \/ pc' \in {"open", "read", "error", "eof", "end", "flush"} /\ roundNo' # 0,
           conn = "failed" => pc' = "error"
    PROVE  ClientInv'
<1>1. /\ Marked' = Marked /\ Told' = Told /\ pc' \notin {"marker", "returned"}
      /\ ~Marked /\ ~Told
  BY DEF Marked, Told, ClientInv, SentInv
<1> QED
  BY <1>1 DEF ClientInv, SentInv, ConnectedClientGetsEnd, RefusalComesFirst

\* What one event of the upstream makes the handler write.
RelaysOne ==
    \E ev \in Events :
        ev.part \in {"control", "thought"} /\ Relay(ev) /\ UNCHANGED <<roundNo, answer>>

WritesNothing ==
    /\ UNCHANGED <<roundNo, out, seq, conn, answer>>
    /\ pc' \in {"read", "end", "eof", "error"}

LEMMA UpstreamWrites ==
    ASSUME IInv, Upstream
    PROVE  pc = "read" /\ (RelaysOne \/ WritesNothing)
<1>1. /\ pc = "read"
      /\ \A oi \in Indices : oi \in Nat \union {NoIndex}
      /\ \A oi \in Indices : oiToDS[oi] \in Nat \union {NoIndex}
      /\ dsOI \in Nat \union {NoIndex} /\ NoIndex \in Indices
  <2>1. pc = "read"
    BY DEF Upstream, ForwardPreamble, DropPreamble, HearTerminal, AddReasoning,
           AddBuffered, RelayReasoning, HoldEvent, RelayRaw, EndOfBody, FailRead, Hear
  <2>2. \A oi \in Indices : oi \in Nat \union {NoIndex}
    BY FoldAssumption DEF Indices
  <2> QED
    BY <2>1, <2>2
    DEF IInv, TypeOK, Indices
<1>2. ASSUME NEW t \in Preambles, ForwardPreamble(t) PROVE RelaysOne
  <2> DEFINE ev == Event(t, "control", NoIndex, NoIndex)
  <2>1. ev \in Events /\ ev.part = "control"
    BY <1>1, EventTyped DEF IInv, Event
  <2>2. Relay(ev) /\ UNCHANGED <<roundNo, answer>>
    BY <1>2 DEF ForwardPreamble, Hear
  <2> QED
    BY <2>1, <2>2, Zenon DEF RelaysOne
<1>3. ASSUME NEW oi \in Indices, AddReasoning(oi) PROVE RelaysOne
  <2> DEFINE ev == Event("added", "thought", oi, dsOI)
  <2>1. ev \in Events /\ ev.part = "thought"
    BY <1>1, EventTyped DEF IInv, Event, ItemTypes
  <2>2. Relay(ev) /\ UNCHANGED <<roundNo, answer>>
    BY <1>3 DEF AddReasoning, Hear
  <2> QED
    BY <2>1, <2>2, Zenon DEF RelaysOne
<1>4. ASSUME NEW t \in {"delta", "done"}, NEW oi \in Indices, NEW enc \in BOOLEAN,
             RelayReasoning(t, oi, enc)
      PROVE  RelaysOne
  <2> DEFINE ev == Event(t, "thought", oi, oiToDS[oi])
  <2>1. ev \in Events /\ ev.part = "thought"
    BY <1>1, EventTyped DEF IInv, Event, ItemTypes
  <2>2. Relay(ev) /\ UNCHANGED <<roundNo, answer>>
    BY <1>4 DEF RelayReasoning, Hear
  <2> QED
    BY <2>1, <2>2, Zenon DEF RelaysOne
<1>5. ASSUME NEW t \in {"delta", "done"}, NEW oi \in Indices, RelayRaw(t, oi)
      PROVE  RelaysOne
  <2> DEFINE ev == Event(t, "control", oi, oi)
  <2>1. ev \in Events /\ ev.part = "control"
    BY <1>1, EventTyped DEF IInv, Event, ItemTypes
  <2>2. Relay(ev) /\ UNCHANGED <<roundNo, answer>>
    BY <1>5 DEF RelayRaw, Hear
  <2> QED
    BY <2>1, <2>2, Zenon DEF RelaysOne
<1>6. ASSUME \/ \E t \in Preambles : DropPreamble(t)
             \/ \E t \in Terminals, u \in Usages : HearTerminal(t, u)
             \/ \E oi \in Indices : AddBuffered(oi)
             \/ \E t \in {"delta", "done"}, oi \in Indices : HoldEvent(t, oi)
             \/ EndOfBody \/ FailRead
      PROVE  WritesNothing
  BY <1>1, <1>6 DEF DropPreamble, HearTerminal, AddBuffered, HoldEvent, EndOfBody, FailRead,
                    Hear, replyVars, WritesNothing
<1> QED
  BY <1>1, <1>2, <1>3, <1>4, <1>5, <1>6 DEF Upstream

LEMMA UpstreamClient ==
    ASSUME IInv, ClientInv, Upstream
    PROVE  ClientInv'
<1>1. pc = "read" /\ roundNo # 0 /\ conn # "failed"
  BY UpstreamWrites, PolicyAssumption DEF IInv, TypeOK, RoundInv, ClientInv, SentInv
<1>2. CASE RelaysOne
  BY <1>1, <1>2, RelayClient DEF RelaysOne
<1>3. CASE WritesNothing
  BY <1>1, <1>3, QuietClient DEF WritesNothing
<1> QED
  BY <1>2, <1>3, UpstreamWrites

LEMMA RoundClient ==
    ASSUME IInv, ClientInv, OpenRound \/ CancelRead \/ Continue \/ Stop
    PROVE  ClientInv'
<1>1. UNCHANGED <<out, seq, conn, answer>>
  BY DEF OpenRound, CancelRead, FailRead, Continue, Stop, EndRound, replyVars
<1>2. pc \in {"open", "read", "end"} /\ conn # "failed"
  BY DEF OpenRound, CancelRead, FailRead, Continue, Stop, EndRound, ClientInv, SentInv
<1>3. \/ pc = "open" /\ roundNo = 0 /\ pc' \in {"read", "rejected"}
      \/ pc' \in {"open", "read", "error", "eof", "end", "flush"} /\ roundNo' # 0
  BY PolicyAssumption
  DEF OpenRound, CancelRead, FailRead, Continue, Stop, EndRound, IInv, TypeOK, RoundInv
<1> QED
  BY <1>1, <1>2, <1>3, QuietClient

LEMMA HeldEventTyped ==
    ASSUME IInv, pc = "flush", buffered # <<>>
    PROVE  LET entry == Head(buffered)
               src   == entry.item.oi
           IN  Event(Head(entry.events), "answer", src, HeldIndex(src)) \in Events
<1> DEFINE entry == Head(buffered)
<1>1. entry \in Entries
  BY DEF IInv, TypeOK
<1>2. entry.item \in Items /\ entry.events \in Seq(ItemTypes) /\ entry.events # <<>>
  BY <1>1 DEF Entries
<1>3. Head(entry.events) \in ItemTypes /\ entry.item.oi \in Indices
  BY <1>2, HeadTailProperties DEF Items
<1>4. HeldIndex(entry.item.oi) \in Nat \union {NoIndex}
  BY DEF HeldIndex, IInv, TypeOK
<1> QED
  BY <1>3, <1>4, EventTyped DEF IInv

LEMMA FlushClient == ASSUME IInv, ClientInv, Flush PROVE ClientInv'
<1> DEFINE entry == Head(buffered)
           ev    == Event(Head(entry.events), "answer", entry.item.oi, HeldIndex(entry.item.oi))
<1>1. pc = "flush" /\ ev \in Events /\ ev.part = "answer"
  BY HeldEventTyped DEF Flush, Event
<1>2. PICK ok \in BOOLEAN :
        /\ Send(ev, ok)
        /\ (ok => pc' = "flush") /\ (~ok => pc' = "marker")
  BY <1>1 DEF Flush
<1>3. UNCHANGED <<answer, roundNo, terminal>>
  BY DEF Flush
<1>4. ~Marked /\ seq = Len(out) /\ ~Told
  BY <1>1 DEF ClientInv, SentInv
<1> HIDE DEF ev
<1>5. /\ Len(out') = Len(out) + 1 /\ out'[Len(out')].part = "answer"
      /\ (ok => conn' # "failed") /\ (~ok => conn' = "failed")
      /\ seq' = seq + 1
  BY <1>1, <1>2, SendWrites DEF IInv
<1>6. ~Marked' /\ seq' = Len(out') /\ ~Told'
  BY <1>3, <1>4, <1>5 DEF Marked, Told, IInv, TypeOK
<1> QED
  BY <1>2, <1>5, <1>6
  DEF ClientInv, SentInv, ConnectedClientGetsEnd, RefusalComesFirst

LEMMA TerminalClient ==
    ASSUME IInv, ClientInv, pc \in {"flush", "eof", "error", "rejected"},
           NEW reply \in Replies, reply.type \in Terminals, NEW ok \in BOOLEAN,
           SendTerminal(reply, ok),
           pc' \in {"marker", "returned"}, pc' = "returned" => ~ok,
           reply.type = "failed" /\ terminal = "none" => out = <<>>
    PROVE  ClientInv'
<1> DEFINE ev == Event(reply.type, "terminal", NoIndex, NoIndex)
<1>1. ev \in Events /\ ev.part = "terminal" /\ Send(ev, ok)
  BY EventTyped DEF IInv, SendTerminal, Event, Indices
<1>2. answer' = reply /\ terminal' = terminal /\ roundNo' = roundNo
  BY DEF SendTerminal, roundVars
<1>3. ~Marked /\ seq = Len(out) /\ ~Told
  BY DEF ClientInv, SentInv
<1> HIDE DEF ev
<1>4. /\ Len(out') = Len(out) + 1 /\ out' # <<>> /\ out'[Len(out')].part = "terminal"
      /\ out = <<>> => out'[1].part = "terminal"
      /\ (ok => conn' # "failed") /\ (~ok => conn' = "failed")
      /\ seq' = seq + 1
  BY <1>1, SendWrites DEF IInv
<1>5. ~Marked' /\ seq' = Len(out') /\ Told'
  BY <1>2, <1>3, <1>4 DEF Marked, Told, Terminals, IInv, TypeOK
<1> QED
  BY <1>2, <1>4, <1>5
  DEF ClientInv, SentInv, ConnectedClientGetsEnd, RefusalComesFirst

LEMMA WriteClient ==
    ASSUME IInv, ClientInv, WriteTerminal \/ WriteIncomplete \/ WriteFailed
    PROVE  ClientInv'
<1>1. ASSUME WriteTerminal PROVE ClientInv'
  <2> DEFINE id     == IF baseResponse # 0 THEN baseResponse ELSE roundNo
             reason == stoppedReason(terminal, usage.reasoning, hasEncryptedContent, roundNo)
             reply  == Reply(terminal, id, TRUE, reason)
  <2>1. id \in Nat /\ terminal \in Terminals /\ terminal # "none"
    BY <1>1, PolicyAssumption DEF IInv, TypeOK, RoundInv, WriteTerminal
  <2>2. reply \in Replies /\ reply.type = terminal
    BY <2>1, ReasonTyped, ReplyTyped DEF Reply
  <2>3. PICK ok \in BOOLEAN :
          SendTerminal(reply, ok) /\ pc' = IF ok THEN "marker" ELSE "returned"
    BY <1>1 DEF WriteTerminal
  <2>4. pc = "flush" /\ pc' \in {"marker", "returned"} /\ (pc' = "returned" => ~ok)
    BY <1>1, <2>3 DEF WriteTerminal
  <2> HIDE DEF reply
  <2> QED
    BY <2>1, <2>2, <2>3, <2>4, TerminalClient
<1>2. ASSUME WriteIncomplete PROVE ClientInv'
  <2> DEFINE reason == IF pc = "eof" THEN "upstream_eof" ELSE "upstream_error"
             reply  == Reply("incomplete", baseResponse, FALSE, reason)
  <2>1. baseResponse \in Nat /\ "incomplete" \in Terminals
    BY DEF IInv, TypeOK, Terminals
  <2>2. reply \in Replies /\ reply.type = "incomplete"
    BY <2>1, ReplyTyped DEF Reply
  <2>3. PICK ok \in BOOLEAN : SendTerminal(reply, ok)
    BY <1>2 DEF WriteIncomplete
  <2>4. pc \in {"eof", "error"} /\ pc' = "marker"
    BY <1>2 DEF WriteIncomplete
  <2> HIDE DEF reply
  <2> QED
    BY <2>1, <2>2, <2>3, <2>4, TerminalClient
<1>3. ASSUME WriteFailed PROVE ClientInv'
  <2> DEFINE reply == EmptyReply("failed")
  <2>1. "failed" \in Terminals
    BY DEF Terminals
  <2>2. reply \in Replies /\ reply.type = "failed"
    BY <2>1, EmptyReplyTyped DEF EmptyReply
  <2>3. PICK ok \in BOOLEAN : SendTerminal(reply, ok)
    BY <1>3 DEF WriteFailed
  <2>4. pc = "rejected" /\ pc' = "marker" /\ out = <<>>
    BY <1>3 DEF WriteFailed, ClientInv, SentInv
  <2> HIDE DEF reply
  <2> QED
    BY <2>1, <2>2, <2>3, <2>4, TerminalClient
<1> QED
  BY <1>1, <1>2, <1>3

LEMMA DoneClient == ASSUME IInv, ClientInv, WriteDone PROVE ClientInv'
<1>1. pc = "marker" /\ pc' = "returned" /\ UNCHANGED <<answer, terminal, roundNo, seq>>
  BY DEF WriteDone, roundVars
<1>2. Done \in Events /\ Done.part = "marker"
  BY EventTyped DEF IInv, Done, Indices, Event
<1>3. PICK ok \in BOOLEAN : Emit(Done, ok)
  BY DEF WriteDone
<1>4. /\ Len(out') = Len(out) + 1 /\ out' # <<>> /\ out'[Len(out')].part = "marker"
      /\ out # <<>> => out'[1] = out[1]
      /\ Len(out') >= 2 => out'[Len(out') - 1] = out[Len(out)]
      /\ conn = "failed" => conn' = "failed"
  BY <1>2, <1>3, EmitAppends DEF IInv
<1>5. Marked' /\ Told' = Told
  BY <1>1, <1>4 DEF Marked, Told
<1>6. conn' # "failed" => Len(out') >= 2 /\ out'[Len(out') - 1].part = "terminal"
  BY <1>1, <1>4 DEF ClientInv, SentInv, IInv, TypeOK
<1>7. Told => out # <<>>
  BY DEF ClientInv, SentInv
<1>8. RefusalComesFirst'
  <2>1. Told /\ terminal = "none" /\ answer.type = "failed" => out[1].part = "terminal"
    BY DEF ClientInv, RefusalComesFirst
  <2> QED
    BY <1>1, <1>4, <1>7, <2>1 DEF RefusalComesFirst, Told
<1> QED
  BY <1>1, <1>4, <1>5, <1>6, <1>8 DEF ClientInv, SentInv, ConnectedClientGetsEnd

LEMMA IdleClient ==
    ASSUME IInv, ClientInv, ClientLeaves \/ UNCHANGED vars
    PROVE  ClientInv'
<1>1. UNCHANGED <<pc, roundNo, seq, out, answer, terminal>> /\ (conn' = conn \/ conn' = "gone")
  BY DEF ClientLeaves, vars, roundVars
<1>2. conn' = "failed" => conn = "failed"
  BY <1>1
<1>3. conn' = conn \/ (conn = "up" /\ pc # "returned")
  BY DEF ClientLeaves, vars
<1>4. Marked' = Marked /\ Told' = Told
  BY <1>1 DEF Marked, Told
<1> QED
  BY <1>1, <1>2, <1>3, <1>4
  DEF ClientInv, SentInv, ConnectedClientGetsEnd, RefusalComesFirst

LEMMA InitClient == Init => ClientInv
<1> SUFFICES ASSUME Init PROVE ClientInv
  OBVIOUS
<1>1. out = <<>> /\ seq = 0 /\ pc = "open" /\ conn = "up"
  BY DEF Init
<1>2. answer.type = "none"
  BY DEF Init, NoAnswer, EmptyReply
<1>3. ~Told /\ ~Marked /\ Len(out) = 0
  BY <1>1, <1>2 DEF Told, Marked
<1> QED
  BY <1>1, <1>3 DEF ClientInv, SentInv, ConnectedClientGetsEnd, RefusalComesFirst

LEMMA NextClient == ASSUME IInv, ClientInv, [Next]_vars PROVE ClientInv'
<1>1. ASSUME Handler PROVE ClientInv'
  BY <1>1, RoundClient, FlushClient, WriteClient, DoneClient DEF Handler
<1> QED
  BY <1>1, UpstreamClient, IdleClient DEF Next, Returned

LEMMA InvariantsHold == Spec => [](IInv /\ ClientInv)
<1>1. Init => IInv /\ ClientInv
  BY InitInv, InitClient
<1>2. IInv /\ ClientInv /\ [Next]_vars => (IInv /\ ClientInv)'
  BY NextInv, NextClient
<1> QED
  BY <1>1, <1>2, PTL DEF Spec

-----------------------------------------------------------------------------
(* What the client may rely on.                                            *)

\* Whatever the upstream does, a client whose connection did not fail was sent
\* a terminal event and then [DONE] when the handler returns (run,
\* foldstream.go:83-129).
THEOREM ClientGetsEnd == Spec => []ConnectedClientGetsEnd
<1>1. IInv /\ ClientInv => ConnectedClientGetsEnd
  BY DEF ClientInv
<1> QED
  BY InvariantsHold, <1>1, PTL

\* The proxy's own response.failed is never sent into a stream that has begun
\* (foldstream.go:86-98).
THEOREM RefusalFirst == Spec => []RefusalComesFirst
<1>1. IInv /\ ClientInv => RefusalComesFirst
  BY DEF ClientInv
<1> QED
  BY InvariantsHold, <1>1, PTL

\* Once a write to the client has failed, no upstream round is opened any more.
THEOREM LostClientCostsNoRound == Spec => NoRoundForLostClient
<1>1. ASSUME IInv, ClientInv, [Next]_vars, conn = "failed" PROVE requests' = requests
  <2>1. pc # "open"
    BY <1>1 DEF ClientInv, SentInv
  <2>2. CASE Upstream
    BY <2>2 DEF Upstream, ForwardPreamble, DropPreamble, HearTerminal, AddReasoning,
           AddBuffered, RelayReasoning, HoldEvent, RelayRaw, EndOfBody, FailRead, Hear
  <2>3. CASE Handler
    BY <2>1, <2>3 DEF Handler, OpenRound, CancelRead, FailRead, Continue, Stop, EndRound,
           Flush, WriteTerminal, WriteIncomplete, WriteFailed, SendTerminal, WriteDone
  <2>4. CASE ClientLeaves \/ Returned \/ UNCHANGED vars
    BY <2>4 DEF ClientLeaves, Returned, vars
  <2> QED
    BY <1>1, <2>2, <2>3, <2>4 DEF Next
<1>2. IInv /\ ClientInv /\ [Next]_vars => [conn = "failed" => requests' = requests]_vars
  BY <1>1
<1> QED
  BY InvariantsHold, <1>2, PTL DEF Spec, NoRoundForLostClient

-----------------------------------------------------------------------------
(* The fold implements ResponseStream.                                     *)

Stream == [i \in DOMAIN out |-> Sent(out[i])]

LEMMA StreamGrows ==
    ASSUME NEW s \in Seq(Events), NEW ev \in Events
    PROVE  [i \in DOMAIN Append(s, ev) |-> Sent(Append(s, ev)[i])]
               = Append([i \in DOMAIN s |-> Sent(s[i])], Sent(ev))
<1> DEFINE f == [i \in DOMAIN s |-> Sent(s[i])]
           g == [i \in DOMAIN Append(s, ev) |-> Sent(Append(s, ev)[i])]
           R == [part : {"thought", "answer", "terminal", "marker"}, seq : Nat \union {-1}]
<1>1. \A e \in Events : Sent(e) \in R
  BY DEF Sent, Events
<1>2. f \in Seq(R) /\ Len(f) = Len(s)
  <2>1. Len(s) \in Nat /\ DOMAIN s = 1..Len(s) /\ \A i \in 1..Len(s) : s[i] \in Events
    OBVIOUS
  <2>2. f \in [1..Len(s) -> R]
    BY <1>1, <2>1
  <2> HIDE DEF f, R
  <2>3. f \in Seq(R)
    BY <2>1, <2>2, SeqDef
  <2> QED
    BY <2>1, <2>2, <2>3
<1>3. g \in Seq(R) /\ Len(g) = Len(s) + 1
  BY <1>1
<1>4. Append(f, Sent(ev)) \in Seq(R) /\ Len(Append(f, Sent(ev))) = Len(s) + 1
  BY <1>1, <1>2
<1>5. \A i \in 1..(Len(s) + 1) : g[i] = Append(f, Sent(ev))[i]
  BY <1>2
<1> HIDE DEF f, g, R
<1>6. g = Append(f, Sent(ev))
  BY <1>3, <1>4, <1>5, SeqEqual
<1> QED
  BY <1>6 DEF f, g

LEMMA StreamStep ==
    ASSUME TypeOK, NEW ev \in Events, out' = Append(out, ev)
    PROVE  Stream' = Append(Stream, Sent(ev)) /\ Len(Stream) = Len(out)
<1>1. out \in Seq(Events)
  BY DEF TypeOK
<1>2. Len(Stream) = Len(out)
  <2>1. Len(out) \in Nat /\ DOMAIN out = 1..Len(out)
    BY <1>1
  <2> QED
    BY <2>1 DEF Stream
<1>3. Stream' = [i \in DOMAIN Append(out, ev) |-> Sent(Append(out, ev)[i])]
  BY DEF Stream
<1> QED
  BY <1>1, <1>2, <1>3, StreamGrows DEF Stream

Phase == IF Marked THEN "closed"
         ELSE IF Told THEN "concluded"
         ELSE IF pc \in {"flush", "marker"} THEN "answering"
         ELSE "thinking"

\* An event relayed while a round is read is a thought.
LEMMA RelayThinks ==
    ASSUME IInv, ClientInv, ClientInv', pc = "read", NEW ev \in Events,
           ev.part \in {"control", "thought"}, Relay(ev), UNCHANGED answer
    PROVE  AsOneResponse!Next
<1>1. PICK ok \in BOOLEAN : Send(ev, ok) /\ pc' = IF ok THEN "read" ELSE "error"
  BY DEF Relay
<1>2. pc' \in {"read", "error"} /\ ~Marked /\ seq = Len(out) /\ ~Told /\ ~Marked' /\ ~Told'
  BY <1>1 DEF ClientInv, SentInv, Told
<1>3. /\ out' = Append(out, Stamped(ev)) /\ Stamped(ev) \in Events
      /\ Sent(Stamped(ev)) = [part |-> "thought", seq |-> seq]
      /\ conn = "failed" => conn' = "failed"
  BY <1>1, SendWrites, SendAppends DEF IInv, Sent
<1>4. Stream' = Append(Stream, [part |-> "thought", seq |-> Len(Stream)])
  BY <1>2, <1>3, StreamStep DEF IInv
<1>5. Phase = "thinking" /\ Phase' = Phase
  BY <1>2 DEF Phase
<1> QED
  BY <1>3, <1>4, <1>5
  DEF AsOneResponse!Next, AsOneResponse!Think, AsOneResponse!Speak, AsOneResponse!MayLose,
      Stream, Phase

\* A step that writes nothing is a stutter, or ends the thinking.
LEMMA QuietSteps ==
    ASSUME IInv, ClientInv, ClientInv', UNCHANGED <<out, answer>>,
           conn = "failed" => conn' = "failed", (conn' = "failed") => conn = "failed",
           \/ pc' = pc
           \/ pc \notin {"flush", "marker"} /\ pc' \notin {"flush", "marker"}
           \/ pc = "end" /\ pc' = "flush"
    PROVE  [AsOneResponse!Next]_AsOneResponse!vars
<1>1. Stream' = Stream /\ Marked' = Marked /\ Told' = Told
  BY DEF Stream, Marked, Told
<1>2. CASE pc = "end" /\ pc' = "flush"
  <2>1. ~Marked /\ ~Told
    BY <1>2 DEF ClientInv, SentInv
  <2>2. Phase = "thinking" /\ Phase' = "answering"
    BY <1>1, <1>2, <2>1 DEF Phase
  <2> QED
    BY <1>1, <2>2
    DEF AsOneResponse!Next, AsOneResponse!BeginAnswer, AsOneResponse!MayLose, Stream, Phase
<1>3. CASE ~(pc = "end" /\ pc' = "flush")
  <2>1. Phase' = Phase
    BY <1>1, <1>3 DEF Phase
  <2>2. (conn' = "failed") = (conn = "failed")
    OBVIOUS
  <2> QED
    BY <1>1, <2>1, <2>2 DEF AsOneResponse!vars, Stream, Phase
<1> QED
  BY <1>2, <1>3

LEMMA FlushAnswers ==
    ASSUME IInv, ClientInv, ClientInv', Flush
    PROVE  AsOneResponse!Next
<1> DEFINE entry == Head(buffered)
           ev    == Event(Head(entry.events), "answer", entry.item.oi, HeldIndex(entry.item.oi))
<1>1. pc = "flush" /\ pc' \in {"flush", "marker"} /\ ev \in Events /\ ev.part = "answer"
  BY HeldEventTyped DEF Flush, Event
<1>2. PICK ok \in BOOLEAN : Send(ev, ok)
  BY DEF Flush
<1> HIDE DEF ev
<1>3. /\ out' = Append(out, Stamped(ev)) /\ Stamped(ev) \in Events
      /\ Sent(Stamped(ev)) = [part |-> "answer", seq |-> seq]
      /\ out'[Len(out')].part = "answer"
      /\ conn = "failed" => conn' = "failed"
  BY <1>1, <1>2, SendWrites, SendAppends DEF IInv, Sent
<1>4. ~Marked /\ seq = Len(out) /\ ~Told /\ ~Marked' /\ ~Told'
  BY <1>1, <1>3 DEF ClientInv, SentInv, Told, Marked, Flush
<1>5. Stream' = Append(Stream, [part |-> "answer", seq |-> Len(Stream)])
  BY <1>3, <1>4, StreamStep DEF IInv
<1>6. Phase = "answering" /\ Phase' = Phase
  BY <1>1, <1>4 DEF Phase
<1> QED
  BY <1>3, <1>5, <1>6
  DEF AsOneResponse!Next, AsOneResponse!Answer, AsOneResponse!Speak, AsOneResponse!MayLose,
      Stream, Phase

LEMMA TerminalConcludes ==
    ASSUME IInv, ClientInv, ClientInv', pc \in {"flush", "eof", "error", "rejected"},
           NEW reply, reply.type \in Terminals, NEW ok \in BOOLEAN, SendTerminal(reply, ok)
    PROVE  AsOneResponse!Next
<1> DEFINE ev == Event(reply.type, "terminal", NoIndex, NoIndex)
<1>1. ev \in Events /\ ev.part = "terminal" /\ Send(ev, ok) /\ answer' = reply
  BY EventTyped DEF IInv, SendTerminal, Event, Indices
<1> HIDE DEF ev
<1>2. /\ out' = Append(out, Stamped(ev)) /\ Stamped(ev) \in Events
      /\ Sent(Stamped(ev)) = [part |-> "terminal", seq |-> seq]
      /\ out'[Len(out')].part = "terminal"
      /\ conn = "failed" => conn' = "failed"
  BY <1>1, SendWrites, SendAppends DEF IInv, Sent
<1>3. ~Marked /\ seq = Len(out) /\ ~Told /\ ~Marked' /\ Told'
  BY <1>1, <1>2 DEF ClientInv, SentInv, Told, Marked, Terminals
<1>4. Stream' = Append(Stream, [part |-> "terminal", seq |-> Len(Stream)])
  BY <1>2, <1>3, StreamStep DEF IInv
<1>5. Phase \in {"thinking", "answering"} /\ Phase' = "concluded"
  BY <1>3 DEF Phase
<1> QED
  BY <1>2, <1>4, <1>5
  DEF AsOneResponse!Next, AsOneResponse!Conclude, AsOneResponse!Speak, AsOneResponse!MayLose,
      Stream, Phase

LEMMA WritesConclude ==
    ASSUME IInv, ClientInv, ClientInv', WriteTerminal \/ WriteIncomplete \/ WriteFailed
    PROVE  AsOneResponse!Next
<1>1. CASE WriteTerminal
  <2> DEFINE id     == IF baseResponse # 0 THEN baseResponse ELSE roundNo
             reason == stoppedReason(terminal, usage.reasoning, hasEncryptedContent, roundNo)
             reply  == Reply(terminal, id, TRUE, reason)
  <2>1. pc = "flush" /\ reply.type \in Terminals
    BY <1>1 DEF IInv, TypeOK, RoundInv, WriteTerminal, Reply
  <2>2. PICK ok \in BOOLEAN : SendTerminal(reply, ok)
    BY <1>1 DEF WriteTerminal
  <2> HIDE DEF reply
  <2> QED
    BY <2>1, <2>2, TerminalConcludes
<1>2. CASE WriteIncomplete
  <2> DEFINE reason == IF pc = "eof" THEN "upstream_eof" ELSE "upstream_error"
             reply  == Reply("incomplete", baseResponse, FALSE, reason)
  <2>1. pc \in {"eof", "error"} /\ reply.type \in Terminals
    BY <1>2 DEF WriteIncomplete, Reply, Terminals
  <2>2. PICK ok \in BOOLEAN : SendTerminal(reply, ok)
    BY <1>2 DEF WriteIncomplete
  <2> HIDE DEF reply
  <2> QED
    BY <2>1, <2>2, TerminalConcludes
<1>3. CASE WriteFailed
  <2> DEFINE reply == EmptyReply("failed")
  <2>1. pc = "rejected" /\ reply.type \in Terminals
    BY <1>3 DEF WriteFailed, EmptyReply, Terminals
  <2>2. PICK ok \in BOOLEAN : SendTerminal(reply, ok)
    BY <1>3 DEF WriteFailed
  <2> HIDE DEF reply
  <2> QED
    BY <2>1, <2>2, TerminalConcludes
<1> QED
  BY <1>1, <1>2, <1>3

LEMMA DoneCloses ==
    ASSUME IInv, ClientInv, ClientInv', WriteDone
    PROVE  AsOneResponse!Next
<1>1. pc = "marker" /\ answer' = answer
  BY DEF WriteDone
<1>2. Done \in Events /\ Done.part = "marker" /\ Sent(Done) = [part |-> "marker", seq |-> -1]
  BY EventTyped DEF IInv, Done, Indices, Event, Sent
<1>3. PICK ok \in BOOLEAN : Emit(Done, ok)
  BY DEF WriteDone
<1>4. /\ out' = Append(out, Done) /\ out' # <<>> /\ out'[Len(out')].part = "marker"
      /\ conn = "failed" => conn' = "failed"
  BY <1>2, <1>3, EmitAppends DEF IInv
<1>5. ~Marked /\ Marked'
  BY <1>1, <1>4 DEF ClientInv, SentInv, Marked
<1>6. Stream' = Append(Stream, [part |-> "marker", seq |-> -1])
  BY <1>2, <1>4, StreamStep DEF IInv
<1>7. Phase' = "closed" /\ (Phase = "concluded" \/ (Phase = "answering" /\ conn = "failed"))
  BY <1>1, <1>5 DEF Phase, ClientInv, SentInv
<1> QED
  BY <1>4, <1>6, <1>7
  DEF AsOneResponse!Next, AsOneResponse!Finish, AsOneResponse!Abandon, AsOneResponse!Close,
      AsOneResponse!MayLose, Stream, Phase

LEMMA StepRefines ==
    ASSUME IInv, ClientInv, ClientInv', [Next]_vars
    PROVE  [AsOneResponse!Next]_AsOneResponse!vars
<1>1. CASE Upstream
  <2>1. pc = "read" /\ conn # "failed"
    BY <1>1, UpstreamWrites DEF ClientInv, SentInv
  <2>2. CASE RelaysOne
    BY <2>1, <2>2, RelayThinks DEF RelaysOne
  <2>3. CASE WritesNothing
    BY <2>1, <2>3, QuietSteps DEF WritesNothing
  <2> QED
    BY <1>1, <2>2, <2>3, UpstreamWrites
<1>2. CASE OpenRound \/ CancelRead \/ Continue \/ Stop
  <2>1. /\ UNCHANGED <<out, conn, answer>>
        /\ \/ pc \notin {"flush", "marker"} /\ pc' \notin {"flush", "marker"}
           \/ pc = "end" /\ pc' = "flush"
    BY <1>2 DEF OpenRound, CancelRead, FailRead, Continue, Stop, EndRound, replyVars
  <2> QED
    BY <2>1, QuietSteps
<1>3. CASE Handler /\ ~(OpenRound \/ CancelRead \/ Continue \/ Stop)
  BY <1>3, FlushAnswers, WritesConclude, DoneCloses DEF Handler
<1>4. CASE ClientLeaves \/ Returned \/ UNCHANGED vars
  <2>1. UNCHANGED <<out, answer, pc>> /\ (conn' = conn \/ (conn = "up" /\ conn' = "gone"))
    BY <1>4 DEF ClientLeaves, Returned, vars
  <2> QED
    BY <2>1, QuietSteps
<1> QED
  BY <1>1, <1>2, <1>3, <1>4 DEF Next, Handler

\* The fold keeps the promise of ResponseStream: the client sees one response,
\* numbered without a gap, whose answer is never followed by more thinking and
\* which only a lost client does not see concluded.
THEOREM FoldIsOneResponse == Spec => IsOneResponse
<1>1. Init => AsOneResponse!Init
  <2> SUFFICES ASSUME Init PROVE AsOneResponse!Init
    OBVIOUS
  <2>1. out = <<>> /\ ~Marked /\ ~Told /\ pc = "open" /\ conn = "up"
    BY DEF Init, Marked, Told, NoAnswer, EmptyReply
  <2> QED
    BY <2>1 DEF AsOneResponse!Init
<1>2. (IInv /\ ClientInv) /\ (IInv /\ ClientInv)' /\ [Next]_vars
          => [AsOneResponse!Next]_AsOneResponse!vars
  BY StepRefines
<1> QED
  BY <1>1, <1>2, InvariantsHold, PTL DEF Spec, IsOneResponse, AsOneResponse!Spec

-----------------------------------------------------------------------------
(* What the reply says: its identity, its bill, its reason, and the rounds *)
(* it lists.                                                               *)

\* Only round 1 announces a response, and it is then the one remembered.
IdentityInv ==
    /\ \A i \in DOMAIN out : out[i].type = "created" => out[i].round = 1 /\ baseResponse = 1
    /\ (pc = "open" /\ roundNo = 0) \/ pc = "rejected" => baseResponse = 0
    /\ Told => baseResponse \in {0, answer.id}

\* Every round that came to its end is listed, once.
RoundsInv ==
    Len(roundsInfo) =
        roundNo - IF (terminal = "none" /\ pc # "open") \/ pc = "end" THEN 1 ELSE 0

\* No round reports more reasoning than output.
Plausible == \A u \in Usages : Tokens(u) <= u.output

\* What was billed covers the first round's input, all reasoning, and the
\* answer of the round that stands; the reasoning is that of the rounds listed.
BillInv ==
    /\ IsFiniteSet(ListedTokens(roundsInfo))
    /\ summedUsage.reasoning = Cardinality(ListedTokens(roundsInfo))
    /\ terminal # "none" => usage \in Usages
    /\ firstUsage.input <= summedUsage.input
    /\ Plausible => summedUsage.reasoning <= summedUsage.output
    /\ Plausible /\ pc = "flush"
          => summedUsage.reasoning + answerTokens(usage) <= summedUsage.output

\* The round that stands is the last one listed, and it is not to be continued.
LastInv ==
    pc = "flush" =>
        /\ roundsInfo # <<>> /\ roundsInfo[Len(roundsInfo)].tokens = usage.reasoning
        /\ ~shouldContinue(terminal, usage.reasoning, hasEncryptedContent, roundNo)

\* What is replayed in round r + 1: it ends with encrypted reasoning of round r,
\* which is listed as truncated in the window, and the nudge.
Resumable(tail, r, listed) ==
    /\ r \in DOMAIN listed /\ InWindow(listed[r].tokens)
    /\ Len(tail) >= 2 /\ tail[Len(tail)] = Nudge
    /\ tail[Len(tail) - 1].enc /\ tail[Len(tail) - 1].round = r

RequestInv ==
    /\ Len(requests) = roundNo
    /\ \A r \in 2..Len(requests) : Resumable(requests[r], r - 1, roundsInfo)
    /\ pc = "open" /\ roundNo >= 1 => Resumable(replayTail, roundNo, roundsInfo)
    /\ \A i \in DOMAIN roundReasoning : roundReasoning[i].round = roundNo

ReplyInv ==
    /\ IdentityInv /\ RoundsInv /\ BillInv /\ LastInv /\ RequestInv
    /\ BilledCoversReported /\ TruncationAlwaysReported

\* One more round's usage: the input only grows, and a plausible round's
\* reasoning and answer are both paid for by its output.
LEMMA SumCovers ==
    ASSUME NEW acc \in Bill, NEW u \in Usage
    PROVE  /\ sumUsage(acc, u).input = acc.input + u.input
           /\ acc.reasoning <= acc.output /\ Tokens(u) <= u.output
                 => /\ sumUsage(acc, u).reasoning <= sumUsage(acc, u).output
                    /\ sumUsage(acc, u).reasoning + answerTokens(u) <= sumUsage(acc, u).output
BY DEF sumUsage, answerTokens, Bill, Usage, Tokens, NoTokens

\* The bound, the remainder and the quotient of tierN decide whether a number
\* of tokens is that of a truncation, and whether its tier is in the window.
LEMMA Division ==
    ASSUME NEW s \in Nat \ {0}, NEW a \in Nat
    PROVE  a = s * (a \div s) + (a % s) /\ a \div s \in Nat /\ a % s \in 0..(s - 1)
OBVIOUS

LEMMA Multiple ==
    ASSUME NEW s \in Nat \ {0}, NEW n \in Nat
    PROVE  (s * n) % s = 0 /\ (s * n) \div s = n
OBVIOUS

LEMMA Quotient ==
    ASSUME NEW s \in Nat \ {0}, NEW q \in Nat, NEW a \in Nat, a = s * q, a >= s
    PROVE  q \in 1..a
OBVIOUS

LEMMA TierIsTruncation ==
    ASSUME NEW t \in Nat \union {NoTokens}
    PROVE  /\ tierN(t) # NoTier => tierN(t) \in 1..(t + 2) /\ TruncatedAt(t, tierN(t))
           /\ \A n \in 1..(t + 2) : TruncatedAt(t, n) => tierN(t) = n
<1> DEFINE s == TruncationStep
           a == t + 2
<1>1. s \in Nat \ {0} /\ a \in Nat
  BY PolicyAssumption DEF NoTokens
<1>2. ASSUME tierN(t) # NoTier
      PROVE  tierN(t) \in 1..a /\ TruncatedAt(t, tierN(t))
  <2>1. t # NoTokens /\ t >= s - 2 /\ a % s = 0 /\ tierN(t) = a \div s
    BY <1>2 DEF tierN
  <2>2. a = s * (a \div s) + (a % s) /\ a \div s \in Nat
    BY <1>1, Division
  <2> HIDE DEF s
  <2>3. PICK q \in Nat : q = a \div s
    BY <2>2
  <2>4. a = s * q /\ a >= s
    BY <1>1, <2>1, <2>2, <2>3 DEF NoTokens
  <2>5. q \in 1..a
    BY <1>1, <2>4, Quotient
  <2>6. t = s * q - 2
    BY <1>1, <2>4, <2>3 DEF NoTokens
  <2> QED
    BY <2>1, <2>3, <2>5, <2>6 DEF TruncatedAt, s
<1>3. ASSUME NEW n \in 1..a, TruncatedAt(t, n) PROVE tierN(t) = n
  <2>1. t # NoTokens /\ t = s * n - 2 /\ n \in Nat /\ n >= 1
    BY <1>3 DEF TruncatedAt
  <2>2. (s * n) % s = 0 /\ (s * n) \div s = n
    BY <1>1, <2>1, Multiple
  <2> HIDE DEF s
  <2>3. PICK m \in Nat : m = s * n
    BY <1>1, <2>1
  <2>4. a = m
    BY <1>1, <2>1, <2>3 DEF NoTokens
  <2>5. m >= s
    BY <1>1, <2>1, <2>3
  <2>6. t >= s - 2 /\ a % s = 0 /\ a \div s = n
    BY <1>1, <2>2, <2>3, <2>4, <2>5 DEF NoTokens
  <2> QED
    BY <2>1, <2>6 DEF tierN, s
<1> QED
  BY <1>2, <1>3

\* The window that shouldContinue sees is that of the truncations.
LEMMA WindowIsOfTruncations ==
    ASSUME NEW t \in Nat \union {NoTokens}
    PROVE  /\ Truncated(t) <=> tierN(t) # NoTier
           /\ InWindow(t) <=> inContinueWindow(tierN(t))
<1>1. \A n \in 1..(t + 2) : n # NoTier
  BY DEF NoTier
<1> QED
  BY <1>1, TierIsTruncation DEF Truncated, InWindow, inContinueWindow

\* A completed round that is not continued is given a reason exactly when it
\* was truncated, and the window is blamed only for a tier above it.
LEMMA ReasonMatches ==
    ASSUME NEW t \in Nat \union {NoTokens}, NEW e \in BOOLEAN, NEW r \in Nat,
           ~shouldContinue("completed", t, e, r)
    PROVE  LET reason == stoppedReason("completed", t, e, r)
           IN  /\ Truncated(t) <=> (reason # "")
               /\ reason = "tier_out_of_window" => ~InWindow(t)
<1>1. tierN(t) \in Nat /\ MaxContinue \in Nat
  BY TierNat, PolicyAssumption
<1>2. /\ (tierN(t) # NoTier) <=> (stoppedReason("completed", t, e, r) # "")
      /\ stoppedReason("completed", t, e, r) = "tier_out_of_window"
            => ~inContinueWindow(tierN(t))
  BY <1>1 DEF stoppedReason, shouldContinue
<1> QED
  BY <1>2, WindowIsOfTruncations

\* One more round of a list brings as many tokens as it says.
ListedRound == [round : Nat, tokens : Nat \union {NoTokens}, n : Nat]

LEMMA ListedTokensAppend ==
    ASSUME NEW rounds \in Seq(ListedRound), NEW u \in Usage, NEW e \in ListedRound,
           e.tokens = u.reasoning, IsFiniteSet(ListedTokens(rounds))
    PROVE  /\ IsFiniteSet(ListedTokens(Append(rounds, e)))
           /\ Cardinality(ListedTokens(Append(rounds, e)))
                  = Cardinality(ListedTokens(rounds)) + Tokens(u)
<1> DEFINE r   == Len(rounds) + 1
           new == {<<r, k>> : k \in 1..u.reasoning}
           f   == [k \in 1..u.reasoning |-> <<r, k>>]
<1>1. u.reasoning \in Nat \union {NoTokens} /\ Len(rounds) \in Nat
  BY DEF Usage
<1>2. f \in Bijection(1..u.reasoning, new)
  BY DEF Bijection, Injection, Surjection, IsInjective
<1>3. IsFiniteSet(1..u.reasoning) /\ Cardinality(1..u.reasoning) = Tokens(u)
  <2>1. 1 \in Int /\ u.reasoning \in Int
    BY <1>1 DEF NoTokens
  <2>2. /\ IsFiniteSet(1..u.reasoning)
        /\ Cardinality(1..u.reasoning) = IF 1 > u.reasoning THEN 0 ELSE u.reasoning - 1 + 1
    BY <2>1, FS_Interval, Zenon
  <2> QED
    BY <1>1, <2>2 DEF NoTokens, Tokens
<1>4. IsFiniteSet(new) /\ Cardinality(new) = Tokens(u)
  BY <1>2, <1>3, FS_Bijection DEF ExistsBijection
<1>5. /\ DOMAIN Append(rounds, e) = DOMAIN rounds \union {r}
      /\ Append(rounds, e)[r] = e
      /\ \A i \in DOMAIN rounds : Append(rounds, e)[i] = rounds[i]
  BY <1>1
<1>6. ListedTokens(Append(rounds, e)) = ListedTokens(rounds) \union new
  BY <1>5 DEF ListedTokens
<1>7. ListedTokens(rounds) \intersect new = {}
  <2>1. r \notin DOMAIN rounds
    BY <1>1
  <2> QED
    BY <2>1 DEF ListedTokens
<1>8. /\ Cardinality({}) = 0 /\ Cardinality(ListedTokens(rounds)) \in Nat
      /\ Tokens(u) \in Nat
  BY <1>1, FS_EmptySet, FS_CardinalityType DEF Tokens, NoTokens
<1> HIDE DEF new
<1>9. /\ IsFiniteSet(ListedTokens(rounds) \union new)
      /\ Cardinality(ListedTokens(rounds) \union new)
             = Cardinality(ListedTokens(rounds)) + Cardinality(new)
                   - Cardinality(ListedTokens(rounds) \intersect new)
  BY <1>4, FS_Union, Zenon
<1>10. Cardinality(ListedTokens(rounds) \intersect new) = 0
  BY <1>7, <1>8, Zenon
<1>11. Cardinality(ListedTokens(rounds) \union new)
          = Cardinality(ListedTokens(rounds)) + Tokens(u)
  BY <1>4, <1>8, <1>9, <1>10
<1> QED
  BY <1>6, <1>9, <1>11, Zenon

LEMMA TailEnds ==
    ASSUME NEW S, NEW s \in Seq(S), NEW t \in Seq(S), t # <<>>, NEW e \in S
    PROVE  LET c == s \o Append(t, e)
           IN  Len(c) >= 2 /\ c[Len(c)] = e /\ c[Len(c) - 1] = t[Len(t)]
OBVIOUS

LEMMA EncryptedIsBoolean == TypeOK => hasEncryptedContent \in BOOLEAN
<1> SUFFICES ASSUME TypeOK, roundReasoning # <<>>
             PROVE  roundReasoning[Len(roundReasoning)].enc \in BOOLEAN
  BY DEF hasEncryptedContent
<1>1. roundReasoning \in Seq(Items)
  BY DEF TypeOK
<1>2. roundReasoning[Len(roundReasoning)] \in Items
  BY <1>1
<1> QED
  BY <1>2 DEF Items

\* Opening a round lists nothing yet, and asks for what was to be replayed.
LEMMA OpenReply ==
    ASSUME IInv, ClientInv, ReplyInv, OpenRound
    PROVE  ReplyInv'
<1>1. /\ pc = "open" /\ roundNo' = roundNo + 1 /\ terminal' = "none" /\ roundReasoning' = <<>>
      /\ requests' = Append(requests, replayTail)
      /\ pc' \in {"read", "rejected", "error"} /\ (pc' = "rejected" => roundNo = 0)
      /\ UNCHANGED <<out, baseResponse, answer, roundsInfo, summedUsage, firstUsage>>
  BY DEF OpenRound, ResetRound, usageVars, replyVars, IInv, TypeOK
<1>2. ~Told' /\ roundNo \in Nat /\ requests \in Seq(Seq(Items)) /\ replayTail \in Seq(Items)
  BY <1>1, PolicyAssumption DEF ClientInv, SentInv, Told, IInv, TypeOK
<1>3. IdentityInv'
  BY <1>1, <1>2 DEF ReplyInv, IdentityInv
<1>4. RoundsInv'
  BY <1>1, <1>2 DEF ReplyInv, RoundsInv
<1>5. BillInv' /\ LastInv'
  BY <1>1 DEF ReplyInv, BillInv, LastInv
<1>6. RequestInv'
  <2>1. Len(requests) = roundNo /\ Len(requests') = roundNo'
    BY <1>1, <1>2 DEF ReplyInv, RequestInv
  <2>2. ASSUME NEW r \in 2..Len(requests') PROVE Resumable(requests'[r], r - 1, roundsInfo)
    <3>1. CASE r <= roundNo
      <4>1. requests'[r] = requests[r] /\ r \in 2..Len(requests)
        BY <1>1, <1>2, <2>1, <3>1
      <4> QED
        BY <4>1 DEF ReplyInv, RequestInv
    <3>2. CASE r > roundNo
      <4>1. r = roundNo + 1 /\ requests'[r] = replayTail /\ roundNo >= 1
        BY <1>1, <1>2, <2>1, <3>2
      <4>2. Resumable(replayTail, roundNo, roundsInfo)
        BY <1>1, <4>1 DEF ReplyInv, RequestInv
      <4>3. r - 1 = roundNo
        BY <1>2, <4>1
      <4> QED
        BY <4>1, <4>2, <4>3
    <3> QED
      BY <1>2, <2>1, <3>1, <3>2
  <2>3. \A r \in 2..Len(requests') : Resumable(requests'[r], r - 1, roundsInfo')
    BY <1>1, <2>2
  <2> QED
    BY <1>1, <2>1, <2>3 DEF RequestInv
<1> QED
  BY <1>2, <1>3, <1>4, <1>5, <1>6
  DEF ReplyInv, BilledCoversReported, TruncationAlwaysReported, Completed

-----------------------------------------------------------------------------
(* Reading a round.                                                        *)

\* What a step that reads the upstream leaves alone.
ReadFrame ==
    UNCHANGED <<roundNo, roundsInfo, replayTail, summedUsage, firstUsage, answer, requests>>

\* It ends the round with a terminal event, or keeps the round without one.
HearsEnd ==
    \/ pc' = "end" /\ terminal' # "none" /\ usage' \in Usages
    \/ pc' \in {"read", "eof", "error"} /\ UNCHANGED <<terminal, usage>>

\* It writes nothing, or one event of this round.  Only round 1's created is
\* passed on and remembered; the end of a thought is kept to be replayed.
WritesOfRound ==
    \/ UNCHANGED <<out, baseResponse, roundReasoning>>
    \/ \E ev \in Events :
           /\ out' = Append(out, ev) /\ ev.round = roundNo
           /\ \/ ev.type # "created" /\ UNCHANGED baseResponse
              \/ roundNo = 1 /\ baseResponse' = 1
           /\ \/ ~EndsThought(ev) /\ UNCHANGED roundReasoning
              \/ /\ EndsThought(ev)
                 /\ \E item \in Items :
                       /\ item.kind = "reasoning" /\ item.round = roundNo /\ item.oi = ev.src
                       /\ roundReasoning' = Append(roundReasoning, item)

Reads == pc = "read" /\ ReadFrame /\ HearsEnd /\ WritesOfRound

\* An event relayed is written once, with its type, part, round and index.
LEMMA RelayWrites ==
    ASSUME TypeOK, NEW ev \in Events, Relay(ev)
    PROVE  /\ pc' \in {"read", "error"}
           /\ out' = Append(out, Stamped(ev)) /\ Stamped(ev) \in Events
           /\ Stamped(ev).type = ev.type /\ Stamped(ev).part = ev.part
           /\ Stamped(ev).round = ev.round
           /\ Stamped(ev).src = ev.src /\ Stamped(ev).oi = ev.oi
<1>1. PICK ok \in BOOLEAN : Send(ev, ok) /\ pc' = IF ok THEN "read" ELSE "error"
  BY DEF Relay
<1>2. out' = Append(out, Stamped(ev)) /\ Stamped(ev) \in Events
  BY <1>1, SendWrites, SendAppends
<1> QED
  BY <1>1, <1>2 DEF Stamped, Events

\* A relayed event that neither announces a response nor ends a thought.
LEMMA RelayOfRound ==
    ASSUME TypeOK, NEW ev \in Events, ev.round = roundNo, ev.type # "created",
           ~EndsThought(ev), Relay(ev), UNCHANGED <<baseResponse, roundReasoning>>
    PROVE  WritesOfRound /\ pc' \in {"read", "error"}
<1>1. ~EndsThought(Stamped(ev))
  BY RelayWrites DEF EndsThought
<1> QED
  BY <1>1, RelayWrites DEF WritesOfRound

LEMMA UpstreamReads == ASSUME IInv, Upstream \/ CancelRead PROVE Reads
<1>1. /\ TypeOK /\ NoIndex \in Indices
      /\ \A oi \in Indices : oi \in Nat \union {NoIndex} /\ oiToDS[oi] \in Nat \union {NoIndex}
      /\ dsOI \in Nat \union {NoIndex}
  <2>1. \A oi \in Indices : oi \in Nat \union {NoIndex}
    BY FoldAssumption DEF Indices
  <2> QED
    BY <2>1 DEF IInv, TypeOK, Indices
<1>2. ASSUME NEW t \in Preambles, ForwardPreamble(t) PROVE Reads
  <2> DEFINE ev == Event(t, "control", NoIndex, NoIndex)
             st == Stamped(ev)
  <2>1. ev \in Events /\ ev.type = t /\ ev.round = roundNo /\ ev.part = "control"
    BY <1>1, <1>2, EventTyped DEF Event
  <2>2. /\ pc = "read" /\ roundNo = 1 /\ ReadFrame /\ Relay(ev)
        /\ UNCHANGED <<terminal, usage, roundReasoning>>
        /\ baseResponse' = IF t = "created" THEN 1 ELSE baseResponse
    BY <1>2 DEF ForwardPreamble, Hear, ReadFrame, roundVars, usageVars
  <2> HIDE DEF ev
  <2>3. /\ pc' \in {"read", "error"} /\ out' = Append(out, st) /\ st \in Events
        /\ st.type = t /\ st.round = roundNo /\ st.part = "control"
    BY <1>1, <2>1, <2>2, RelayWrites
  <2> HIDE DEF st
  <2>4. WritesOfRound
    BY <2>2, <2>3 DEF WritesOfRound, EndsThought
  <2> QED
    BY <2>2, <2>3, <2>4 DEF Reads, HearsEnd
<1>3. ASSUME NEW oi \in Indices, AddReasoning(oi) PROVE Reads
  <2> DEFINE ev == Event("added", "thought", oi, dsOI)
  <2>1. ev \in Events /\ ev.type # "created" /\ ~EndsThought(ev) /\ ev.round = roundNo
    BY <1>1, EventTyped DEF Event, ItemTypes, EndsThought
  <2>2. /\ pc = "read" /\ ReadFrame /\ Relay(ev)
        /\ UNCHANGED <<terminal, usage, roundReasoning, baseResponse>>
    BY <1>3 DEF AddReasoning, Hear, ReadFrame, usageVars
  <2> HIDE DEF ev
  <2> QED
    BY <1>1, <2>1, <2>2, RelayOfRound DEF Reads, HearsEnd
<1>4. ASSUME NEW t \in {"delta", "done"}, NEW oi \in Indices, NEW enc \in BOOLEAN,
             RelayReasoning(t, oi, enc)
      PROVE  Reads
  <2> DEFINE ev   == Event(t, "thought", oi, oiToDS[oi])
             item == Item("reasoning", oi, TRUE, enc)
             st   == Stamped(ev)
  <2>1. /\ ev \in Events /\ ev.type = t /\ ev.part = "thought" /\ ev.round = roundNo
        /\ ev.src = oi
    BY <1>1, EventTyped DEF Event, ItemTypes
  <2>2. item \in Items /\ item.kind = "reasoning" /\ item.round = roundNo /\ item.oi = oi
    BY <1>1, ItemTyped DEF Item
  <2>3. /\ pc = "read" /\ ReadFrame /\ Relay(ev)
        /\ UNCHANGED <<terminal, usage, baseResponse>>
    BY <1>4 DEF RelayReasoning, Hear, ReadFrame, usageVars
  <2>4. /\ t = "done" => roundReasoning' = Append(roundReasoning, item)
        /\ t # "done" => UNCHANGED roundReasoning
    BY <1>4 DEF RelayReasoning
  <2> HIDE DEF ev, item
  <2>5. /\ pc' \in {"read", "error"} /\ out' = Append(out, st) /\ st \in Events
        /\ st.type = t /\ st.part = "thought" /\ st.round = roundNo /\ st.src = oi
    BY <1>1, <2>1, <2>3, RelayWrites
  <2> HIDE DEF st
  <2>6. st.type # "created" /\ (EndsThought(st) <=> t = "done")
    BY <2>5 DEF EndsThought
  <2>7. WritesOfRound
    BY <2>2, <2>3, <2>4, <2>5, <2>6 DEF WritesOfRound
  <2> QED
    BY <2>3, <2>5, <2>7 DEF Reads, HearsEnd
<1>5. ASSUME NEW t \in {"delta", "done"}, NEW oi \in Indices, RelayRaw(t, oi) PROVE Reads
  <2> DEFINE ev == Event(t, "control", oi, oi)
  <2>1. ev \in Events /\ ev.type # "created" /\ ~EndsThought(ev) /\ ev.round = roundNo
    BY <1>1, EventTyped DEF Event, ItemTypes, EndsThought
  <2>2. /\ pc = "read" /\ ReadFrame /\ Relay(ev)
        /\ UNCHANGED <<terminal, usage, roundReasoning, baseResponse>>
    BY <1>5 DEF RelayRaw, Hear, ReadFrame, usageVars, roundVars
  <2> HIDE DEF ev
  <2> QED
    BY <1>1, <2>1, <2>2, RelayOfRound DEF Reads, HearsEnd
<1>6. ASSUME NEW t \in Terminals, NEW u \in Usages, HearTerminal(t, u) PROVE Reads
  BY <1>6 DEF HearTerminal, Hear, Reads, ReadFrame, HearsEnd, WritesOfRound,
              Terminals, replyVars, usageVars
<1>7. ASSUME \/ \E t \in Preambles : DropPreamble(t)
             \/ \E oi \in Indices : AddBuffered(oi)
             \/ \E t \in {"delta", "done"}, oi \in Indices : HoldEvent(t, oi)
             \/ EndOfBody \/ FailRead \/ CancelRead
      PROVE  Reads
  <2>1. pc = "read" /\ pc' \in {"read", "eof", "error"}
    BY <1>7 DEF DropPreamble, AddBuffered, HoldEvent, EndOfBody, FailRead, CancelRead, Hear
  <2>2. /\ ReadFrame /\ UNCHANGED <<terminal, usage, roundReasoning>>
        /\ UNCHANGED <<out, baseResponse>>
    BY <1>7 DEF DropPreamble, AddBuffered, HoldEvent, EndOfBody, FailRead, CancelRead, Hear,
                ReadFrame, roundVars, usageVars, replyVars
  <2> QED
    BY <2>1, <2>2 DEF Reads, HearsEnd, WritesOfRound
<1> QED
  BY <1>2, <1>3, <1>4, <1>5, <1>6, <1>7 DEF Upstream

LEMMA ReadReply ==
    ASSUME IInv, ClientInv, ReplyInv, Reads
    PROVE  ReplyInv'
<1>1. pc = "read" /\ ReadFrame /\ ~Told /\ ~Told' /\ terminal = "none"
  BY DEF Reads, ReadFrame, ClientInv, SentInv, Told, IInv, RoundInv
<1>2. pc' \in {"end", "read", "eof", "error"}
  BY DEF Reads, HearsEnd
<1>3. IdentityInv'
  <2>1. CASE UNCHANGED <<out, baseResponse>>
    BY <1>1, <1>2, <2>1 DEF ReplyInv, IdentityInv
  <2>2. ASSUME NEW ev \in Events, out' = Append(out, ev),
               \/ ev.type # "created" /\ UNCHANGED baseResponse
               \/ ev.round = 1 /\ baseResponse' = 1
        PROVE  IdentityInv'
    <3>1. out \in Seq(Events)
      BY DEF IInv, TypeOK
    <3>2. \A i \in DOMAIN out' : (i \in DOMAIN out /\ out'[i] = out[i]) \/ out'[i] = ev
      BY <2>2, <3>1
    <3> QED
      BY <1>1, <1>2, <2>2, <3>2 DEF ReplyInv, IdentityInv
  <2> QED
    BY <2>1, <2>2 DEF Reads, WritesOfRound
<1>4. RoundsInv'
  BY <1>1, <1>2 DEF ReplyInv, RoundsInv, Reads, ReadFrame, HearsEnd
<1>5. BillInv' /\ LastInv'
  BY <1>1, <1>2 DEF ReplyInv, BillInv, LastInv, Reads, ReadFrame, HearsEnd
<1>6. RequestInv'
  <2>1. \A i \in DOMAIN roundReasoning' : roundReasoning'[i].round = roundNo
    <3>1. roundReasoning \in Seq(Items)
      BY DEF IInv, TypeOK
    <3>2. ASSUME NEW item \in Items, item.round = roundNo,
                 roundReasoning' = Append(roundReasoning, item)
          PROVE  \A i \in DOMAIN roundReasoning' : roundReasoning'[i].round = roundNo
      <4>1. \A i \in DOMAIN roundReasoning' :
              \/ i \in DOMAIN roundReasoning /\ roundReasoning'[i] = roundReasoning[i]
              \/ roundReasoning'[i] = item
        BY <3>1, <3>2
      <4> QED
        BY <3>2, <4>1 DEF ReplyInv, RequestInv
    <3> QED
      BY <3>2 DEF ReplyInv, RequestInv, Reads, WritesOfRound
  <2> QED
    BY <1>1, <1>2, <2>1 DEF ReplyInv, RequestInv, ReadFrame
<1> QED
  BY <1>1, <1>3, <1>4, <1>5, <1>6
  DEF ReplyInv, BilledCoversReported, TruncationAlwaysReported, Completed

-----------------------------------------------------------------------------
(* The end of a round.                                                     *)

\* A round that ended is billed and listed, with its tokens.
LEMMA EndOfRound ==
    ASSUME IInv, ReplyInv, EndRound, pc' \in {"open", "flush"}
    PROVE  /\ UNCHANGED <<roundNo, out, baseResponse, answer, terminal, usage,
                          roundReasoning, requests>>
           /\ Len(roundsInfo') = roundNo /\ roundNo >= 1 /\ terminal # "none"
           /\ roundsInfo'[roundNo].tokens = usage.reasoning
           /\ \A r \in DOMAIN roundsInfo : r \in DOMAIN roundsInfo' /\ roundsInfo'[r] = roundsInfo[r]
           /\ RoundsInv' /\ BillInv'
<1>1. /\ pc = "end" /\ roundNo >= 1 /\ terminal # "none" /\ roundNo \in Nat
      /\ roundsInfo \in Seq([round : Nat, tokens : Nat \union {NoTokens}, n : Nat])
      /\ summedUsage \in Bill /\ firstUsage \in Usage /\ usage \in Usage
  BY PolicyAssumption DEF EndRound, IInv, TypeOK, RoundInv
<1>2. /\ UNCHANGED <<roundNo, out, baseResponse, answer, terminal, usage,
                     roundReasoning, requests>>
      /\ summedUsage' = sumUsage(summedUsage, usage)
      /\ firstUsage' = IF roundNo = 1 THEN usage ELSE firstUsage
  BY DEF EndRound, roundVars, replyVars
<1>3. Len(roundsInfo) = roundNo - 1
  BY <1>1 DEF ReplyInv, RoundsInv
<1>4. PICK entry \in ListedRound :
          entry.tokens = usage.reasoning /\ roundsInfo' = Append(roundsInfo, entry)
  <2>1. tierN(usage.reasoning) \in Nat /\ usage.reasoning \in Nat \union {NoTokens}
    BY <1>1, TierNat DEF Usage
  <2> QED
    BY <1>1, <2>1 DEF EndRound, ListedRound
<1>5. /\ Len(roundsInfo') = roundNo /\ roundsInfo'[roundNo].tokens = usage.reasoning
      /\ \A r \in DOMAIN roundsInfo : r \in DOMAIN roundsInfo' /\ roundsInfo'[r] = roundsInfo[r]
  BY <1>1, <1>3, <1>4
<1>6. RoundsInv'
  BY <1>1, <1>2, <1>5 DEF RoundsInv
<1>7. BillInv'
  <2>1. usage \in Usages /\ firstUsage.input <= summedUsage.input
    BY <1>1 DEF ReplyInv, BillInv
  <2>2. Plausible => summedUsage.reasoning <= summedUsage.output /\ Tokens(usage) <= usage.output
    BY <2>1 DEF ReplyInv, BillInv, Plausible
  <2>3. /\ summedUsage'.input = summedUsage.input + usage.input
        /\ Plausible
             => /\ summedUsage'.reasoning <= summedUsage'.output
                /\ summedUsage'.reasoning + answerTokens(usage) <= summedUsage'.output
    BY <1>1, <1>2, <2>2, SumCovers
  <2>4. firstUsage'.input <= summedUsage'.input
    BY <1>1, <1>2, <2>1, <2>3 DEF Bill, Usage
  <2>5. /\ IsFiniteSet(ListedTokens(roundsInfo'))
        /\ summedUsage'.reasoning = Cardinality(ListedTokens(roundsInfo'))
    <3>1. /\ IsFiniteSet(ListedTokens(roundsInfo))
          /\ summedUsage.reasoning = Cardinality(ListedTokens(roundsInfo))
      BY DEF ReplyInv, BillInv
    <3>2. summedUsage'.reasoning = summedUsage.reasoning + Tokens(usage)
      BY <1>2 DEF sumUsage
    <3>3. roundsInfo \in Seq(ListedRound)
      BY <1>1 DEF ListedRound
    <3> QED
      BY <1>1, <1>4, <3>1, <3>2, <3>3, ListedTokensAppend
  <2> QED
    BY <1>2, <2>1, <2>3, <2>4, <2>5 DEF BillInv
<1> QED
  BY <1>1, <1>2, <1>5, <1>6, <1>7

LEMMA ContinueReply ==
    ASSUME IInv, ClientInv, ReplyInv, Continue \/ Stop
    PROVE  ReplyInv'
<1>1. EndRound /\ pc' \in {"open", "flush"} /\ pc = "end"
  BY DEF Continue, Stop, EndRound
<1>2. /\ UNCHANGED <<roundNo, out, baseResponse, answer, terminal, usage,
                     roundReasoning, requests>>
      /\ Len(roundsInfo') = roundNo /\ roundNo >= 1 /\ terminal # "none"
      /\ roundsInfo'[roundNo].tokens = usage.reasoning
      /\ \A r \in DOMAIN roundsInfo : r \in DOMAIN roundsInfo' /\ roundsInfo'[r] = roundsInfo[r]
      /\ RoundsInv' /\ BillInv'
  BY <1>1, EndOfRound
<1>3. ~Told /\ ~Told' /\ roundNo \in Nat /\ hasEncryptedContent' = hasEncryptedContent
  BY <1>1, <1>2, PolicyAssumption
  DEF ClientInv, SentInv, Told, IInv, TypeOK, hasEncryptedContent
<1>4. roundNo \in DOMAIN roundsInfo'
  <2>1. roundsInfo' \in Seq([round : Nat, tokens : Nat \union {NoTokens}, n : Nat])
    BY <1>1, EndRoundTyped
  <2> QED
    BY <1>2, <1>3, <2>1
<1>5. IdentityInv'
  BY <1>1, <1>2, <1>3 DEF ReplyInv, IdentityInv
<1>6. LastInv'
  <2> SUFFICES ASSUME pc' = "flush" PROVE LastInv'
    BY DEF LastInv
  <2>1. ~shouldContinue(terminal, usage.reasoning, hasEncryptedContent, roundNo)
    BY DEF Continue, Stop
  <2> QED
    BY <1>2, <1>3, <1>4, <2>1 DEF LastInv
<1>7. pc' = "open" => Resumable(replayTail', roundNo, roundsInfo')
  <2> SUFFICES ASSUME pc' = "open" PROVE Resumable(replayTail', roundNo, roundsInfo')
    OBVIOUS
  <2>1. /\ replayTail' = replayTail \o Append(roundReasoning, Nudge)
        /\ InWindow(usage.reasoning) /\ hasEncryptedContent
    <3>1. usage.reasoning \in Nat \union {NoTokens}
      BY DEF IInv, TypeOK, Usage
    <3> QED
      BY <3>1, WindowIsOfTruncations DEF Continue, Stop, NextTail, shouldContinue
  <2>2. /\ roundReasoning # <<>> /\ roundReasoning[Len(roundReasoning)].enc
        /\ roundReasoning \in Seq(Items) /\ replayTail \in Seq(Items)
    BY <2>1 DEF hasEncryptedContent, IInv, TypeOK
  <2>3. roundReasoning[Len(roundReasoning)].round = roundNo
    BY <2>2 DEF ReplyInv, RequestInv
  <2>4. /\ Len(replayTail') >= 2 /\ replayTail'[Len(replayTail')] = Nudge
        /\ replayTail'[Len(replayTail') - 1] = roundReasoning[Len(roundReasoning)]
    BY <2>1, <2>2, TailEnds, NudgeTyped
  <2> QED
    BY <1>2, <1>4, <2>1, <2>2, <2>3, <2>4 DEF Resumable
<1>8. RequestInv'
  <2>1. \A r \in 2..Len(requests) : Resumable(requests[r], r - 1, roundsInfo')
    BY <1>2 DEF ReplyInv, RequestInv, Resumable
  <2> QED
    BY <1>2, <1>7, <2>1 DEF ReplyInv, RequestInv
<1> QED
  BY <1>2, <1>3, <1>5, <1>6, <1>8
  DEF ReplyInv, BilledCoversReported, TruncationAlwaysReported, Completed

-----------------------------------------------------------------------------
(* The end of the stream.                                                  *)

\* A step of the end of the stream keeps all but what it writes and says.
EndFrame ==
    UNCHANGED <<roundNo, baseResponse, replayTail, summedUsage, firstUsage, roundsInfo,
                requests, roundReasoning, terminal, usage>>

\* One event is written, that announces nothing and is no thought.
WritesOne ==
    \E ev \in Events :
        ev.type # "created" /\ ev.part # "thought" /\ out' = Append(out, ev)

\* Then all but what the reply itself says is kept.
LEMMA EndKeeps ==
    ASSUME IInv, ReplyInv, EndFrame, WritesOne \/ UNCHANGED out,
           pc \in {"flush", "eof", "error", "rejected", "marker", "returned"},
           pc' \in {"flush", "marker", "returned"} \/ pc' = pc, pc' = "flush" => pc = "flush"
    PROVE  /\ \A i \in DOMAIN out' :
                  out'[i].type = "created" => out'[i].round = 1 /\ baseResponse' = 1
           /\ RoundsInv' /\ BillInv' /\ LastInv' /\ RequestInv'
<1>1. \A i \in DOMAIN out' :
          out'[i].type = "created" => out'[i].round = 1 /\ baseResponse' = 1
  <2>1. \A i \in DOMAIN out : out[i].type = "created" => out[i].round = 1 /\ baseResponse' = 1
    BY DEF ReplyInv, IdentityInv, EndFrame
  <2>2. ASSUME NEW ev \in Events, ev.type # "created", out' = Append(out, ev)
        PROVE  \A i \in DOMAIN out' :
                   out'[i].type = "created" => out'[i].round = 1 /\ baseResponse' = 1
    <3>1. out \in Seq(Events)
      BY DEF IInv, TypeOK
    <3>2. \A i \in DOMAIN out' : (i \in DOMAIN out /\ out'[i] = out[i]) \/ out'[i] = ev
      BY <2>2, <3>1
    <3> QED
      BY <2>1, <2>2, <3>2
  <2> QED
    BY <2>1, <2>2 DEF WritesOne
<1>2. hasEncryptedContent' = hasEncryptedContent /\ Plausible' = Plausible
  BY DEF EndFrame, hasEncryptedContent, Plausible
<1> QED
  BY <1>1, <1>2 DEF ReplyInv, RoundsInv, BillInv, LastInv, RequestInv, EndFrame

LEMMA FlushWrites == ASSUME IInv, Flush PROVE EndFrame /\ WritesOne
<1> DEFINE entry == Head(buffered)
           ev    == Event(Head(entry.events), "answer", entry.item.oi, HeldIndex(entry.item.oi))
<1>1. pc = "flush" /\ buffered # <<>> /\ EndFrame
  BY DEF Flush, EndFrame, usageVars
<1>2. ev \in Events /\ ev.type # "created" /\ ev.part # "thought"
  <2>1. entry \in Entries
    BY <1>1 DEF IInv, TypeOK
  <2>2. entry.events \in Seq(ItemTypes) /\ entry.events # <<>>
    BY <2>1 DEF Entries
  <2>3. Head(entry.events) \in ItemTypes
    BY <2>2, HeadTailProperties
  <2> QED
    BY <1>1, <2>3, HeldEventTyped DEF Event, ItemTypes
<1>3. PICK ok \in BOOLEAN : Send(ev, ok)
  BY DEF Flush
<1> HIDE DEF ev
<1>4. /\ out' = Append(out, Stamped(ev)) /\ Stamped(ev) \in Events
      /\ Stamped(ev).type = ev.type /\ Stamped(ev).part = ev.part
  BY <1>2, <1>3, SendWrites, SendAppends DEF IInv, Stamped, Events
<1> QED
  BY <1>1, <1>2, <1>4 DEF WritesOne

LEMMA TerminalWrites ==
    ASSUME IInv, NEW reply, reply.type \in Terminals, NEW ok, ok \in BOOLEAN,
           SendTerminal(reply, ok)
    PROVE  EndFrame /\ WritesOne
<1> DEFINE ev == Event(reply.type, "terminal", NoIndex, NoIndex)
<1>1. ev \in Events /\ ev.type # "created" /\ ev.part # "thought" /\ Send(ev, ok)
  BY EventTyped DEF IInv, SendTerminal, Event, Indices, Terminals
<1>2. EndFrame
  BY DEF SendTerminal, EndFrame, roundVars, usageVars
<1> HIDE DEF ev
<1>3. /\ out' = Append(out, Stamped(ev)) /\ Stamped(ev) \in Events
      /\ Stamped(ev).type = ev.type /\ Stamped(ev).part = ev.part
  BY <1>1, SendWrites, SendAppends DEF IInv, Stamped, Events
<1> QED
  BY <1>1, <1>2, <1>3 DEF WritesOne

LEMMA DoneWrites == ASSUME IInv, WriteDone PROVE EndFrame /\ WritesOne
<1>1. Done \in Events /\ Done.type # "created" /\ Done.part # "thought"
  BY EventTyped DEF IInv, Done, Indices, Event
<1>2. PICK ok \in BOOLEAN : Emit(Done, ok)
  BY DEF WriteDone
<1> QED
  BY <1>1, <1>2 DEF WriteDone, Emit, EndFrame, WritesOne, roundVars, usageVars

LEMMA EndingWrites ==
    ASSUME IInv, Flush \/ WriteTerminal \/ WriteIncomplete \/ WriteFailed \/ WriteDone
    PROVE  EndFrame /\ WritesOne /\ pc' \in {"flush", "marker", "returned"}
<1>1. pc' \in {"flush", "marker", "returned"}
  BY DEF Flush, WriteTerminal, WriteIncomplete, WriteFailed, WriteDone
<1>2. ASSUME WriteTerminal \/ WriteIncomplete \/ WriteFailed
      PROVE  \E reply, ok : reply.type \in Terminals /\ ok \in BOOLEAN /\ SendTerminal(reply, ok)
  <2>1. \A id, final, reason : /\ terminal # "none" => Reply(terminal, id, final, reason).type \in Terminals
                               /\ Reply("incomplete", id, final, reason).type \in Terminals
    BY DEF IInv, TypeOK, Reply, Terminals
  <2>2. EmptyReply("failed").type \in Terminals
    BY DEF EmptyReply, Terminals
  <2>3. WriteTerminal => terminal # "none"
    BY DEF WriteTerminal, IInv, RoundInv
  <2> QED
    BY <1>2, <2>1, <2>2, <2>3 DEF WriteTerminal, WriteIncomplete, WriteFailed
<1> QED
  BY <1>1, <1>2, FlushWrites, TerminalWrites, DoneWrites

LEMMA FlushReply == ASSUME IInv, ClientInv, ReplyInv, Flush PROVE ReplyInv'
<1>1. /\ pc = "flush" /\ pc' \in {"flush", "marker"} /\ UNCHANGED answer
  BY DEF Flush
<1>2. EndFrame /\ WritesOne
  BY FlushWrites
<1>3. ~Told /\ ~Told'
  BY <1>1 DEF ClientInv, SentInv, Told
<1> QED
  BY <1>1, <1>2, <1>3, EndKeeps
  DEF ReplyInv, IdentityInv, BilledCoversReported, TruncationAlwaysReported, Completed, EndFrame

\* Every way to tell the client the end: what the reply says must fit.
LEMMA TerminalReply ==
    ASSUME IInv, ClientInv, ReplyInv, pc \in {"flush", "eof", "error", "rejected"},
           NEW reply \in Replies, reply.type \in Terminals, NEW ok \in BOOLEAN,
           SendTerminal(reply, ok), pc' \in {"marker", "returned"},
           baseResponse \in {0, reply.id},
           Plausible => /\ reply.usage.input <= reply.bill.input
                        /\ reply.usage.output <= reply.bill.output,
           Len(reply.rounds) = roundNo - (IF terminal = "none" THEN 1 ELSE 0),
           reply.usage.reasoning = Cardinality(ListedTokens(reply.rounds)),
           terminal # "none" /\ reply.type = "completed" =>
               LET tokens == reply.rounds[Len(reply.rounds)].tokens IN
               /\ Truncated(tokens) <=> (reply.reason # "")
               /\ reply.reason = "tier_out_of_window" => ~InWindow(tokens)
    PROVE  ReplyInv'
<1>1. answer' = reply /\ EndFrame /\ WritesOne
  BY TerminalWrites DEF SendTerminal
<1>2. /\ \A i \in DOMAIN out' :
             out'[i].type = "created" => out'[i].round = 1 /\ baseResponse' = 1
      /\ RoundsInv' /\ BillInv' /\ LastInv' /\ RequestInv'
  BY <1>1, EndKeeps
<1>3. IdentityInv'
  BY <1>1, <1>2 DEF IdentityInv, EndFrame
<1>4. BilledCoversReported' /\ TruncationAlwaysReported'
  BY <1>1 DEF BilledCoversReported, TruncationAlwaysReported, Completed, Plausible, EndFrame
<1> QED
  BY <1>2, <1>3, <1>4 DEF ReplyInv

LEMMA BillCovers ==
    ASSUME IInv, ReplyInv, pc \in {"flush", "eof", "error"}, NEW final \in BOOLEAN,
           final <=> pc = "flush"
    PROVE  LET shown == agentUsage(firstUsage, summedUsage, usage, final)
           IN  /\ Plausible => /\ shown.input <= summedUsage.input
                               /\ shown.output <= summedUsage.output
               /\ shown.reasoning = Cardinality(ListedTokens(roundsInfo))
<1>1. /\ summedUsage \in Bill
      /\ firstUsage.input <= summedUsage.input
      /\ Plausible
            => /\ summedUsage.reasoning <= summedUsage.output
               /\ pc = "flush"
                    => summedUsage.reasoning + answerTokens(usage) <= summedUsage.output
      /\ summedUsage.reasoning = Cardinality(ListedTokens(roundsInfo))
  BY DEF ReplyInv, BillInv, IInv, TypeOK
<1> QED
  BY <1>1 DEF agentUsage, Bill

LEMMA NothingListed ==
    IsFiniteSet(ListedTokens(<<>>)) /\ Cardinality(ListedTokens(<<>>)) = 0
<1>1. ListedTokens(<<>>) = {}
  BY DEF ListedTokens
<1> QED
  BY <1>1, FS_EmptySet

LEMMA WriteReply ==
    ASSUME IInv, ClientInv, ReplyInv, WriteTerminal \/ WriteIncomplete \/ WriteFailed
    PROVE  ReplyInv'
<1>1. ASSUME WriteTerminal PROVE ReplyInv'
  <2> DEFINE id     == IF baseResponse # 0 THEN baseResponse ELSE roundNo
             reason == stoppedReason(terminal, usage.reasoning, hasEncryptedContent, roundNo)
             reply  == Reply(terminal, id, TRUE, reason)
  <2>1. /\ pc = "flush" /\ id \in Nat /\ terminal \in Terminals /\ terminal # "none"
        /\ roundNo \in Nat
    BY <1>1, PolicyAssumption DEF IInv, TypeOK, RoundInv, WriteTerminal
  <2>2. reply \in Replies
    BY <2>1, ReasonTyped, ReplyTyped
  <2>3. /\ reply.type = terminal /\ reply.id = id /\ reply.rounds = roundsInfo
        /\ reply.bill = summedUsage /\ reply.reason = reason
        /\ reply.usage = agentUsage(firstUsage, summedUsage, usage, TRUE)
    BY DEF Reply
  <2>4. PICK ok \in BOOLEAN : SendTerminal(reply, ok) /\ pc' \in {"marker", "returned"}
    BY <1>1 DEF WriteTerminal
  <2>5. Len(roundsInfo) = roundNo
    BY <2>1 DEF ReplyInv, RoundsInv
  <2>6. /\ Plausible => /\ reply.usage.input <= reply.bill.input
                        /\ reply.usage.output <= reply.bill.output
        /\ reply.usage.reasoning = Cardinality(ListedTokens(reply.rounds))
    BY <2>1, <2>3, BillCovers
  <2>7. terminal = "completed" =>
            LET tokens == roundsInfo[Len(roundsInfo)].tokens IN
            /\ Truncated(tokens) <=> (reason # "")
            /\ reason = "tier_out_of_window" => ~InWindow(tokens)
    <3>1. /\ roundsInfo[Len(roundsInfo)].tokens = usage.reasoning
          /\ ~shouldContinue(terminal, usage.reasoning, hasEncryptedContent, roundNo)
      BY <2>1 DEF ReplyInv, LastInv
    <3>2. usage.reasoning \in Nat \union {NoTokens} /\ hasEncryptedContent \in BOOLEAN
      BY EncryptedIsBoolean DEF IInv, TypeOK, Usage
    <3> QED
      BY <2>1, <3>1, <3>2, ReasonMatches
  <2>8. baseResponse \in {0, reply.id}
    BY <2>3
  <2> HIDE DEF reply, reason, id
  <2>9. terminal # "none" /\ reply.type = "completed" =>
            LET tokens == reply.rounds[Len(reply.rounds)].tokens IN
            /\ Truncated(tokens) <=> (reply.reason # "")
            /\ reply.reason = "tier_out_of_window" => ~InWindow(tokens)
    BY <2>3, <2>7
  <2>10. reply.type \in Terminals
         /\ Len(reply.rounds) = roundNo - (IF terminal = "none" THEN 1 ELSE 0)
    BY <2>1, <2>3, <2>5
  <2> QED
    BY <2>1, <2>2, <2>4, <2>6, <2>8, <2>9, <2>10, TerminalReply
<1>2. ASSUME WriteIncomplete PROVE ReplyInv'
  <2> DEFINE reason == IF pc = "eof" THEN "upstream_eof" ELSE "upstream_error"
             reply  == Reply("incomplete", baseResponse, FALSE, reason)
  <2>1. /\ pc \in {"eof", "error"} /\ pc' = "marker" /\ terminal = "none"
        /\ baseResponse \in Nat /\ "incomplete" \in Terminals
    BY <1>2 DEF IInv, TypeOK, RoundInv, WriteIncomplete, Terminals
  <2>2. reply \in Replies
    BY <2>1, ReplyTyped
  <2>3. /\ reply.type = "incomplete" /\ reply.id = baseResponse /\ reply.rounds = roundsInfo
        /\ reply.bill = summedUsage
        /\ reply.usage = agentUsage(firstUsage, summedUsage, usage, FALSE)
    BY DEF Reply
  <2>4. PICK ok \in BOOLEAN : SendTerminal(reply, ok)
    BY <1>2 DEF WriteIncomplete
  <2>5. Len(roundsInfo) = roundNo - 1
    BY <2>1 DEF ReplyInv, RoundsInv
  <2>6. /\ Plausible => /\ reply.usage.input <= reply.bill.input
                        /\ reply.usage.output <= reply.bill.output
        /\ reply.usage.reasoning = Cardinality(ListedTokens(reply.rounds))
    BY <2>1, <2>3, BillCovers
  <2> HIDE DEF reply, reason
  <2> QED
    BY <2>1, <2>2, <2>3, <2>4, <2>5, <2>6, TerminalReply
<1>3. ASSUME WriteFailed PROVE ReplyInv'
  <2> DEFINE reply == EmptyReply("failed")
  <2>1. "failed" \in Terminals
    BY DEF Terminals
  <2>2. /\ reply \in Replies /\ reply.type = "failed"
        /\ reply.usage = ZeroBill /\ reply.bill = ZeroBill /\ reply.rounds = <<>>
    BY <2>1, EmptyReplyTyped DEF EmptyReply
  <2>3. PICK ok \in BOOLEAN : SendTerminal(reply, ok)
    BY <1>3 DEF WriteFailed
  <2>4. /\ pc = "rejected" /\ pc' = "marker" /\ baseResponse = 0 /\ terminal = "none"
        /\ roundNo = 1
    BY <1>3 DEF WriteFailed, ReplyInv, IdentityInv, IInv, RoundInv
  <2> HIDE DEF reply
  <2>5. /\ reply.usage.input <= reply.bill.input
        /\ reply.usage.output <= reply.bill.output
        /\ reply.usage.reasoning = Cardinality(ListedTokens(reply.rounds))
    BY <2>2, NothingListed DEF ZeroBill
  <2>6. Len(reply.rounds) = roundNo - (IF terminal = "none" THEN 1 ELSE 0)
    BY <2>2, <2>4
  <2> QED
    BY <2>1, <2>2, <2>3, <2>4, <2>5, <2>6, TerminalReply
<1> QED
  BY <1>1, <1>2, <1>3

LEMMA DoneReply == ASSUME IInv, ClientInv, ReplyInv, WriteDone PROVE ReplyInv'
<1>1. pc = "marker" /\ pc' = "returned" /\ UNCHANGED answer
  BY DEF WriteDone
<1>2. EndFrame /\ WritesOne
  BY DoneWrites
<1>3. /\ \A i \in DOMAIN out' :
             out'[i].type = "created" => out'[i].round = 1 /\ baseResponse' = 1
      /\ RoundsInv' /\ BillInv' /\ LastInv' /\ RequestInv'
  BY <1>1, <1>2, EndKeeps
<1>4. IdentityInv'
  BY <1>1, <1>2, <1>3 DEF ReplyInv, IdentityInv, EndFrame, Told
<1>5. BilledCoversReported' /\ TruncationAlwaysReported'
  BY <1>1, <1>2
  DEF ReplyInv, BilledCoversReported, TruncationAlwaysReported, Completed, Told, EndFrame
<1> QED
  BY <1>3, <1>4, <1>5 DEF ReplyInv

LEMMA IdleReply ==
    ASSUME ReplyInv, ClientLeaves \/ UNCHANGED vars
    PROVE  ReplyInv'
<1>1. UNCHANGED <<pc, roundNo, baseResponse, replayTail, usageVars, roundVars, out, answer,
                  requests>>
  BY DEF ClientLeaves, vars
<1>2. /\ UNCHANGED <<summedUsage, firstUsage, roundsInfo>>
      /\ UNCHANGED <<roundReasoning, terminal, usage>>
  BY <1>1 DEF usageVars, roundVars
<1>3. hasEncryptedContent' = hasEncryptedContent /\ Told' = Told
  BY <1>1, <1>2 DEF hasEncryptedContent, Told
<1>4. IdentityInv' /\ RoundsInv' /\ BillInv'
  BY <1>1, <1>2, <1>3 DEF ReplyInv, IdentityInv, RoundsInv, BillInv
<1>5. LastInv' /\ RequestInv'
  BY <1>1, <1>2, <1>3 DEF ReplyInv, LastInv, RequestInv
<1>6. BilledCoversReported' /\ TruncationAlwaysReported'
  BY <1>1, <1>2, <1>3
  DEF ReplyInv, BilledCoversReported, TruncationAlwaysReported, Completed
<1> QED
  BY <1>4, <1>5, <1>6 DEF ReplyInv

LEMMA InitReply == Init => ReplyInv
<1> SUFFICES ASSUME Init PROVE ReplyInv
  OBVIOUS
<1>1. ~Told /\ out = <<>> /\ requests = <<>> /\ roundsInfo = <<>> /\ roundReasoning = <<>>
  BY DEF Init, Told, NoAnswer, EmptyReply
<1>2. BillInv /\ LastInv
  BY NothingListed DEF Init, BillInv, LastInv, NoUsage, ZeroBill
<1>3. IdentityInv /\ RoundsInv /\ RequestInv
  BY <1>1 DEF Init, IdentityInv, RoundsInv, RequestInv
<1> QED
  BY <1>1, <1>2, <1>3 DEF ReplyInv, BilledCoversReported, TruncationAlwaysReported, Completed

-----------------------------------------------------------------------------
(* What is replayed.  First, how the places of the items shown depend on    *)
(* the stream.                                                              *)

LEMMA RankGrows ==
    ASSUME NEW m \in Nat, NEW S, S \subseteq 1..m
    PROVE  /\ IsFiniteSet(S) /\ Cardinality(S) \in Nat
           /\ \A i : Rank(S, i) \in Nat
           /\ Cardinality(S \union {m + 1}) = Cardinality(S) + 1
           /\ \A i \in S : Rank(S \union {m + 1}, i) = Rank(S, i)
           /\ Rank(S \union {m + 1}, m + 1) = Cardinality(S) + 1
<1>1. \A T : T \subseteq S => IsFiniteSet(T) /\ Cardinality(T) \in Nat
  <2>1. IsFiniteSet(1..m)
    BY FS_Interval
  <2>2. ASSUME NEW T, T \subseteq S PROVE IsFiniteSet(T)
    <3>1. T \subseteq 1..m
      BY <2>2
    <3> QED
      BY <2>1, <3>1, FS_Subset
  <2> QED
    BY <2>2, FS_CardinalityType
<1>2. \A i : Rank(S, i) \in Nat
  BY <1>1 DEF Rank
<1>3. m + 1 \notin S
  OBVIOUS
<1>4. Cardinality(S \union {m + 1}) = Cardinality(S) + 1
  BY <1>1, <1>3, FS_AddElement
<1>5. ASSUME NEW i \in S PROVE Rank(S \union {m + 1}, i) = Rank(S, i)
  <2>1. {j \in S \union {m + 1} : j <= i} = {j \in S : j <= i}
    OBVIOUS
  <2> QED
    BY <2>1 DEF Rank
<1>6. {j \in S \union {m + 1} : j <= m + 1} = S \union {m + 1}
  <2>1. \A j \in S \union {m + 1} : j <= m + 1
    OBVIOUS
  <2> QED
    BY <2>1
<1> QED
  BY <1>1, <1>2, <1>4, <1>5, <1>6 DEF Rank

LEMMA ShownFinite ==
    ASSUME NEW s \in Seq(Events), NEW r \in Nat
    PROVE  Shown(s, r) \subseteq 1..Len(s) /\ Cardinality(Shown(s, r)) \in Nat
<1>1. Shown(s, r) \subseteq 1..Len(s) /\ Len(s) \in Nat
  BY DEF Shown
<1> QED
  BY <1>1, RankGrows

\* An event that ends no thought before round r changes nothing before round r.
LEMMA OthersUnshown ==
    ASSUME NEW s \in Seq(Events), NEW ev \in Events, NEW r \in Nat,
           EndsThought(ev) => ~(ev.round < r)
    PROVE  /\ Shown(Append(s, ev), r) = Shown(s, r)
           /\ \A tail : Replays(tail, s, r) => Replays(tail, Append(s, ev), r)
<1> DEFINE s2 == Append(s, ev)
<1>1. DOMAIN s2 = 1..(Len(s) + 1) /\ DOMAIN s = 1..Len(s) /\ Len(s) \in Nat
  OBVIOUS
<1>2. \A i \in DOMAIN s : s2[i] = s[i]
  OBVIOUS
<1>3. s2[Len(s) + 1] = ev
  OBVIOUS
<1> HIDE DEF s2
<1>4. Shown(s2, r) = Shown(s, r)
  BY <1>1, <1>2, <1>3 DEF Shown
<1>5. \A i \in Shown(s, r) : Place(s2, r, i) = Place(s, r, i) /\ s2[i] = s[i]
  BY <1>2, <1>4 DEF Place, Shown
<1>6. \A tail : Replays(tail, s, r) => Replays(tail, s2, r)
  BY <1>4, <1>5 DEF Replays
<1> QED
  BY <1>4, <1>6 DEF s2

\* The end of a thought is placed after all that was shown before it.
LEMMA EndShown ==
    ASSUME NEW s \in Seq(Events), NEW ev \in Events, NEW r \in Nat,
           EndsThought(ev), ev.round < r
    PROVE  LET s2 == Append(s, ev)
               n  == Len(s) + 1
               c  == Cardinality(Shown(s, r))
           IN  /\ Shown(s2, r) = Shown(s, r) \union {n} /\ n \notin Shown(s, r)
               /\ Cardinality(Shown(s2, r)) = c + 1 /\ c \in Nat
               /\ \A i \in Shown(s, r) : Place(s2, r, i) = Place(s, r, i) /\ s2[i] = s[i]
               /\ Place(s2, r, n) = c + ev.round /\ s2[n] = ev
<1> DEFINE s2 == Append(s, ev)
           n  == Len(s) + 1
           c  == Cardinality(Shown(s, r))
<1>1. /\ DOMAIN s2 = 1..n /\ DOMAIN s = 1..Len(s) /\ Len(s) \in Nat /\ n \in Nat
      /\ \A i \in DOMAIN s : s2[i] = s[i]
      /\ s2[n] = ev
  OBVIOUS
<1>2. Shown(s, r) \subseteq 1..Len(s) /\ c \in Nat
  BY ShownFinite
<1> HIDE DEF s2
<1>3. Shown(s2, r) = Shown(s, r) \union {n}
  BY <1>1 DEF Shown
<1>4. n \notin Shown(s, r)
  BY <1>1, <1>2
<1>5. /\ Cardinality(Shown(s2, r)) = c + 1
      /\ \A i \in Shown(s, r) : Rank(Shown(s2, r), i) = Rank(Shown(s, r), i)
      /\ Rank(Shown(s2, r), n) = c + 1
  <2> DEFINE S == Shown(s, r)
  <2>1. Len(s) \in Nat /\ S \subseteq 1..Len(s)
    BY <1>1, <1>2
  <2> HIDE DEF S
  <2>2. /\ Cardinality(S \union {Len(s) + 1}) = Cardinality(S) + 1
        /\ \A i \in S : Rank(S \union {Len(s) + 1}, i) = Rank(S, i)
        /\ Rank(S \union {Len(s) + 1}, Len(s) + 1) = Cardinality(S) + 1
    BY <2>1, RankGrows
  <2> QED
    BY <1>3, <2>2 DEF S
<1>6. \A i \in Shown(s, r) : Place(s2, r, i) = Place(s, r, i) /\ s2[i] = s[i]
  BY <1>1, <1>2, <1>5 DEF Place
<1>7. Place(s2, r, n) = c + ev.round
  <2>1. Place(s2, r, n) = (c + 1) + ev.round - 1
    BY <1>1, <1>5 DEF Place
  <2>2. ev.round \in Nat
    BY DEF Events
  <2> QED
    BY <1>2, <2>1, <2>2
<1> QED
  BY <1>1, <1>2, <1>3, <1>4, <1>5, <1>6, <1>7 DEF s2

\* What was replayed goes on being so when the end of a thought is both shown
\* and kept.
LEMMA ReplayNext ==
    ASSUME NEW s \in Seq(Events), NEW ev \in Events, NEW r \in Nat,
           EndsThought(ev), ev.round < r,
           NEW tail \in Seq(Items), Replays(tail, s, r),
           Len(tail) = Cardinality(Shown(s, r)) + ev.round - 1,
           NEW item \in Items, item.kind = "reasoning", item.round = ev.round, item.oi = ev.src
    PROVE  /\ Replays(Append(tail, item), Append(s, ev), r)
           /\ Len(Append(tail, item)) = Cardinality(Shown(Append(s, ev), r)) + ev.round - 1
<1> DEFINE s2 == Append(s, ev)
           n  == Len(s) + 1
           c  == Cardinality(Shown(s, r))
           t2 == Append(tail, item)
<1>1. /\ Shown(s2, r) = Shown(s, r) \union {n} /\ n \notin Shown(s, r)
      /\ Cardinality(Shown(s2, r)) = c + 1 /\ c \in Nat
      /\ \A i \in Shown(s, r) : Place(s2, r, i) = Place(s, r, i) /\ s2[i] = s[i]
      /\ Place(s2, r, n) = c + ev.round /\ s2[n] = ev
  BY EndShown
<1>2. ev.round \in Nat
  BY DEF Events
<1>3. /\ Len(tail) \in Nat /\ DOMAIN tail = 1..Len(tail)
      /\ DOMAIN t2 = 1..(Len(tail) + 1) /\ Len(t2) = Len(tail) + 1
      /\ \A p \in DOMAIN tail : t2[p] = tail[p]
      /\ t2[Len(tail) + 1] = item
  OBVIOUS
<1>4. Len(tail) + 1 = c + ev.round
  BY <1>1, <1>2, <1>3
<1> HIDE DEF s2, t2, c, n
<1>5. ASSUME NEW i \in Shown(s2, r)
      PROVE  LET p == Place(s2, r, i) IN
             /\ p \in DOMAIN t2 /\ t2[p].kind = "reasoning"
             /\ t2[p].round = s2[i].round /\ t2[p].oi = s2[i].src
  <2>1. CASE i \in Shown(s, r)
    <3>1. LET p == Place(s, r, i) IN
          /\ p \in DOMAIN tail /\ tail[p].kind = "reasoning"
          /\ tail[p].round = s[i].round /\ tail[p].oi = s[i].src
      BY <2>1 DEF Replays
    <3>2. Place(s2, r, i) = Place(s, r, i) /\ s2[i] = s[i]
      BY <1>1, <2>1
    <3> QED
      BY <1>3, <3>1, <3>2
  <2>2. CASE i = n
    BY <1>1, <1>3, <1>4, <2>2
  <2> QED
    BY <1>1, <2>1, <2>2
<1>6. ASSUME NEW p \in DOMAIN t2
      PROVE  t2[p] = Nudge \/ \E i \in Shown(s2, r) : p = Place(s2, r, i)
  <2>1. CASE p \in DOMAIN tail
    <3>1. tail[p] = Nudge \/ \E i \in Shown(s, r) : p = Place(s, r, i)
      BY <2>1 DEF Replays
    <3> QED
      BY <1>1, <1>3, <2>1, <3>1
  <2>2. CASE p = Len(tail) + 1
    BY <1>1, <1>4, <2>2
  <2> QED
    BY <1>3, <2>1, <2>2
<1>7. Replays(t2, s2, r)
  BY <1>5, <1>6 DEF Replays
<1>8. Len(t2) = Cardinality(Shown(s2, r)) + ev.round - 1
  <2>1. Len(t2) = c + ev.round
    BY <1>3, <1>4
  <2>2. Cardinality(Shown(s2, r)) = c + 1
    BY <1>1
  <2>3. c + ev.round = (c + 1) + ev.round - 1
    BY <1>1, <1>2
  <2> QED
    BY <2>1, <2>2, <2>3
<1> QED
  BY <1>7, <1>8 DEF s2, t2

LEMMA ReplayNudged ==
    ASSUME NEW tail \in Seq(Items), NEW s, NEW r, Replays(tail, s, r)
    PROVE  Replays(Append(tail, Nudge), s, r)
<1> DEFINE t2 == Append(tail, Nudge)
<1>1. /\ Len(tail) \in Nat /\ DOMAIN tail = 1..Len(tail) /\ DOMAIN t2 = 1..(Len(tail) + 1)
      /\ \A p \in DOMAIN tail : t2[p] = tail[p]
      /\ t2[Len(tail) + 1] = Nudge
  OBVIOUS
<1>2. \A p \in DOMAIN t2 : p \in DOMAIN tail \/ p = Len(tail) + 1
  BY <1>1
<1> HIDE DEF t2
<1>3. \A i \in Shown(s, r) :
          LET p == Place(s, r, i) IN
          /\ p \in DOMAIN t2 /\ t2[p].kind = "reasoning"
          /\ t2[p].round = s[i].round /\ t2[p].oi = s[i].src
  <2>1. \A p \in DOMAIN tail : p \in DOMAIN t2 /\ t2[p] = tail[p]
    BY <1>1
  <2> QED
    BY <2>1 DEF Replays
<1>4. \A p \in DOMAIN t2 : t2[p] = Nudge \/ \E i \in Shown(s, r) : p = Place(s, r, i)
  BY <1>1, <1>2 DEF Replays
<1> QED
  BY <1>3, <1>4 DEF Replays, t2

\* A round of which nothing was shown yet adds nothing to what is replayed.
LEMMA RoundUnshown ==
    ASSUME NEW s \in Seq(Events), NEW r \in Nat,
           \A i \in DOMAIN s : EndsThought(s[i]) => s[i].round < r
    PROVE  /\ Shown(s, r + 1) = Shown(s, r)
           /\ \A tail : Replays(tail, s, r) => Replays(tail, s, r + 1)
<1>1. \A i \in DOMAIN s : s[i].round \in Nat
  <2>1. \A i \in DOMAIN s : s[i] \in Events
    OBVIOUS
  <2> QED
    BY <2>1 DEF Events
<1>2. Shown(s, r + 1) = Shown(s, r)
  BY <1>1 DEF Shown
<1>3. \A i : Place(s, r + 1, i) = Place(s, r, i)
  BY <1>2 DEF Place
<1> QED
  BY <1>2, <1>3 DEF Replays

\* At every moment of a round, the reasoning kept is what was shown.
ReplayInv ==
    /\ \A i \in DOMAIN out : EndsThought(out[i]) => out[i].round <= roundNo
    /\ ReplayIsWhatWasShown
    /\ pc = "open" =>
          /\ Replays(replayTail, out, roundNo + 1)
          /\ Len(replayTail) = Cardinality(Shown(out, roundNo + 1)) + roundNo
    /\ pc \in {"read", "end"} =>
          LET tail == replayTail \o roundReasoning IN
          /\ Replays(tail, out, roundNo + 1)
          /\ Len(tail) = Cardinality(Shown(out, roundNo + 1)) + roundNo - 1

\* Opening a round: what was to be replayed is asked for, and nothing of the
\* new round was shown yet.
LEMMA OpenReplay ==
    ASSUME IInv, ReplyInv, ReplayInv, OpenRound
    PROVE  ReplayInv'
<1>1. /\ pc = "open" /\ roundNo' = roundNo + 1 /\ roundReasoning' = <<>>
      /\ requests' = Append(requests, replayTail) /\ pc' # "open"
      /\ UNCHANGED <<out, replayTail>>
  BY DEF OpenRound, ResetRound, replyVars, IInv, TypeOK
<1>2. /\ roundNo \in Nat /\ requests \in Seq(Seq(Items)) /\ replayTail \in Seq(Items)
      /\ out \in Seq(Events)
  BY PolicyAssumption DEF IInv, TypeOK
<1>3. \A i \in DOMAIN out : EndsThought(out[i]) => out[i].round <= roundNo
  BY DEF ReplayInv
<1>4. \A i \in DOMAIN out :
          EndsThought(out[i]) => out[i].round < roundNo + 1 /\ out[i].round <= roundNo + 1
  <2>1. \A i \in DOMAIN out : out[i] \in Events
    BY <1>2
  <2> QED
    BY <1>2, <1>3, <2>1 DEF Events
<1>5. /\ Replays(replayTail, out, roundNo + 1)
      /\ Len(replayTail) = Cardinality(Shown(out, roundNo + 1)) + roundNo
  BY <1>1 DEF ReplayInv
<1>6. ReplayIsWhatWasShown'
  <2>1. Len(requests) = roundNo
    BY DEF ReplyInv, RequestInv
  <2>2. \A r \in DOMAIN requests' :
          (r \in DOMAIN requests /\ requests'[r] = requests[r])
          \/ (r = roundNo + 1 /\ requests'[r] = replayTail)
    BY <1>1, <1>2, <2>1
  <2>3. roundNo = (roundNo + 1) - 1
    BY <1>2
  <2>4. Len(replayTail) = Cardinality(Shown(out, roundNo + 1)) + (roundNo + 1) - 1
    BY <1>2, <1>5, ShownFinite
  <2> QED
    BY <1>1, <1>5, <2>2, <2>4 DEF ReplayInv, ReplayIsWhatWasShown
<1>7. LET tail == replayTail \o <<>> IN
      /\ Replays(tail, out, roundNo + 2)
      /\ Len(tail) = Cardinality(Shown(out, roundNo + 2)) + (roundNo + 1) - 1
  <2>1. /\ Shown(out, (roundNo + 1) + 1) = Shown(out, roundNo + 1)
        /\ Replays(replayTail, out, (roundNo + 1) + 1)
    <3>1. roundNo + 1 \in Nat
      BY <1>2
    <3> QED
      BY <1>2, <1>4, <1>5, <3>1, RoundUnshown
  <2>2. (roundNo + 1) + 1 = roundNo + 2
    BY <1>2
  <2>3. replayTail \o <<>> = replayTail
    BY <1>2
  <2>4. Cardinality(Shown(out, roundNo + 1)) \in Nat
    <3>1. roundNo + 1 \in Nat
      BY <1>2
    <3> QED
      BY <1>2, <3>1, ShownFinite
  <2> QED
    BY <1>2, <1>5, <2>1, <2>2, <2>3, <2>4
<1>8. (roundNo + 1) + 1 = roundNo + 2
  BY <1>2
<1> QED
  BY <1>1, <1>3, <1>4, <1>6, <1>7, <1>8 DEF ReplayInv

LEMMA ReadReplay ==
    ASSUME IInv, ReplyInv, ReplayInv, Reads
    PROVE  ReplayInv'
<1>1. /\ pc = "read" /\ pc' # "open" /\ UNCHANGED <<roundNo, replayTail, requests>>
  BY DEF Reads, ReadFrame, HearsEnd
<1>2. /\ roundNo \in Nat /\ out \in Seq(Events) /\ requests \in Seq(Seq(Items))
      /\ replayTail \in Seq(Items) /\ roundReasoning \in Seq(Items)
      /\ Len(requests) = roundNo
  BY PolicyAssumption DEF IInv, TypeOK, ReplyInv, RequestInv
<1> DEFINE tail == replayTail \o roundReasoning
<1>3. /\ Replays(tail, out, roundNo + 1)
      /\ Len(tail) = Cardinality(Shown(out, roundNo + 1)) + roundNo - 1
      /\ tail \in Seq(Items)
  BY <1>1, <1>2 DEF ReplayInv
<1>4. CASE UNCHANGED <<out, baseResponse, roundReasoning>>
  BY <1>1, <1>3, <1>4 DEF ReplayInv, ReplayIsWhatWasShown
<1>5. ASSUME NEW ev \in Events, out' = Append(out, ev), ev.round = roundNo,
             \/ ~EndsThought(ev) /\ UNCHANGED roundReasoning
             \/ /\ EndsThought(ev)
                /\ \E item \in Items :
                      /\ item.kind = "reasoning" /\ item.round = roundNo /\ item.oi = ev.src
                      /\ roundReasoning' = Append(roundReasoning, item)
      PROVE  ReplayInv'
  <2>1. \A i \in DOMAIN out' : EndsThought(out'[i]) => out'[i].round <= roundNo
    <3>1. \A i \in DOMAIN out' : (i \in DOMAIN out /\ out'[i] = out[i]) \/ out'[i] = ev
      BY <1>2, <1>5
    <3> QED
      BY <1>2, <1>5, <3>1 DEF ReplayInv
  <2>2. ReplayIsWhatWasShown'
    <3>1. ASSUME NEW r \in DOMAIN requests
          PROVE  /\ Replays(requests[r], out', r)
                 /\ Len(requests[r]) = Cardinality(Shown(out', r)) + r - 1
      <4>1. r \in Nat /\ ~(ev.round < r)
        BY <1>2, <1>5
      <4>2. /\ Shown(out', r) = Shown(out, r)
            /\ Replays(requests[r], out, r) => Replays(requests[r], out', r)
        BY <1>2, <1>5, <4>1, OthersUnshown
      <4> QED
        BY <4>2 DEF ReplayInv, ReplayIsWhatWasShown
    <3> QED
      BY <1>1, <3>1 DEF ReplayIsWhatWasShown
  <2>3. LET t2 == replayTail \o roundReasoning' IN
        /\ Replays(t2, out', roundNo + 1)
        /\ Len(t2) = Cardinality(Shown(out', roundNo + 1)) + roundNo - 1
    <3>1. CASE ~EndsThought(ev)
      <4>1. /\ Shown(out', roundNo + 1) = Shown(out, roundNo + 1)
            /\ Replays(tail, out', roundNo + 1)
        BY <1>2, <1>3, <1>5, <3>1, OthersUnshown
      <4> QED
        BY <1>3, <1>5, <3>1, <4>1
    <3>2. CASE EndsThought(ev)
      <4>1. PICK item \in Items :
              /\ item.kind = "reasoning" /\ item.round = roundNo /\ item.oi = ev.src
              /\ roundReasoning' = Append(roundReasoning, item)
        BY <1>5, <3>2
      <4>2. replayTail \o roundReasoning' = Append(tail, item)
        BY <1>2, <4>1
      <4>3. /\ ev.round < roundNo + 1 /\ roundNo + 1 \in Nat /\ item.round = ev.round
            /\ Len(tail) = Cardinality(Shown(out, roundNo + 1)) + ev.round - 1
        BY <1>2, <1>3, <1>5, <4>1
      <4> HIDE DEF tail
      <4>4. /\ Replays(Append(tail, item), Append(out, ev), roundNo + 1)
            /\ Len(Append(tail, item))
                   = Cardinality(Shown(Append(out, ev), roundNo + 1)) + ev.round - 1
        BY <1>2, <1>3, <1>5, <3>2, <4>1, <4>3, ReplayNext
      <4> QED
        BY <1>5, <4>2, <4>4
    <3> QED
      BY <3>1, <3>2
  <2> QED
    BY <1>1, <2>1, <2>2, <2>3 DEF ReplayInv
<1> QED
  BY <1>4, <1>5 DEF Reads, WritesOfRound

\* The nudge ends what is replayed next; a round that stands is not replayed.
LEMMA ContinueReplay ==
    ASSUME IInv, ReplayInv, Continue \/ Stop
    PROVE  ReplayInv'
<1>1. /\ pc = "end" /\ pc' \in {"open", "flush"} /\ UNCHANGED <<roundNo, out, requests>>
      /\ pc' = "open" => replayTail' = replayTail \o Append(roundReasoning, Nudge)
  BY DEF Continue, Stop, EndRound, NextTail, replyVars
<1>2. /\ roundNo \in Nat /\ out \in Seq(Events)
      /\ replayTail \in Seq(Items) /\ roundReasoning \in Seq(Items)
  BY PolicyAssumption DEF IInv, TypeOK
<1> DEFINE tail == replayTail \o roundReasoning
<1>3. /\ Replays(tail, out, roundNo + 1)
      /\ Len(tail) = Cardinality(Shown(out, roundNo + 1)) + roundNo - 1
      /\ tail \in Seq(Items)
  BY <1>1, <1>2 DEF ReplayInv
<1>4. replayTail \o Append(roundReasoning, Nudge) = Append(tail, Nudge)
  BY <1>2, NudgeTyped
<1>5. Len(Append(tail, Nudge)) = Len(tail) + 1 /\ Len(tail) \in Nat
  BY <1>3
<1> HIDE DEF tail
<1>6. Replays(Append(tail, Nudge), out, roundNo + 1)
  BY <1>3, ReplayNudged
<1>7. Len(tail) + 1 = Cardinality(Shown(out, roundNo + 1)) + roundNo
  <2>1. roundNo + 1 \in Nat
    BY <1>2
  <2>2. Cardinality(Shown(out, roundNo + 1)) \in Nat
    BY <1>2, <2>1, ShownFinite
  <2> QED
    BY <1>2, <1>3, <2>2
<1>8. pc' = "open" =>
        /\ Replays(replayTail', out, roundNo + 1)
        /\ Len(replayTail') = Cardinality(Shown(out, roundNo + 1)) + roundNo
  BY <1>1, <1>4, <1>5, <1>6, <1>7
<1>9. pc' \notin {"read", "end"}
  BY <1>1
<1> QED
  BY <1>1, <1>8, <1>9 DEF ReplayInv, ReplayIsWhatWasShown

LEMMA EndReplay ==
    ASSUME IInv, ReplyInv, ReplayInv, EndFrame, WritesOne,
           pc' \in {"flush", "marker", "returned"}
    PROVE  ReplayInv'
<1>1. PICK ev \in Events : ev.part # "thought" /\ out' = Append(out, ev)
  BY DEF WritesOne
<1>2. out \in Seq(Events) /\ requests \in Seq(Seq(Items)) /\ ~EndsThought(ev)
  BY <1>1 DEF IInv, TypeOK, EndsThought
<1>3. \A i \in DOMAIN out' : EndsThought(out'[i]) => out'[i].round <= roundNo
  <2>1. \A i \in DOMAIN out' : (i \in DOMAIN out /\ out'[i] = out[i]) \/ out'[i] = ev
    BY <1>1, <1>2
  <2> QED
    BY <1>2, <2>1 DEF ReplayInv
<1>4. ASSUME NEW r \in DOMAIN requests
      PROVE  /\ Replays(requests[r], out', r)
             /\ Len(requests[r]) = Cardinality(Shown(out', r)) + r - 1
  <2>1. r \in Nat
    BY <1>2
  <2>2. /\ Shown(out', r) = Shown(out, r)
        /\ Replays(requests[r], out, r) => Replays(requests[r], out', r)
    BY <1>1, <1>2, <2>1, OthersUnshown
  <2> QED
    BY <2>2 DEF ReplayInv, ReplayIsWhatWasShown
<1> QED
  BY <1>3, <1>4 DEF ReplayInv, ReplayIsWhatWasShown, EndFrame

LEMMA InitReplay == Init => ReplayInv
<1> SUFFICES ASSUME Init PROVE ReplayInv
  OBVIOUS
<1>1. pc = "open" /\ roundNo = 0 /\ out = <<>> /\ requests = <<>> /\ replayTail = <<>>
  BY DEF Init
<1>2. Shown(out, roundNo + 1) = {}
  BY <1>1 DEF Shown
<1>3. Cardinality(Shown(out, roundNo + 1)) = 0
  BY <1>2, FS_EmptySet
<1> QED
  BY <1>1, <1>2, <1>3 DEF ReplayInv, ReplayIsWhatWasShown, Replays

-----------------------------------------------------------------------------
(* The theorems.                                                            *)

LEMMA NextReplay == ASSUME IInv, ReplyInv, ReplayInv, [Next]_vars PROVE ReplayInv'
<1>1. ASSUME Handler PROVE ReplayInv'
  BY <1>1, OpenReplay, UpstreamReads, ReadReplay, ContinueReplay, EndingWrites, EndReplay
  DEF Handler
<1>2. ASSUME ClientLeaves \/ UNCHANGED vars PROVE ReplayInv'
  <2>1. UNCHANGED <<pc, roundNo, out, requests, replayTail, roundReasoning>>
    BY <1>2 DEF ClientLeaves, vars, roundVars
  <2> QED
    BY <2>1 DEF ReplayInv, ReplayIsWhatWasShown
<1> QED
  BY <1>1, <1>2, UpstreamReads, ReadReplay DEF Next, Returned

LEMMA NextReply == ASSUME IInv, ClientInv, ReplyInv, [Next]_vars PROVE ReplyInv'
<1>1. ASSUME Handler PROVE ReplyInv'
  BY <1>1, OpenReply, UpstreamReads, ReadReply, ContinueReply, FlushReply, WriteReply, DoneReply
  DEF Handler
<1> QED
  BY <1>1, UpstreamReads, ReadReply, IdleReply DEF Next, Returned

LEMMA ReplyHolds == Spec => [](IInv /\ ClientInv /\ ReplyInv /\ ReplayInv)
<1>1. Init => ReplyInv /\ ReplayInv
  BY InitReply, InitReplay
<1>2. IInv /\ ClientInv /\ ReplyInv /\ ReplayInv /\ [Next]_vars => (ReplyInv /\ ReplayInv)'
  BY NextReply, NextReplay
<1> QED
  BY InvariantsHold, <1>1, <1>2, PTL DEF Spec

\* Whichever round ends the fold, the response that the terminal event names is
\* the one that was announced to the client: only round 1's response.created is
\* forwarded, and its response is remembered (processEvent, terminalEvent,
\* incompleteEvent).
THEOREM OneIdentity == Spec => []IdentityStable
<1>1. ReplyInv => IdentityStable
  BY DEF ReplyInv, IdentityInv, IdentityStable
<1> QED
  BY ReplyHolds, <1>1, PTL

\* The model is only asked again after a round whose listed tokens are those of a
\* truncation in the window, with encrypted reasoning of that round to resume from right
\* before the nudge (shouldContinue, prepareNextRound), for every truncation
\* step, window and limit, and whatever events the upstream sends.
THEOREM NoIdleContinuation == Spec => []ContinuationsWarranted
<1>1. ReplyInv => ContinuationsWarranted
  BY DEF ReplyInv, RequestInv, Resumable, ContinuationsWarranted
<1> QED
  BY ReplyHolds, <1>1, PTL

\* Every round that came to its end is listed once, the reasoning presented as
\* that of one response is the sum over the rounds listed, and the usage presented
\* stays within the sum of what the rounds were billed (endRound, agentUsage,
\* foldMetadata), whatever the numbers are.
THEOREM BillIsCovered == Spec => []BilledCoversReported
<1>1. ReplyInv => BilledCoversReported
  BY DEF ReplyInv
<1> QED
  BY ReplyHolds, <1>1, PTL

\* A completed response says that its last round was truncated if and only if its
\* tokens are those of a truncation, and blames the
\* window only when the tier is above it: shouldContinue and stoppedReason, which
\* decide separately, agree for every configuration.
THEOREM TruncationIsTold == Spec => []TruncationAlwaysReported
<1>1. ReplyInv => TruncationAlwaysReported
  BY DEF ReplyInv
<1> QED
  BY ReplyHolds, <1>1, PTL

\* Every continuation request replays, each in its place and nothing else, the
\* reasoning items whose end the client was shown, with one nudge after each
\* round (processEvent, prepareNextRound): the model resumes from what the client
\* has seen, also when a write failed or the upstream's events come in any order.
THEOREM ReplayIsShown == Spec => []ReplayIsWhatWasShown
<1>1. ReplayInv => ReplayIsWhatWasShown
  BY DEF ReplayInv
<1> QED
  BY ReplyHolds, <1>1, PTL
=============================================================================
