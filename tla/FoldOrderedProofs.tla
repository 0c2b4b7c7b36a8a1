-------------------------- MODULE FoldOrderedProofs -------------------------
(***************************************************************************)
(* Proofs about the fold of an upstream that follows the documented order  *)
(* of events, for every configuration and bound: each item the client is   *)
(* shown has its place, and the answer reaches it whole.                   *)
(***************************************************************************)
EXTENDS FoldProofs

-----------------------------------------------------------------------------
(* The positions of the items.                                             *)

IsItem(ev) == ev.part \in {"thought", "answer"}

\* The event's index is the position of its item in the final output.
Placed(ev, final) ==
    /\ ev.oi + 1 \in DOMAIN final
    /\ final[ev.oi + 1].round = ev.round /\ final[ev.oi + 1].oi = ev.src

AllPlaced(stream, final) ==
    \A i \in DOMAIN stream : IsItem(stream[i]) => Placed(stream[i], final)

AllFull(final) == \A k \in DOMAIN final : final[k].full

\* Items are announced with the indices 0, 1, ...; those held back are in the
\* buffer in this order, and only the last of all may lack its end.
OrderInv ==
    /\ NextIndex <= MaxIndex + 1
    /\ \A oi \in Indices : kind[oi] # "none" <=> oi # NoIndex /\ oi < NextIndex
    /\ \A h \in DOMAIN heard : heard[h].oi < NextIndex
    /\ \A k \in DOMAIN buffered : buffered[k].item.oi < NextIndex
    /\ \A k, l \in DOMAIN buffered : k < l => buffered[k].item.oi < buffered[l].item.oi
    /\ ItemOpen /\ kind[NextIndex - 1] = "buffered" =>
          buffered # <<>> /\ buffered[Len(buffered)].item.oi = NextIndex - 1
    /\ \A k \in DOMAIN buffered :
          buffered[k].item.full
          \/ (ItemOpen /\ kind[NextIndex - 1] = "buffered" /\ k = Len(buffered))

\* What is held back is of this round, and finished when the round is completed.
HoldInv ==
    pc \in {"read", "end", "flush"} =>
        \A k \in DOMAIN buffered :
            /\ buffered[k].item.oi # NoIndex /\ buffered[k].item.round = roundNo
            /\ terminal = "completed" => buffered[k].item.full

\* The next index is the next position, but for an item that is open.
ThoughtOpen == ItemOpen /\ kind[NextIndex - 1] = "reasoning"

ThinkingInv ==
    /\ dsOI = Len(finalOutput) + IF ThoughtOpen THEN 1 ELSE 0
    /\ ThoughtOpen => oiToDS[NextIndex - 1] = Len(finalOutput)
    /\ \A i \in DOMAIN out : IsItem(out[i]) =>
          \/ Placed(out[i], finalOutput)
          \/ /\ ThoughtOpen /\ out[i].oi = Len(finalOutput)
             /\ out[i].round = roundNo /\ out[i].src = NextIndex - 1

SettledInv == dsOI = Len(finalOutput) /\ AllPlaced(out, finalOutput)

AnsweringInv ==
    /\ dsOI = Len(finalOutput)
    /\ \A i \in DOMAIN out : IsItem(out[i]) =>
          \/ Placed(out[i], finalOutput)
          \/ /\ buffered # <<>> /\ out[i].oi = Len(finalOutput)
             /\ out[i].round = roundNo /\ out[i].src = buffered[1].item.oi

PositionInv ==
    /\ pc = "read" => ThinkingInv /\ AllFull(finalOutput)
    /\ pc = "open" \/ (pc = "end" /\ terminal = "completed") =>
          SettledInv /\ AllFull(finalOutput)
    /\ pc = "flush" /\ terminal = "completed" => AnsweringInv /\ AllFull(finalOutput)
    /\ Completed /\ answer.type = "completed" =>
          AllPlaced(out, answer.output) /\ AllFull(answer.output)

OutputInv == (pc = "read" => OrderInv) /\ HoldInv /\ PositionInv

\* One event heard: what it says of the items announced.
LEMMA HeardGrows ==
    ASSUME TypeOK, NEW type, NEW oi, heard' = Append(heard, [type |-> type, oi |-> oi])
    PROVE  /\ NextIndex \in Nat /\ (ItemOpen => NextIndex >= 1)
           /\ NextIndex' = NextIndex + (IF type = "added" THEN 1 ELSE 0)
           /\ ItemOpen' <=> (type = "added" \/ (type # "done" /\ ItemOpen))
<1> DEFINE n == Len(heard)
<1>1. /\ n \in Nat /\ DOMAIN heard = 1..n /\ DOMAIN heard' = 1..(n + 1)
      /\ \A i \in 1..n : heard'[i] = heard[i]
      /\ heard'[n + 1].type = type
  BY DEF TypeOK
<1> HIDE DEF n
<1>2. Announced \subseteq 1..n
  BY <1>1 DEF Announced
<1>3. Announced' = Announced \union (IF type = "added" THEN {n + 1} ELSE {})
  BY <1>1 DEF Announced
<1>4. IsFiniteSet(Announced) /\ NextIndex \in Nat
      /\ Cardinality(Announced \union {n + 1}) = Cardinality(Announced) + 1
  BY <1>1, <1>2, RankGrows DEF NextIndex
<1>5. NextIndex' = NextIndex + (IF type = "added" THEN 1 ELSE 0)
  <2>1. NextIndex' = Cardinality(Announced')
    BY DEF NextIndex
  <2> QED
    <3>1. CASE type = "added"
      BY <1>3, <1>4, <2>1, <3>1 DEF NextIndex
    <3>2. CASE type # "added"
      <4>1. Announced' = Announced
        BY <1>3, <3>2
      <4> QED
        BY <1>4, <2>1, <3>2, <4>1 DEF NextIndex
    <3> QED
      BY <3>1, <3>2
<1>6. ItemOpen => NextIndex >= 1
  <2> SUFFICES ASSUME ItemOpen PROVE NextIndex # 0
    BY <1>4
  <2>1. Announced # {}
    BY DEF ItemOpen
  <2> QED
    BY <1>4, <2>1, FS_EmptySet DEF NextIndex
<1>7. ItemOpen' <=> (type = "added" \/ (type # "done" /\ ItemOpen))
  <2>1. CASE type = "added"
    <3>1. n + 1 \in Announced'
      BY <1>3, <2>1
    <3>2. \A j \in DOMAIN heard' : heard'[j].type = "done" => j < n + 1
      BY <1>1, <2>1
    <3> QED
      BY <2>1, <3>1, <3>2 DEF ItemOpen
  <2>2. CASE type = "done"
    <3>1. \A i \in Announced' : ~(n + 1 < i)
      BY <1>1, <1>2, <1>3, <2>2
    <3>2. ~ItemOpen'
      BY <1>1, <1>2, <1>3, <2>2 DEF ItemOpen
    <3> QED
      BY <2>2, <3>2
  <2>3. CASE type # "added" /\ type # "done"
    <3>1. Announced' = Announced
      BY <1>3, <2>3
    <3>2. ASSUME NEW i \in Announced
          PROVE  (\A j \in DOMAIN heard' : heard'[j].type = "done" => j < i)
                 <=> (\A j \in DOMAIN heard : heard[j].type = "done" => j < i)
      BY <1>1, <2>3
    <3>3. ItemOpen' <=> ItemOpen
      BY <3>1, <3>2 DEF ItemOpen
    <3> QED
      BY <2>3, <3>3
  <2> QED
    BY <2>1, <2>2, <2>3
<1> QED
  BY <1>4, <1>5, <1>6, <1>7

\* Whatever is appended, it comes after what was there.
LEMMA AppendCases ==
    ASSUME NEW S, NEW s \in Seq(S), NEW e
    PROVE  /\ Len(s) \in Nat /\ DOMAIN s = 1..Len(s)
           /\ DOMAIN Append(s, e) = 1..(Len(s) + 1) /\ Len(Append(s, e)) = Len(s) + 1
           /\ Append(s, e)[Len(s) + 1] = e
           /\ \A i \in DOMAIN s : Append(s, e)[i] = s[i]
           /\ \A i \in DOMAIN Append(s, e) :
                 Append(s, e)[i] = e \/ (i \in DOMAIN s /\ Append(s, e)[i] = s[i])
OBVIOUS

LEMMA EntryTyped ==
    ASSUME TypeOK, NEW k \in DOMAIN buffered
    PROVE  /\ buffered[k] \in Entries /\ buffered[k].item \in Items
           /\ buffered[k].events \in Seq(ItemTypes) \ {<<>>} /\ buffered[k].item.oi \in Int
<1>1. buffered[k] \in Entries
  BY DEF TypeOK
<1>2. buffered[k].item \in Items /\ buffered[k].events \in Seq(ItemTypes) \ {<<>>}
  BY <1>1 DEF Entries
<1>3. buffered[k].item.oi \in Indices
  BY <1>2 DEF Items
<1> QED
  BY <1>1, <1>2, <1>3, FoldAssumption DEF Indices, NoIndex

LEMMA HeardTyped ==
    ASSUME TypeOK, NEW h \in DOMAIN heard
    PROVE  heard[h].oi \in Indices /\ heard[h].oi \in Int
<1> DEFINE E == [type : Preambles \union ItemTypes \union Terminals, oi : Indices]
<1>1. heard \in Seq(E)
  BY DEF TypeOK
<1>2. heard[h].oi \in Indices
  <2>1. \A e \in E : e.oi \in Indices
    OBVIOUS
  <2> HIDE DEF E
  <2> QED
    BY <1>1, <2>1
<1> QED
  BY <1>2, FoldAssumption DEF Indices, NoIndex

\* An event heard in order.
LEMMA HeardInOrder ==
    ASSUME Ordered, TypeOK, NEW type, NEW oi \in Indices, Hear(type, oi)
    PROVE  /\ pc = "read" /\ InOrder(type, oi)
           /\ NextIndex \in Nat /\ (ItemOpen => NextIndex >= 1)
           /\ NextIndex' = NextIndex + (IF type = "added" THEN 1 ELSE 0)
           /\ ItemOpen' <=> (type = "added" \/ (type # "done" /\ ItemOpen))
           /\ \A h \in DOMAIN heard' : heard'[h].oi = oi \/ (h \in DOMAIN heard /\ heard'[h] = heard[h])
<1>1. pc = "read" /\ InOrder(type, oi) /\ heard' = Append(heard, [type |-> type, oi |-> oi])
  BY DEF Hear
<1>2. \A h \in DOMAIN heard' : heard'[h].oi = oi \/ (h \in DOMAIN heard /\ heard'[h] = heard[h])
  <2> DEFINE e == [type |-> type, oi |-> oi]
             E == [type : Preambles \union ItemTypes \union Terminals, oi : Indices]
  <2>1. heard \in Seq(E) /\ heard' = Append(heard, e) /\ e.oi = oi
    BY <1>1 DEF TypeOK
  <2> HIDE DEF e, E
  <2>2. \A h \in DOMAIN Append(heard, e) :
            Append(heard, e)[h] = e \/ (h \in DOMAIN heard /\ Append(heard, e)[h] = heard[h])
    BY <2>1, AppendCases
  <2> QED
    BY <2>1, <2>2
<1> QED
  BY <1>1, <1>2, HeardGrows

\* An item is announced: it is the open one, and the last.
LEMMA AddedInOrder ==
    ASSUME Ordered, TypeOK, OrderInv, NEW oi \in Indices, Hear("added", oi),
           NEW k \in {"reasoning", "buffered"}, kind' = [kind EXCEPT ![oi] = k],
           IF k = "reasoning" THEN UNCHANGED buffered
           ELSE \E entry \in Entries : entry.item.oi = oi /\ buffered' = Append(buffered, entry)
    PROVE  /\ OrderInv' /\ oi \in Nat /\ ~ItemOpen /\ ItemOpen' /\ NextIndex' - 1 = oi
           /\ kind'[oi] = k /\ kind[oi] = "none"
           /\ \A i \in DOMAIN buffered : buffered[i].item.full
<1>1. /\ heard # <<>> /\ ~ItemOpen /\ oi = NextIndex /\ NextIndex \in Nat
      /\ NextIndex' = NextIndex + 1 /\ ItemOpen'
      /\ \A h \in DOMAIN heard' : heard'[h].oi = oi \/ (h \in DOMAIN heard /\ heard'[h] = heard[h])
  BY HeardInOrder DEF InOrder
<1>2. oi \in 0..MaxIndex /\ MaxIndex \in Nat
  BY <1>1, FoldAssumption DEF Indices, NoIndex
<1>3. kind \in [Indices -> {"none", "reasoning", "buffered"}] /\ buffered \in Seq(Entries)
  BY DEF TypeOK
<1>4. kind'[oi] = k /\ \A i \in Indices : i # oi => kind'[i] = kind[i]
  BY <1>3
<1>5. \A i \in DOMAIN buffered : buffered[i].item.full
  BY <1>1 DEF OrderInv
<1>6. \A i \in Indices : kind'[i] # "none" <=> i # NoIndex /\ i < NextIndex'
  <2> SUFFICES ASSUME NEW i \in Indices
               PROVE  kind'[i] # "none" <=> i # NoIndex /\ i < NextIndex'
    OBVIOUS
  <2>1. i \in Int
    BY FoldAssumption DEF Indices, NoIndex
  <2>2. CASE i = oi
    BY <1>1, <1>2, <1>4, <2>2 DEF NoIndex
  <2>3. CASE i # oi
    BY <1>1, <1>4, <2>1, <2>3 DEF OrderInv
  <2> QED
    BY <2>2, <2>3
<1>7. \A h \in DOMAIN heard' : heard'[h].oi < NextIndex'
  <2>1. \A h \in DOMAIN heard : heard[h].oi \in Int
    BY HeardTyped
  <2> QED
    BY <1>1, <2>1 DEF OrderInv
<1>8. \A i \in DOMAIN buffered : buffered[i].item.oi \in Int /\ buffered[i].item.oi < NextIndex
  BY EntryTyped DEF OrderInv
<1>9. CASE k = "reasoning"
  <2>1. UNCHANGED buffered
    BY <1>9
  <2>2. ~(kind'[NextIndex' - 1] = "buffered")
    BY <1>1, <1>4, <1>9
  <2>3. OrderInv'
    BY <1>1, <1>2, <1>5, <1>6, <1>7, <1>8, <2>1, <2>2 DEF OrderInv
  <2> QED
    BY <1>1, <1>2, <1>4, <1>5, <2>3 DEF OrderInv, NoIndex
<1>10. CASE k = "buffered"
  <2>1. PICK entry \in Entries : entry.item.oi = oi /\ buffered' = Append(buffered, entry)
    BY <1>10
  <2>2. /\ Len(buffered') = Len(buffered) + 1 /\ buffered' # <<>> /\ Len(buffered) \in Nat
        /\ DOMAIN buffered' = 1..(Len(buffered) + 1) /\ DOMAIN buffered = 1..Len(buffered)
        /\ \A i \in DOMAIN buffered : buffered'[i] = buffered[i]
        /\ buffered'[Len(buffered) + 1].item.oi = oi
    BY <1>3, <2>1
  <2>3. \A i \in DOMAIN buffered' : buffered'[i].item.oi < NextIndex'
    BY <1>1, <1>8, <2>2
  <2>4. \A i, j \in DOMAIN buffered' : i < j => buffered'[i].item.oi < buffered'[j].item.oi
    <3> SUFFICES ASSUME NEW i \in DOMAIN buffered', NEW j \in DOMAIN buffered', i < j
                 PROVE  buffered'[i].item.oi < buffered'[j].item.oi
      OBVIOUS
    <3>1. i \in DOMAIN buffered
      BY <2>2
    <3> QED
      BY <1>1, <1>8, <2>2, <3>1 DEF OrderInv
  <2>5. /\ buffered'[Len(buffered')].item.oi = NextIndex' - 1
        /\ kind'[NextIndex' - 1] = "buffered"
    BY <1>1, <1>4, <1>10, <2>2
  <2>6. \A i \in DOMAIN buffered' : buffered'[i].item.full \/ i = Len(buffered')
    BY <1>5, <2>2
  <2>7. OrderInv'
    BY <1>1, <1>2, <1>6, <1>7, <2>2, <2>3, <2>4, <2>5, <2>6 DEF OrderInv
  <2> QED
    BY <1>1, <1>2, <1>4, <1>5, <2>7 DEF OrderInv, NoIndex
<1> QED
  BY <1>9, <1>10

\* Any other event that leaves what is held as it is: a done one ends a thought.
LEMMA OthersInOrder ==
    ASSUME Ordered, TypeOK, OrderInv, NEW type, NEW oi \in Indices, Hear(type, oi),
           type # "added", oi < NextIndex, UNCHANGED <<kind, buffered>>,
           type = "done" => kind[NextIndex - 1] # "buffered"
    PROVE  OrderInv' /\ NextIndex' = NextIndex /\ (ItemOpen' <=> type # "done" /\ ItemOpen)
<1>1. /\ NextIndex \in Nat /\ NextIndex' = NextIndex
      /\ ItemOpen' <=> (type # "done" /\ ItemOpen)
      /\ \A h \in DOMAIN heard' : heard'[h].oi = oi \/ (h \in DOMAIN heard /\ heard'[h] = heard[h])
  BY HeardInOrder
<1> QED
  BY <1>1 DEF OrderInv

\* An event of the item held last.
LEMMA HeldInOrder ==
    ASSUME Ordered, TypeOK, OrderInv, NEW type \in {"delta", "done"}, NEW oi \in Indices,
           HoldEvent(type, oi)
    PROVE  /\ OrderInv' /\ NextIndex' = NextIndex /\ ItemOpen
           /\ oi = NextIndex - 1 /\ buffered # <<>>
           /\ buffered' = [buffered EXCEPT ![Len(buffered)] = Joined(@, type)]
<1>1. /\ ItemOpen /\ oi = NextIndex - 1 /\ NextIndex \in Nat /\ NextIndex' = NextIndex
      /\ ItemOpen' <=> (type # "done")
      /\ \A h \in DOMAIN heard' : heard'[h].oi = oi \/ (h \in DOMAIN heard /\ heard'[h] = heard[h])
  BY HeardInOrder DEF HoldEvent, InOrder
<1>2. kind[oi] = "buffered" /\ UNCHANGED kind
  BY DEF HoldEvent
<1>3. buffered # <<>> /\ buffered[Len(buffered)].item.oi = oi
  BY <1>1, <1>2 DEF OrderInv
<1>4. buffered \in Seq(Entries) /\ Len(buffered) \in Nat /\ Len(buffered) \in DOMAIN buffered
      /\ DOMAIN buffered = 1..Len(buffered)
  BY <1>3 DEF TypeOK
<1>5. ASSUME NEW j \in DOMAIN buffered, buffered[j].item.oi = oi PROVE j = Len(buffered)
  <2>1. j < Len(buffered) => buffered[j].item.oi < buffered[Len(buffered)].item.oi
    BY <1>4 DEF OrderInv
  <2>2. ~(oi < oi)
    BY <1>1
  <2> QED
    BY <1>3, <1>4, <1>5, <2>1, <2>2
<1>6. (CHOOSE j \in DOMAIN buffered :
          /\ buffered[j].item.oi = oi
          /\ \A k \in DOMAIN buffered : buffered[k].item.oi = oi => j <= k) = Len(buffered)
  <2>1. \A k \in DOMAIN buffered : buffered[k].item.oi = oi => Len(buffered) <= k
    BY <1>4, <1>5
  <2> QED
    BY <1>3, <1>4, <1>5, <2>1
<1>7. buffered' = [buffered EXCEPT ![Len(buffered)] = Joined(@, type)]
  BY <1>6 DEF HoldEvent
<1>8. /\ DOMAIN buffered' = DOMAIN buffered /\ Len(buffered') = Len(buffered) /\ buffered' # <<>>
      /\ \A j \in DOMAIN buffered : buffered'[j].item.oi = buffered[j].item.oi
      /\ \A j \in DOMAIN buffered : j # Len(buffered) => buffered'[j] = buffered[j]
      /\ type = "done" => buffered'[Len(buffered)].item.full
  <2>1. \A j \in DOMAIN buffered : j # Len(buffered) => buffered'[j] = buffered[j]
    BY <1>4, <1>7
  <2>2. buffered'[Len(buffered)] = Joined(buffered[Len(buffered)], type)
    BY <1>4, <1>7
  <2>3. buffered[Len(buffered)].item \in Items
    BY <1>4, EntryTyped
  <2>4. /\ Joined(buffered[Len(buffered)], type).item.oi = buffered[Len(buffered)].item.oi
        /\ type = "done" => Joined(buffered[Len(buffered)], type).item.full
    BY <2>3 DEF Joined, Items
  <2>5. DOMAIN buffered' = DOMAIN buffered
    BY <1>4, <1>7
  <2>6. Len(buffered') = Len(buffered) /\ buffered' # <<>>
    BY <1>3, <1>4, <1>7
  <2> QED
    BY <2>1, <2>2, <2>4, <2>5, <2>6
<1>9. OrderInv'
  <2>1. \A k \in DOMAIN buffered' : buffered'[k].item.full \/ (type # "done" /\ k = Len(buffered'))
    BY <1>8 DEF OrderInv
  <2> QED
    BY <1>1, <1>2, <1>3, <1>8, <2>1 DEF OrderInv
<1> QED
  BY <1>1, <1>3, <1>7, <1>9

\* What is placed stays placed, and an open item's events are placed by its end.
LEMMA PlacedGrows ==
    ASSUME NEW ev \in Events, NEW final \in Seq(Items), NEW item \in Items
    PROVE  /\ Placed(ev, final) => Placed(ev, Append(final, item))
           /\ ev.oi = Len(final) /\ item.round = ev.round /\ item.oi = ev.src
                 => Placed(ev, Append(final, item))
<1>1. ev.oi \in Int
  BY FoldAssumption DEF Events, NoIndex
<1> QED
  BY <1>1, AppendCases DEF Placed

LEMMA FullGrows ==
    ASSUME NEW final \in Seq(Items), NEW item \in Items, AllFull(final), item.full
    PROVE  AllFull(Append(final, item))
BY AppendCases DEF AllFull

\* A step of a round that is read on, or that failed.
LEMMA ReadOutput ==
    ASSUME IInv, ClientInv, pc = "read", UNCHANGED answer, pc' \in {"read", "error", "eof"},
           pc' = "read" => OrderInv' /\ HoldInv' /\ ThinkingInv' /\ AllFull(finalOutput')
    PROVE  OutputInv'
<1>1. ~Told'
  BY DEF ClientInv, SentInv, Told
<1> QED
  BY <1>1 DEF OutputInv, HoldInv, PositionInv, Completed

\* An announcement of the response changes no item.
LEMMA PreambleOutput ==
    ASSUME Ordered, IInv, ClientInv, OutputInv,
           NEW type \in Preambles, ForwardPreamble(type) \/ DropPreamble(type)
    PROVE  OutputInv'
<1>1. /\ Hear(type, NoIndex) /\ pc = "read" /\ pc' \in {"read", "error"}
      /\ UNCHANGED <<answer, roundNo, dsOI, finalOutput, kind, oiToDS, buffered, terminal>>
      /\ out' = out \/ \E ev \in Events : ~IsItem(ev) /\ out' = Append(out, ev)
  <2>1. ASSUME ForwardPreamble(type) PROVE <1>1!:
    <3> DEFINE ev == Event(type, "control", NoIndex, NoIndex)
    <3>1. ev \in Events /\ ev.part = "control"
      BY EventTyped DEF IInv, Event, Indices
    <3>2. /\ Hear(type, NoIndex) /\ pc = "read" /\ Relay(ev)
          /\ UNCHANGED <<answer, roundNo, dsOI, finalOutput, kind, oiToDS, buffered, terminal>>
      BY <2>1 DEF ForwardPreamble, Hear, roundVars
    <3> HIDE DEF ev
    <3>3. /\ pc' \in {"read", "error"} /\ out' = Append(out, Stamped(ev))
          /\ Stamped(ev) \in Events /\ Stamped(ev).part = "control"
      BY <3>1, <3>2, RelayWrites DEF IInv
    <3> QED
      BY <3>2, <3>3 DEF IsItem
  <2>2. ASSUME DropPreamble(type) PROVE <1>1!:
    BY <2>2 DEF DropPreamble, Hear, roundVars, replyVars
  <2> QED
    BY <2>1, <2>2
<1>2. NoIndex \in Indices /\ NoIndex < NextIndex /\ type \notin {"added", "done"}
  BY <1>1, HeardInOrder DEF IInv, Indices, NoIndex, Preambles
<1>3. OrderInv' /\ NextIndex' = NextIndex /\ (ItemOpen' <=> ItemOpen)
  BY <1>1, <1>2, OthersInOrder DEF IInv, OutputInv
<1>4. HoldInv' /\ AllFull(finalOutput')
  BY <1>1 DEF OutputInv, HoldInv, PositionInv, AllFull
<1>5. ThoughtOpen' <=> ThoughtOpen
  BY <1>1, <1>3 DEF ThoughtOpen
<1>6. \A i \in DOMAIN out' : IsItem(out'[i]) => i \in DOMAIN out /\ out'[i] = out[i]
  <2>1. out \in Seq(Events)
    BY DEF IInv, TypeOK
  <2> QED
    BY <1>1, <2>1, AppendCases
<1>7. ThinkingInv'
  BY <1>1, <1>3, <1>5, <1>6 DEF OutputInv, PositionInv, ThinkingInv
<1> QED
  BY <1>1, <1>3, <1>4, <1>7, ReadOutput

\* An event of a thought, with its place.
LEMMA ThoughtTyped ==
    ASSUME TypeOK, NEW type \in ItemTypes, NEW oi \in Indices, NEW ds \in Nat,
           Relay(Event(type, "thought", oi, ds))
    PROVE  /\ pc' \in {"read", "error"}
           /\ \E ev \in Events :
                  /\ out' = Append(out, ev) /\ IsItem(ev)
                  /\ ev.oi = ds /\ ev.src = oi /\ ev.round = roundNo
<1> DEFINE ev == Event(type, "thought", oi, ds)
<1>1. ev \in Events /\ ev.oi = ds /\ ev.src = oi /\ ev.round = roundNo /\ ev.part = "thought"
  BY EventTyped DEF Event
<1>2. Relay(ev)
  OBVIOUS
<1> HIDE DEF ev
<1>3. /\ pc' \in {"read", "error"} /\ out' = Append(out, Stamped(ev)) /\ Stamped(ev) \in Events
      /\ Stamped(ev).part = ev.part /\ Stamped(ev).round = ev.round
      /\ Stamped(ev).src = ev.src /\ Stamped(ev).oi = ev.oi
  BY <1>1, <1>2, RelayWrites
<1> QED
  BY <1>1, <1>3 DEF IsItem

LEMMA AddReasoningOutput ==
    ASSUME Ordered, IInv, ClientInv, OutputInv, NEW oi \in Indices, AddReasoning(oi)
    PROVE  OutputInv'
<1>1. /\ Hear("added", oi) /\ pc = "read" /\ kind' = [kind EXCEPT ![oi] = "reasoning"]
      /\ oiToDS' = [oiToDS EXCEPT ![oi] = dsOI] /\ dsOI' = dsOI + 1
      /\ Relay(Event("added", "thought", oi, dsOI))
      /\ UNCHANGED <<answer, roundNo, finalOutput, buffered, terminal>>
  BY DEF AddReasoning, Hear
<1>2. /\ OrderInv' /\ ~ItemOpen /\ ItemOpen' /\ NextIndex' - 1 = oi
      /\ kind'[oi] = "reasoning"
  BY <1>1, AddedInOrder DEF IInv, OutputInv
<1>3. /\ dsOI = Len(finalOutput) /\ AllPlaced(out, finalOutput) /\ dsOI \in Nat
      /\ finalOutput \in Seq(Items) /\ out \in Seq(Events)
  BY <1>1, <1>2 DEF OutputInv, PositionInv, ThinkingInv, ThoughtOpen, AllPlaced, IInv, TypeOK
<1>4. PICK ev \in Events : /\ out' = Append(out, ev) /\ IsItem(ev)
                           /\ ev.oi = dsOI /\ ev.src = oi /\ ev.round = roundNo
  BY <1>1, <1>3, ThoughtTyped DEF IInv, ItemTypes
<1>5. pc' \in {"read", "error"}
  BY <1>1, <1>3, ThoughtTyped DEF IInv, ItemTypes
<1>6. HoldInv' /\ AllFull(finalOutput')
  BY <1>1 DEF OutputInv, HoldInv, PositionInv, AllFull
<1>7. ThoughtOpen' /\ oiToDS'[NextIndex' - 1] = Len(finalOutput')
  BY <1>1, <1>2, <1>3 DEF ThoughtOpen, IInv, TypeOK
<1>8. \A i \in DOMAIN out' : out'[i] = ev \/ (i \in DOMAIN out /\ out'[i] = out[i])
  BY <1>3, <1>4, AppendCases
<1>9. ThinkingInv'
  BY <1>1, <1>2, <1>3, <1>4, <1>7, <1>8 DEF ThinkingInv, AllPlaced
<1> QED
  BY <1>1, <1>2, <1>5, <1>6, <1>9, ReadOutput

LEMMA AddBufferedOutput ==
    ASSUME Ordered, IInv, ClientInv, OutputInv, NEW oi \in Indices, AddBuffered(oi)
    PROVE  OutputInv'
<1> DEFINE entry == [item |-> Item("message", oi, FALSE, FALSE), events |-> <<"added">>]
<1>1. /\ Hear("added", oi) /\ pc = "read" /\ kind' = [kind EXCEPT ![oi] = "buffered"]
      /\ buffered' = Append(buffered, entry)
      /\ UNCHANGED <<pc, out, answer, roundNo, dsOI, finalOutput, terminal>>
  BY DEF AddBuffered, Hear, replyVars
<1>2. entry \in Entries /\ entry.item.oi = oi /\ entry.item.round = roundNo
  <2>1. entry.item \in Items
    BY ItemTyped DEF IInv
  <2>2. entry.events \in Seq(ItemTypes) \ {<<>>}
    BY DEF ItemTypes
  <2> QED
    BY <2>1, <2>2 DEF Entries, Item
<1> HIDE DEF entry
<1>3. /\ OrderInv' /\ oi \in Nat /\ ~ItemOpen /\ ItemOpen' /\ NextIndex' - 1 = oi
      /\ kind'[oi] = "buffered"
  BY <1>1, <1>2, AddedInOrder DEF IInv, OutputInv
<1>4. terminal = "none"
  BY <1>1 DEF IInv, RoundInv
<1>5. HoldInv'
  <2>1. buffered \in Seq(Entries)
    BY DEF IInv, TypeOK
  <2>2. \A k \in DOMAIN buffered' :
            buffered'[k] = entry \/ (k \in DOMAIN buffered /\ buffered'[k] = buffered[k])
    BY <1>1, <2>1, AppendCases
  <2> QED
    BY <1>1, <1>2, <1>3, <1>4, <2>2 DEF OutputInv, HoldInv, NoIndex
<1>6. ~ThoughtOpen /\ ~ThoughtOpen'
  BY <1>3 DEF ThoughtOpen
<1>7. ThinkingInv' /\ AllFull(finalOutput')
  BY <1>1, <1>6 DEF OutputInv, PositionInv, ThinkingInv, AllFull
<1> QED
  BY <1>1, <1>3, <1>5, <1>7, ReadOutput

\* An event of the thought that is open; its done event puts it in its place.
LEMMA RelayReasoningOutput ==
    ASSUME Ordered, IInv, ClientInv, OutputInv, NEW type \in {"delta", "done"},
           NEW oi \in Indices, NEW enc \in BOOLEAN, RelayReasoning(type, oi, enc)
    PROVE  OutputInv'
<1> DEFINE item == Item("reasoning", oi, TRUE, enc)
<1>1. /\ Hear(type, oi) /\ pc = "read" /\ kind[oi] = "reasoning"
      /\ Relay(Event(type, "thought", oi, oiToDS[oi]))
      /\ IF type = "done" THEN finalOutput' = Append(finalOutput, item)
                          ELSE UNCHANGED finalOutput
      /\ UNCHANGED <<answer, roundNo, dsOI, kind, oiToDS, buffered, terminal>>
  BY DEF RelayReasoning, Hear
<1>2. item \in Items /\ item.full /\ item.round = roundNo /\ item.oi = oi
  <2>1. item \in Items
    BY ItemTyped DEF IInv
  <2> QED
    BY <2>1 DEF Item
<1> HIDE DEF item
<1>3. oi = NextIndex - 1 /\ ItemOpen /\ NextIndex \in Nat
  BY <1>1, HeardInOrder DEF IInv, InOrder
<1>4. OrderInv' /\ NextIndex' = NextIndex /\ (ItemOpen' <=> type # "done")
  BY <1>1, <1>3, OthersInOrder DEF IInv, OutputInv
<1>5. /\ dsOI = Len(finalOutput) + 1 /\ oiToDS[oi] = Len(finalOutput) /\ AllFull(finalOutput)
      /\ \A i \in DOMAIN out : IsItem(out[i]) =>
            \/ Placed(out[i], finalOutput)
            \/ out[i].oi = Len(finalOutput) /\ out[i].round = roundNo /\ out[i].src = oi
  BY <1>1, <1>3 DEF OutputInv, PositionInv, ThinkingInv, ThoughtOpen
<1>6. /\ finalOutput \in Seq(Items) /\ out \in Seq(Events) /\ oiToDS[oi] \in Nat
      /\ Len(finalOutput) \in Nat
  BY DEF IInv, TypeOK
<1>7. pc' \in {"read", "error"}
  BY <1>1, <1>6, ThoughtTyped DEF IInv, ItemTypes
<1>8. PICK ev \in Events : /\ out' = Append(out, ev) /\ IsItem(ev)
                           /\ ev.oi = Len(finalOutput) /\ ev.src = oi /\ ev.round = roundNo
  BY <1>1, <1>5, <1>6, ThoughtTyped DEF IInv, ItemTypes
<1>9. \A i \in DOMAIN out' : out'[i] \in Events /\ (IsItem(out'[i]) =>
            \/ Placed(out'[i], finalOutput)
            \/ out'[i].oi = Len(finalOutput) /\ out'[i].round = roundNo /\ out'[i].src = oi)
  <2>1. \A i \in DOMAIN out' : out'[i] = ev \/ (i \in DOMAIN out /\ out'[i] = out[i])
    BY <1>6, <1>8, AppendCases
  <2>2. \A i \in DOMAIN out : out[i] \in Events
    BY <1>6
  <2> QED
    BY <1>5, <1>8, <2>1, <2>2
<1>10. HoldInv'
  BY <1>1 DEF OutputInv, HoldInv
<1>11. CASE type = "done"
  <2>1. finalOutput' = Append(finalOutput, item) /\ ~ThoughtOpen'
    BY <1>1, <1>4, <1>11 DEF ThoughtOpen
  <2>2. Len(finalOutput') = Len(finalOutput) + 1
    BY <1>6, <2>1
  <2>3. \A i \in DOMAIN out' : IsItem(out'[i]) => Placed(out'[i], finalOutput')
    BY <1>2, <1>6, <1>9, <2>1, PlacedGrows
  <2>4. ThinkingInv' /\ AllFull(finalOutput')
    BY <1>1, <1>2, <1>5, <1>6, <2>1, <2>2, <2>3, FullGrows DEF ThinkingInv
  <2> QED
    BY <1>1, <1>4, <1>7, <1>10, <2>4, ReadOutput
<1>12. CASE type # "done"
  <2>1. UNCHANGED finalOutput /\ ThoughtOpen'
    BY <1>1, <1>3, <1>4, <1>12 DEF ThoughtOpen
  <2>2. ThinkingInv' /\ AllFull(finalOutput')
    BY <1>1, <1>3, <1>4, <1>5, <1>9, <2>1 DEF ThinkingInv
  <2> QED
    BY <1>1, <1>4, <1>7, <1>10, <2>2, ReadOutput
<1> QED
  BY <1>11, <1>12

LEMMA HoldEventOutput ==
    ASSUME Ordered, IInv, ClientInv, OutputInv, NEW type \in {"delta", "done"},
           NEW oi \in Indices, HoldEvent(type, oi)
    PROVE  OutputInv'
<1> DEFINE last == Len(buffered)
<1>1. /\ pc = "read" /\ kind[oi] = "buffered"
      /\ UNCHANGED <<pc, out, answer, roundNo, dsOI, finalOutput, kind, terminal>>
  BY DEF HoldEvent, Hear, replyVars
<1>2. /\ OrderInv /\ OrderInv' /\ NextIndex' = NextIndex /\ oi = NextIndex - 1
      /\ ItemOpen /\ buffered # <<>>
      /\ buffered' = [buffered EXCEPT ![last] = Joined(@, type)]
  BY <1>1, HeldInOrder DEF IInv, OutputInv
<1>3. /\ buffered \in Seq(Entries) /\ last \in DOMAIN buffered /\ last \in Nat
      /\ DOMAIN buffered' = DOMAIN buffered
      /\ \A k \in DOMAIN buffered : k # last => buffered'[k] = buffered[k]
      /\ buffered'[last] = Joined(buffered[last], type)
  <2>1. buffered \in Seq(Entries)
    BY DEF IInv, TypeOK
  <2> QED
    BY <1>2, <2>1
<1>4. terminal = "none"
  BY <1>1 DEF IInv, RoundInv
<1>5. HoldInv'
  <2>1. buffered[last].item \in Items
    BY <1>3, EntryTyped DEF IInv
  <2>2. /\ Joined(buffered[last], type).item.oi = buffered[last].item.oi
        /\ Joined(buffered[last], type).item.round = buffered[last].item.round
    BY <2>1 DEF Joined, Items
  <2>3. \A k \in DOMAIN buffered : /\ buffered[k].item.oi # NoIndex
                                   /\ buffered[k].item.round = roundNo
    BY <1>1 DEF OutputInv, HoldInv
  <2> HIDE DEF last
  <2> QED
    BY <1>1, <1>3, <1>4, <2>2, <2>3 DEF HoldInv
<1>6. ~ThoughtOpen /\ ~ThoughtOpen'
  BY <1>1, <1>2 DEF ThoughtOpen
<1>7. ThinkingInv' /\ AllFull(finalOutput')
  BY <1>1, <1>6 DEF OutputInv, PositionInv, ThinkingInv, AllFull
<1> QED
  BY <1>1, <1>2, <1>5, <1>7, ReadOutput

\* In order, every event of an item is of a known one.
LEMMA NoRawRelay ==
    ASSUME Ordered, IInv, OutputInv, NEW type \in {"delta", "done"},
           NEW oi \in Indices, RelayRaw(type, oi)
    PROVE  FALSE
<1>1. Hear(type, oi) /\ kind[oi] = "none" /\ pc = "read"
  BY DEF RelayRaw, Hear
<1>2. oi = NextIndex - 1 /\ NextIndex >= 1 /\ NextIndex \in Nat
  BY <1>1, HeardInOrder DEF IInv, InOrder
<1> QED
  BY <1>1, <1>2 DEF OutputInv, OrderInv, NoIndex

\* A round is completed when no item is open: what is held is finished.
LEMMA TerminalOutput ==
    ASSUME Ordered, IInv, ClientInv, OutputInv, NEW type \in Terminals, NEW u \in Usages,
           HearTerminal(type, u)
    PROVE  OutputInv'
<1>1. /\ pc = "read" /\ Hear(type, NoIndex) /\ pc' = "end" /\ terminal' = type
      /\ UNCHANGED <<answer, out, roundNo, dsOI, finalOutput, kind, buffered>>
  BY DEF HearTerminal, Hear, replyVars
<1>2. ~Told'
  BY <1>1 DEF ClientInv, SentInv, Told
<1>3. NoIndex \in Indices
  BY DEF Indices
<1>4. type = "completed" => ~ItemOpen
  BY <1>1, <1>3, HeardInOrder DEF IInv, InOrder
<1>5. HoldInv'
  BY <1>1, <1>4 DEF OutputInv, OrderInv, HoldInv
<1>6. type = "completed" => SettledInv' /\ AllFull(finalOutput')
  BY <1>1, <1>4
  DEF OutputInv, PositionInv, ThinkingInv, ThoughtOpen, SettledInv, AllPlaced, AllFull
<1> QED
  BY <1>1, <1>2, <1>5, <1>6 DEF OutputInv, PositionInv, Completed

LEMMA UpstreamOutput ==
    ASSUME Ordered, IInv, ClientInv, OutputInv, Upstream \/ CancelRead
    PROVE  OutputInv'
<1>1. ASSUME EndOfBody \/ FailRead \/ CancelRead PROVE OutputInv'
  <2>1. pc = "read" /\ pc' \in {"eof", "error"} /\ UNCHANGED answer
    BY <1>1 DEF EndOfBody, FailRead, CancelRead
  <2> QED
    BY <2>1, ReadOutput
<1> QED
  BY <1>1, PreambleOutput, AddReasoningOutput, AddBufferedOutput, RelayReasoningOutput,
     HoldEventOutput, NoRawRelay, TerminalOutput DEF Upstream

LEMMA OpenOutput ==
    ASSUME IInv, ClientInv, OutputInv, OpenRound
    PROVE  OutputInv'
<1>1. /\ pc = "open" /\ pc' \in {"read", "rejected", "error"}
      /\ heard' = <<>> /\ buffered' = <<>> /\ kind' = [oi \in Indices |-> "none"]
      /\ UNCHANGED <<out, answer, dsOI, finalOutput>>
  BY DEF OpenRound, ResetRound, replyVars
<1>2. ~Told'
  BY <1>1 DEF ClientInv, SentInv, Told
<1>3. Announced' = {} /\ NextIndex' = 0
  <2>1. Announced' = {}
    BY <1>1 DEF Announced
  <2> QED
    BY <2>1, FS_EmptySet DEF NextIndex
<1>4. ~ItemOpen' /\ ~ThoughtOpen'
  BY <1>3 DEF ItemOpen, ThoughtOpen
<1>5. OrderInv'
  <2>1. \A oi \in Indices : ~(oi # NoIndex /\ oi < 0)
    BY FoldAssumption DEF Indices
  <2> QED
    BY <1>1, <1>3, <1>4, <2>1, FoldAssumption DEF OrderInv
<1>6. HoldInv'
  BY <1>1 DEF HoldInv
<1>7. dsOI = Len(finalOutput) /\ AllPlaced(out, finalOutput) /\ AllFull(finalOutput)
  BY <1>1 DEF OutputInv, PositionInv, SettledInv
<1>8. ThinkingInv' /\ AllFull(finalOutput')
  <2>1. dsOI' = Len(finalOutput') + (IF ThoughtOpen' THEN 1 ELSE 0)
    <3>1. Len(finalOutput) \in Nat
      BY DEF IInv, TypeOK
    <3> QED
      BY <1>1, <1>4, <1>7, <3>1
  <2> QED
    BY <1>1, <1>4, <1>7, <2>1 DEF ThinkingInv, AllPlaced, AllFull
<1> QED
  BY <1>1, <1>2, <1>5, <1>6, <1>8 DEF OutputInv, PositionInv, Completed

LEMMA EndOutput ==
    ASSUME IInv, ClientInv, OutputInv, Continue \/ Stop
    PROVE  OutputInv'
<1>1. /\ pc = "end" /\ pc' \in {"open", "flush"}
      /\ UNCHANGED <<out, answer, roundNo, dsOI, finalOutput, buffered, terminal>>
  BY DEF Continue, Stop, EndRound, roundVars, replyVars
<1>2. pc' = "open" => terminal = "completed"
  BY <1>1 DEF Continue, Stop, shouldContinue
<1>3. ~Told'
  BY <1>1 DEF ClientInv, SentInv, Told
<1>4. HoldInv'
  BY <1>1 DEF OutputInv, HoldInv
<1>5. terminal = "completed"
         => dsOI = Len(finalOutput) /\ AllPlaced(out, finalOutput) /\ AllFull(finalOutput)
  BY <1>1 DEF OutputInv, PositionInv, SettledInv
<1>6. /\ pc' = "open" => SettledInv' /\ AllFull(finalOutput')
      /\ pc' = "flush" /\ terminal' = "completed" => AnsweringInv' /\ AllFull(finalOutput')
  BY <1>1, <1>2, <1>5 DEF SettledInv, AnsweringInv, AllPlaced, AllFull
<1> QED
  BY <1>1, <1>3, <1>4, <1>6 DEF OutputInv, PositionInv, Completed

\* The next held event takes the next index, and its item that place at its end.
LEMMA FlushOutput ==
    ASSUME IInv, ClientInv, OutputInv, Flush
    PROVE  OutputInv'
<1> DEFINE entry == Head(buffered)
           src   == entry.item.oi
           rest  == Tail(entry.events)
           ev    == Event(Head(entry.events), "answer", src, HeldIndex(src))
<1>1. /\ pc = "flush" /\ buffered # <<>> /\ pc' \in {"flush", "marker"}
      /\ UNCHANGED <<answer, roundNo, terminal>>
  BY DEF Flush
<1>2. ~Told'
  BY <1>1 DEF ClientInv, SentInv, Told
<1>3. SUFFICES ASSUME pc' = "flush"
               PROVE  HoldInv' /\ (terminal = "completed" => AnsweringInv' /\ AllFull(finalOutput'))
  BY <1>1, <1>2 DEF OutputInv, HoldInv, PositionInv, Completed
<1>4. /\ buffered \in Seq(Entries) /\ 1 \in DOMAIN buffered /\ entry = buffered[1]
      /\ entry \in Entries /\ entry.item \in Items
      /\ entry.events \in Seq(ItemTypes) /\ entry.events # <<>>
  <2>1. buffered \in Seq(Entries) /\ 1 \in DOMAIN buffered /\ entry = buffered[1]
    BY <1>1 DEF IInv, TypeOK
  <2> QED
    BY <2>1, EntryTyped DEF IInv
<1>5. src # NoIndex /\ entry.item.round = roundNo /\ (terminal = "completed" => entry.item.full)
  BY <1>1, <1>4 DEF OutputInv, HoldInv
<1>6. PICK w \in Events : /\ out' = Append(out, w) /\ IsItem(w)
                          /\ w.oi = dsOI /\ w.src = src /\ w.round = roundNo
  <2>1. ev \in Events /\ ev.part = "answer" /\ ev.src = src /\ ev.round = roundNo /\ ev.oi = dsOI
    <3>1. Head(entry.events) \in ItemTypes
      BY <1>4, HeadTailProperties
    <3> QED
      BY <1>1, <1>5, <3>1, HeldEventTyped DEF Event, HeldIndex
  <2>2. PICK ok \in BOOLEAN : Send(ev, ok)
    BY DEF Flush
  <2> HIDE DEF ev
  <2>3. /\ out' = Append(out, Stamped(ev)) /\ Stamped(ev) \in Events
        /\ Stamped(ev).part = ev.part /\ Stamped(ev).src = ev.src
        /\ Stamped(ev).round = ev.round /\ Stamped(ev).oi = ev.oi
    BY <2>1, <2>2, SendWrites, SendAppends DEF IInv, Stamped, Events
  <2> QED
    BY <2>1, <2>3 DEF IsItem
<1>7. \/ /\ rest # <<>> /\ UNCHANGED <<dsOI, finalOutput>>
         /\ buffered' = <<[entry EXCEPT !.events = rest]>> \o Tail(buffered)
      \/ /\ rest = <<>> /\ buffered' = Tail(buffered)
         /\ dsOI' = dsOI + 1 /\ finalOutput' = Append(finalOutput, entry.item)
  BY <1>1, <1>3 DEF Flush
<1>8. finalOutput \in Seq(Items) /\ out \in Seq(Events) /\ dsOI \in Nat
  BY DEF IInv, TypeOK
<1>9. \A i \in DOMAIN out' : out'[i] = w \/ (i \in DOMAIN out /\ out'[i] = out[i])
  BY <1>6, <1>8, AppendCases
<1>10. terminal = "completed" =>
          /\ dsOI = Len(finalOutput) /\ AllFull(finalOutput)
          /\ \A i \in DOMAIN out' : out'[i] \in Events /\ (IsItem(out'[i]) =>
                \/ Placed(out'[i], finalOutput)
                \/ out'[i].oi = Len(finalOutput) /\ out'[i].round = roundNo /\ out'[i].src = src)
  <2>1. \A i \in DOMAIN out : out[i] \in Events
    BY <1>8
  <2> QED
    BY <1>1, <1>4, <1>6, <1>9, <2>1 DEF OutputInv, PositionInv, AnsweringInv
<1> HIDE DEF ev, src, rest
<1>11. CASE rest # <<>>
  <2> DEFINE e2 == [entry EXCEPT !.events = rest]
  <2>1. e2.item = entry.item
    BY <1>4 DEF Entries
  <2>2. buffered' = <<e2>> \o Tail(buffered) /\ UNCHANGED <<dsOI, finalOutput>>
    BY <1>7, <1>11
  <2> HIDE DEF e2
  <2>3. /\ DOMAIN buffered' = DOMAIN buffered /\ buffered' # <<>> /\ buffered'[1] = e2
        /\ \A k \in DOMAIN buffered : k # 1 => buffered'[k] = buffered[k]
    BY <1>4, <2>2
  <2>4. HoldInv'
    BY <1>1, <1>4, <2>1, <2>3 DEF OutputInv, HoldInv
  <2>5. terminal = "completed" => AnsweringInv' /\ AllFull(finalOutput')
    BY <1>1, <1>10, <2>1, <2>2, <2>3 DEF AnsweringInv, src
  <2> QED
    BY <2>4, <2>5
<1>12. CASE rest = <<>>
  <2>1. /\ buffered' = Tail(buffered)
        /\ dsOI' = dsOI + 1 /\ finalOutput' = Append(finalOutput, entry.item)
    BY <1>7, <1>12
  <2>2. \A k \in DOMAIN buffered' : k + 1 \in DOMAIN buffered /\ buffered'[k] = buffered[k + 1]
    BY <1>1, <1>4, <2>1
  <2>3. HoldInv'
    BY <1>1, <2>2 DEF OutputInv, HoldInv
  <2>4. Len(finalOutput') = Len(finalOutput) + 1
    BY <1>8, <2>1
  <2>5. terminal = "completed" => \A i \in DOMAIN out' : IsItem(out'[i]) => Placed(out'[i], finalOutput')
    BY <1>4, <1>5, <1>8, <1>10, <2>1, PlacedGrows DEF src
  <2>6. terminal = "completed" => AnsweringInv' /\ AllFull(finalOutput')
    BY <1>4, <1>5, <1>8, <1>10, <2>1, <2>4, <2>5, FullGrows DEF AnsweringInv
  <2> QED
    BY <2>3, <2>6
<1> QED
  BY <1>11, <1>12

\* The reply holds the output as it stands; only an upstream's own terminal
\* event says that it is completed.
LEMMA WriteOutput ==
    ASSUME IInv, ClientInv, OutputInv, WriteTerminal \/ WriteIncomplete \/ WriteFailed
    PROVE  OutputInv'
<1>1. PICK reply, ok : /\ reply.type \in Terminals /\ ok \in BOOLEAN /\ SendTerminal(reply, ok)
                       /\ reply.type = "completed" =>
                             /\ pc = "flush" /\ buffered = <<>> /\ terminal = "completed"
                             /\ reply.output = finalOutput
  <2>1. \A id, final, reason :
            /\ Reply(terminal, id, final, reason).type = terminal
            /\ Reply(terminal, id, final, reason).output = finalOutput
            /\ Reply("incomplete", id, final, reason).type = "incomplete"
            /\ EmptyReply("failed").type = "failed"
    BY DEF Reply, EmptyReply
  <2>2. WriteTerminal => terminal \in Terminals
    BY DEF WriteTerminal, IInv, RoundInv, TypeOK
  <2>3. {"incomplete", "failed"} \subseteq Terminals
    BY DEF Terminals
  <2> QED
    BY <2>1, <2>2, <2>3 DEF WriteTerminal, WriteIncomplete, WriteFailed
<1>2. pc' \in {"marker", "returned"} /\ answer' = reply /\ UNCHANGED <<finalOutput, terminal>>
  BY <1>1 DEF WriteTerminal, WriteIncomplete, WriteFailed, SendTerminal, roundVars
<1>3. PICK ev \in Events : ~IsItem(ev) /\ out' = Append(out, ev)
  <2> DEFINE ev == Event(reply.type, "terminal", NoIndex, NoIndex)
  <2>1. ev \in Events /\ ev.part = "terminal" /\ Send(ev, ok)
    BY <1>1, EventTyped DEF IInv, SendTerminal, Event, Indices
  <2> HIDE DEF ev
  <2>2. /\ out' = Append(out, Stamped(ev)) /\ Stamped(ev) \in Events
        /\ Stamped(ev).part = "terminal"
    BY <1>1, <2>1, SendWrites, SendAppends DEF IInv
  <2> QED
    BY <2>2 DEF IsItem
<1>4. \A i \in DOMAIN out' : IsItem(out'[i]) => i \in DOMAIN out /\ out'[i] = out[i]
  <2>1. out \in Seq(Events)
    BY DEF IInv, TypeOK
  <2> QED
    BY <1>3, <2>1, AppendCases
<1>5. answer'.type = "completed" => AllPlaced(out', answer'.output) /\ AllFull(answer'.output)
  <2> SUFFICES ASSUME reply.type = "completed"
               PROVE  AllPlaced(out', finalOutput) /\ AllFull(finalOutput)
    BY <1>1, <1>2
  <2> QED
    BY <1>1, <1>4 DEF OutputInv, PositionInv, AnsweringInv, AllPlaced
<1> QED
  BY <1>2, <1>5 DEF OutputInv, HoldInv, PositionInv

LEMMA DoneOutput ==
    ASSUME IInv, OutputInv, WriteDone
    PROVE  OutputInv'
<1>1. pc' = "returned" /\ UNCHANGED <<answer, terminal>> /\ out' = Append(out, Done)
  BY DEF WriteDone, Emit, roundVars
<1>2. ~IsItem(Done) /\ out \in Seq(Events)
  BY DEF Done, Event, IsItem, IInv, TypeOK
<1>3. \A i \in DOMAIN out' : IsItem(out'[i]) => i \in DOMAIN out /\ out'[i] = out[i]
  BY <1>1, <1>2, AppendCases
<1>4. Completed' = Completed
  BY <1>1 DEF Completed, Told
<1> QED
  BY <1>1, <1>3, <1>4 DEF OutputInv, HoldInv, PositionInv, AllPlaced

LEMMA IdleOutput ==
    ASSUME OutputInv, ClientLeaves \/ UNCHANGED vars
    PROVE  OutputInv'
<1>1. /\ UNCHANGED <<pc, roundNo, dsOI, finalOutput, out, answer, heard>>
      /\ UNCHANGED <<kind, oiToDS, buffered, terminal>>
  BY DEF ClientLeaves, vars, roundVars
<1>2. /\ Announced' = Announced /\ NextIndex' = NextIndex /\ ItemOpen' = ItemOpen
      /\ ThoughtOpen' = ThoughtOpen /\ Completed' = Completed
  BY <1>1 DEF Announced, NextIndex, ItemOpen, ThoughtOpen, Completed, Told
<1>3. (pc = "read" => OrderInv)' /\ HoldInv'
  BY <1>1, <1>2 DEF OutputInv, OrderInv, HoldInv
<1>4. PositionInv'
  BY <1>1, <1>2 DEF OutputInv, PositionInv, ThinkingInv, SettledInv, AnsweringInv,
                    AllPlaced, AllFull
<1> QED
  BY <1>3, <1>4 DEF OutputInv

LEMMA InitOutput == Init => OutputInv
<1> SUFFICES ASSUME Init PROVE OutputInv
  OBVIOUS
<1>1. /\ pc = "open" /\ dsOI = 0 /\ finalOutput = <<>> /\ out = <<>> /\ ~Told
  BY DEF Init, NoAnswer, EmptyReply, Told
<1>2. SettledInv /\ AllFull(finalOutput)
  BY <1>1 DEF SettledInv, AllPlaced, AllFull
<1> QED
  BY <1>1, <1>2 DEF OutputInv, HoldInv, PositionInv, Completed

LEMMA NextOutput ==
    ASSUME Ordered, IInv, ClientInv, OutputInv, [Next]_vars
    PROVE  OutputInv'
<1>1. ASSUME Handler PROVE OutputInv'
  BY <1>1, OpenOutput, UpstreamOutput, EndOutput, FlushOutput, WriteOutput, DoneOutput
  DEF Handler
<1> QED
  BY <1>1, UpstreamOutput, IdleOutput DEF Next, Returned

LEMMA OutputHolds == ASSUME Ordered PROVE Spec => []OutputInv
<1>1. IInv /\ ClientInv /\ OutputInv /\ [Next]_vars => OutputInv'
  BY NextOutput
<1> QED
  BY InvariantsHold, InitOutput, <1>1, PTL DEF Spec

\* When the upstream keeps the documented order, every event of an item that a
\* completed response showed the client carries the position of that item in the
\* response's output, whose items are all finished: the indices handed out while
\* thoughts are relayed (processEvent) and those of the flush (flushCleanStop)
\* agree with the output collected beside them, over any number of rounds.
THEOREM IndexIsPosition == ASSUME Ordered PROVE Spec => []OutputIndexIsPosition
<1>1. OutputInv => OutputIndexIsPosition
  BY DEF OutputInv, PositionInv, OutputIndexIsPosition, AllPlaced, AllFull, Placed, IsItem
<1> QED
  BY OutputHolds, <1>1, PTL

-----------------------------------------------------------------------------
(* The answer of the round that stands.  What is held back is a queue of the *)
(* events heard of the held items, and the flush takes it from its head.     *)

\* The p-th event held, of those S of a round's events, is of this type and item.
HeldAs(S, events, p, type, src) ==
    \E h \in S : Rank(S, h) = p /\ events[h].type = type /\ events[h].oi = src

\* b[k]: how many of the events held come before the k-th entry; a were sent.
Waits(b, queue, a, S, events) ==
    /\ b[1] = a /\ b[Len(queue) + 1] = Cardinality(S)
    /\ \A k \in DOMAIN queue :
          /\ b[k + 1] = b[k] + Len(queue[k].events)
          /\ \A j \in DOMAIN queue[k].events :
                HeldAs(S, events, b[k] + j, queue[k].events[j], queue[k].item.oi)

Queued(queue, a, S, events) ==
    \E b \in [1..(Len(queue) + 1) -> Nat] : Waits(b, queue, a, S, events)

\* Each event of the answer is, in its place, the held one.
Sends(stream, A, round, S, events) ==
    \A i \in A :
        /\ stream[i].round = round
        /\ HeldAs(S, events, Rank(A, i), stream[i].type, stream[i].src)

AnswerInv ==
    /\ pc \in {"open", "read", "end", "eof", "error", "rejected"} => Answers = {}
    /\ pc \in {"read", "end", "flush"} => Queued(buffered, Cardinality(Answers), Held, heard)
    /\ Sends(out, Answers, roundNo, Held, heard)
    /\ Completed => Cardinality(Answers) = Cardinality(Held)

\* One event more: what was held keeps its place.
LEMMA HeldGrows ==
    ASSUME NEW E, NEW events \in Seq(E), NEW e, NEW S, S \subseteq DOMAIN events
    PROVE  LET n  == Len(events) + 1
               e2 == Append(events, e)
           IN  /\ Cardinality(S) \in Nat
               /\ Cardinality(S \union {n}) = Cardinality(S) + 1
               /\ HeldAs(S \union {n}, e2, Cardinality(S) + 1, e.type, e.oi)
               /\ \A p, t, s : HeldAs(S, events, p, t, s) =>
                      HeldAs(S, e2, p, t, s) /\ HeldAs(S \union {n}, e2, p, t, s)
<1> DEFINE n  == Len(events) + 1
           e2 == Append(events, e)
<1>1. Len(events) \in Nat /\ S \subseteq 1..Len(events)
  OBVIOUS
<1>2. /\ Cardinality(S) \in Nat /\ Cardinality(S \union {n}) = Cardinality(S) + 1
      /\ \A i \in S : Rank(S \union {n}, i) = Rank(S, i)
      /\ Rank(S \union {n}, n) = Cardinality(S) + 1
  BY <1>1, RankGrows
<1>3. e2[n] = e /\ \A i \in S : e2[i] = events[i]
  BY <1>1, AppendCases
<1> HIDE DEF n, e2
<1>4. HeldAs(S \union {n}, e2, Cardinality(S) + 1, e.type, e.oi)
  BY <1>2, <1>3 DEF HeldAs
<1>5. ASSUME NEW p, NEW t, NEW s, HeldAs(S, events, p, t, s)
      PROVE  HeldAs(S, e2, p, t, s) /\ HeldAs(S \union {n}, e2, p, t, s)
  BY <1>2, <1>3, <1>5 DEF HeldAs
<1> QED
  BY <1>2, <1>4, <1>5 DEF n, e2

LEMMA Shifts ==
    \A x, y \in Nat :
        (x + y) + 1 = x + (y + 1) /\ x + (y + 1) = (x + 1) + y /\ x + y = (x + 1) + (y - 1)
OBVIOUS

\* The queue holds on when what it holds does.
LEMMA QueueStays ==
    ASSUME NEW queue, NEW a, NEW S, NEW events, NEW S2, NEW events2,
           Queued(queue, a, S, events), Cardinality(S2) = Cardinality(S),
           \A p, t, s : HeldAs(S, events, p, t, s) => HeldAs(S2, events2, p, t, s)
    PROVE  Queued(queue, a, S2, events2)
BY DEF Queued, Waits

\* An event that is held is the last of the queue: in an entry of its own, ...
LEMMA QueueAdds ==
    ASSUME NEW queue \in Seq(Entries), NEW a, NEW S, NEW events, NEW S2, NEW events2,
           NEW entry \in Entries, NEW type, entry.events = <<type>>,
           Queued(queue, a, S, events), Cardinality(S) \in Nat,
           Cardinality(S2) = Cardinality(S) + 1,
           HeldAs(S2, events2, Cardinality(S) + 1, type, entry.item.oi),
           \A p, t, s : HeldAs(S, events, p, t, s) => HeldAs(S2, events2, p, t, s)
    PROVE  Queued(Append(queue, entry), a, S2, events2)
<1> DEFINE L  == Len(queue)
           q2 == Append(queue, entry)
<1>1. PICK b \in [1..(L + 1) -> Nat] : Waits(b, queue, a, S, events)
  BY DEF Queued
<1> DEFINE b2 == [k \in 1..(L + 2) |-> IF k <= L + 1 THEN b[k] ELSE b[L + 1] + 1]
<1>2. /\ L \in Nat /\ DOMAIN queue = 1..L /\ DOMAIN q2 = 1..(L + 1) /\ Len(q2) = L + 1
      /\ q2[L + 1] = entry /\ \A k \in 1..L : q2[k] = queue[k]
  BY AppendCases
<1>3. /\ b2 \in [1..(L + 2) -> Nat] /\ b2[L + 2] = b[L + 1] + 1
      /\ \A k \in 1..(L + 1) : b2[k] = b[k]
  BY <1>2
<1>4. b[1] = a /\ b[L + 1] = Cardinality(S)
  BY <1>1 DEF Waits
<1> HIDE DEF q2, b2, L
<1>5. ASSUME NEW k \in 1..(L + 1)
      PROVE  /\ b2[k + 1] = b2[k] + Len(q2[k].events)
             /\ \A j \in DOMAIN q2[k].events :
                   HeldAs(S2, events2, b2[k] + j, q2[k].events[j], q2[k].item.oi)
  <2>1. CASE k = L + 1
    <3>1. /\ q2[k].events = <<type>> /\ q2[k].item = entry.item
          /\ b2[k + 1] = Cardinality(S) + 1 /\ b2[k] = Cardinality(S)
      BY <1>2, <1>3, <1>4, <2>1
    <3>2. Len(<<type>>) = 1 /\ DOMAIN <<type>> = {1} /\ <<type>>[1] = type
      OBVIOUS
    <3> QED
      BY <3>1, <3>2
  <2>2. CASE k # L + 1
    <3>1. k \in 1..L /\ k \in DOMAIN queue
      BY <1>2, <2>2
    <3>2. q2[k] = queue[k] /\ b2[k] = b[k] /\ b2[k + 1] = b[k + 1]
      BY <1>2, <1>3, <3>1
    <3>3. /\ b[k + 1] = b[k] + Len(queue[k].events)
          /\ \A j \in DOMAIN queue[k].events :
                HeldAs(S, events, b[k] + j, queue[k].events[j], queue[k].item.oi)
      BY <1>1, <3>1 DEF Waits
    <3> QED
      BY <3>2, <3>3
  <2> QED
    BY <2>1, <2>2
<1>6. Waits(b2, q2, a, S2, events2)
  <2>1. b2[1] = a /\ b2[Len(q2) + 1] = Cardinality(S2)
    BY <1>2, <1>3, <1>4
  <2> QED
    BY <1>2, <1>5, <2>1 DEF Waits
<1>7. b2 \in [1..(Len(q2) + 1) -> Nat]
  BY <1>2, <1>3
<1> QED
  BY <1>6, <1>7 DEF Queued, q2

\* ... or in the last entry there is.
LEMMA QueueJoins ==
    ASSUME NEW queue \in Seq(Entries), queue # <<>>,
           NEW a, NEW S, NEW events, NEW S2, NEW events2, NEW type,
           Queued(queue, a, S, events), Cardinality(S) \in Nat,
           Cardinality(S2) = Cardinality(S) + 1,
           HeldAs(S2, events2, Cardinality(S) + 1, type, queue[Len(queue)].item.oi),
           \A p, t, s : HeldAs(S, events, p, t, s) => HeldAs(S2, events2, p, t, s)
    PROVE  Queued([queue EXCEPT ![Len(queue)] = Joined(@, type)], a, S2, events2)
<1> DEFINE L  == Len(queue)
           q2 == [queue EXCEPT ![L] = Joined(@, type)]
<1>1. PICK b \in [1..(L + 1) -> Nat] : Waits(b, queue, a, S, events)
  BY DEF Queued
<1> DEFINE b2 == [b EXCEPT ![L + 1] = @ + 1]
<1>2. /\ L \in Nat /\ L >= 1 /\ DOMAIN queue = 1..L /\ DOMAIN q2 = 1..L /\ Len(q2) = L
      /\ q2[L] = Joined(queue[L], type) /\ \A k \in 1..L : k # L => q2[k] = queue[k]
  OBVIOUS
<1> HIDE DEF q2, L
<1>3. /\ b2 \in [1..(L + 1) -> Nat] /\ b2[L + 1] = b[L + 1] + 1
      /\ \A k \in 1..L : b2[k] = b[k]
  <2>1. L + 1 \in 1..(L + 1) /\ L \in Nat
    BY <1>2
  <2>2. b[L + 1] \in Nat /\ \A k \in 1..L : k \in 1..(L + 1) /\ k # L + 1
    BY <2>1
  <2> QED
    BY <2>1, <2>2
<1>4. b[1] = a /\ b[L + 1] = Cardinality(S)
  BY <1>1 DEF Waits, L
<1>5. /\ queue[L].events \in Seq(ItemTypes) /\ queue[L].item \in Items
  <2>1. L \in DOMAIN queue
    BY <1>2
  <2>2. queue[L] \in Entries
    BY <2>1
  <2> QED
    BY <2>2 DEF Entries
<1>6. /\ q2[L].events = Append(queue[L].events, type)
      /\ q2[L].item.oi = queue[L].item.oi
  <2>1. Joined(queue[L], type).events = Append(queue[L].events, type)
    BY DEF Joined
  <2>2. Joined(queue[L], type).item.oi = queue[L].item.oi
    BY <1>5 DEF Joined, Items
  <2> QED
    BY <1>2, <2>1, <2>2
<1> HIDE DEF b2
<1>7. ASSUME NEW k \in 1..L
      PROVE  /\ b2[k + 1] = b2[k] + Len(q2[k].events)
             /\ \A j \in DOMAIN q2[k].events :
                   HeldAs(S2, events2, b2[k] + j, q2[k].events[j], q2[k].item.oi)
  <2>1. /\ b[k + 1] = b[k] + Len(queue[k].events) /\ b[k] \in Nat
        /\ \A j \in DOMAIN queue[k].events :
              HeldAs(S, events, b[k] + j, queue[k].events[j], queue[k].item.oi)
    <3>1. k \in DOMAIN queue /\ k \in 1..(L + 1)
      BY <1>2
    <3> QED
      BY <1>1, <3>1 DEF Waits
  <2>2. CASE k = L
    <3> DEFINE old == queue[L].events
    <3>1. old \in Seq(ItemTypes) /\ q2[k].events = Append(old, type)
      BY <1>5, <1>6, <2>2
    <3>2. b2[k] = b[k] /\ b2[k + 1] = b[k + 1] + 1 /\ b[k + 1] = b[k] + Len(old)
      BY <1>3, <2>1, <2>2
    <3> HIDE DEF old
    <3>3. /\ Len(old) \in Nat /\ DOMAIN old = 1..Len(old)
          /\ Len(Append(old, type)) = Len(old) + 1
          /\ DOMAIN Append(old, type) = 1..(Len(old) + 1)
          /\ Append(old, type)[Len(old) + 1] = type
          /\ \A j \in DOMAIN old : Append(old, type)[j] = old[j]
      BY <3>1, AppendCases
    <3>4. b[k] + (Len(old) + 1) = Cardinality(S) + 1
      BY <1>4, <2>1, <2>2, <3>2, <3>3
    <3>5. ASSUME NEW j \in DOMAIN q2[k].events
          PROVE  HeldAs(S2, events2, b2[k] + j, q2[k].events[j], q2[k].item.oi)
      <4>1. CASE j = Len(old) + 1
        BY <1>6, <2>2, <3>1, <3>2, <3>3, <3>4, <4>1 DEF L
      <4>2. CASE j # Len(old) + 1
        <5>1. j \in DOMAIN old /\ q2[k].events[j] = old[j]
          BY <3>1, <3>3, <4>2
        <5> QED
          BY <1>6, <2>1, <2>2, <3>2, <5>1 DEF old
      <4> QED
        BY <4>1, <4>2
    <3>6. b2[k + 1] = b2[k] + Len(q2[k].events)
      <4>1. Len(q2[k].events) = Len(old) + 1 /\ Len(old) \in Nat
        BY <3>1, <3>3
      <4>2. b[k] \in Nat
        BY <2>1
      <4>3. b2[k + 1] = (b[k] + Len(old)) + 1
        BY <3>2
      <4>4. b2[k] + Len(q2[k].events) = b[k] + (Len(old) + 1)
        BY <3>2, <4>1
      <4> QED
        BY <4>1, <4>2, <4>3, <4>4, Shifts, Zenon
    <3> QED
      BY <3>5, <3>6
  <2>3. CASE k # L
    <3>1. q2[k] = queue[k] /\ b2[k] = b[k] /\ b2[k + 1] = b[k + 1]
      BY <1>2, <1>3, <2>3
    <3> QED
      BY <2>1, <3>1
  <2> QED
    BY <2>2, <2>3
<1>8. Waits(b2, q2, a, S2, events2)
  <2>1. b2[1] = a /\ b2[Len(q2) + 1] = Cardinality(S2)
    BY <1>2, <1>3, <1>4
  <2> QED
    BY <1>2, <1>7, <2>1 DEF Waits
<1>9. b2 \in [1..(Len(q2) + 1) -> Nat]
  BY <1>2, <1>3
<1> QED
  BY <1>8, <1>9 DEF Queued, q2, L

\* The flush sends the head of the queue, ...
LEMMA QueueHead ==
    ASSUME NEW queue \in Seq(Entries), queue # <<>>, NEW a, NEW S, NEW events,
           Queued(queue, a, S, events)
    PROVE  HeldAs(S, events, a + 1, queue[1].events[1], queue[1].item.oi)
<1>1. PICK b : Waits(b, queue, a, S, events)
  BY DEF Queued
<1>2. 1 \in DOMAIN queue
  OBVIOUS
<1>3. queue[1] \in Entries
  BY <1>2
<1>4. queue[1].events \in Seq(ItemTypes) /\ queue[1].events # <<>>
  BY <1>3 DEF Entries
<1>5. 1 \in DOMAIN queue[1].events
  BY <1>4
<1> QED
  BY <1>1, <1>2, <1>5 DEF Waits

\* ... which then is the next event of its entry, ...
LEMMA QueueTakes ==
    ASSUME NEW queue \in Seq(Entries), queue # <<>>, NEW a \in Nat, NEW S, NEW events,
           Queued(queue, a, S, events),
           NEW entry, entry.item = queue[1].item, entry.events = Tail(queue[1].events)
    PROVE  Queued(<<entry>> \o Tail(queue), a + 1, S, events)
<1> DEFINE L  == Len(queue)
           q2 == <<entry>> \o Tail(queue)
           old == queue[1].events
<1>1. PICK b \in [1..(L + 1) -> Nat] : Waits(b, queue, a, S, events)
  BY DEF Queued
<1>2. /\ L \in Nat /\ L >= 1 /\ DOMAIN queue = 1..L /\ DOMAIN q2 = 1..L /\ Len(q2) = L
      /\ q2[1] = entry /\ \A k \in 1..L : k # 1 => q2[k] = queue[k]
  OBVIOUS
<1>3. old \in Seq(ItemTypes) /\ old # <<>>
  <2>1. queue[1] \in Entries
    BY <1>2
  <2> QED
    BY <2>1 DEF Entries
<1> DEFINE b2 == [b EXCEPT ![1] = @ + 1]
<1>4. b[1] = a /\ b[L + 1] = Cardinality(S)
  BY <1>1 DEF Waits
<1> HIDE DEF q2, L
<1>5. /\ b2 \in [1..(L + 1) -> Nat] /\ b2[1] = a + 1
      /\ \A k \in 1..(L + 1) : k # 1 => b2[k] = b[k]
  <2>1. 1 \in 1..(L + 1) /\ b[1] \in Nat
    BY <1>2
  <2> QED
    BY <1>4, <2>1
<1> HIDE DEF b2
<1>6. /\ Len(old) \in Nat /\ Len(old) >= 1 /\ DOMAIN old = 1..Len(old)
      /\ Len(Tail(old)) = Len(old) - 1
      /\ \A j \in DOMAIN Tail(old) : j + 1 \in DOMAIN old /\ Tail(old)[j] = old[j + 1] /\ j \in Nat
  BY <1>3
<1>7. ASSUME NEW k \in 1..L
      PROVE  /\ b2[k + 1] = b2[k] + Len(q2[k].events)
             /\ \A j \in DOMAIN q2[k].events :
                   HeldAs(S, events, b2[k] + j, q2[k].events[j], q2[k].item.oi)
  <2>1. /\ b[k + 1] = b[k] + Len(queue[k].events)
        /\ \A j \in DOMAIN queue[k].events :
              HeldAs(S, events, b[k] + j, queue[k].events[j], queue[k].item.oi)
    BY <1>1, <1>2 DEF Waits
  <2>2. k + 1 \in 1..(L + 1) /\ k + 1 # 1 /\ b2[k + 1] = b[k + 1]
    BY <1>2, <1>5
  <2>3. CASE k = 1
    <3>1. q2[k].events = Tail(old) /\ q2[k].item.oi = queue[k].item.oi /\ b2[k] = a + 1
      BY <1>2, <1>5, <2>3
    <3>2. b[k + 1] = a + Len(old)
      BY <1>4, <2>1, <2>3
    <3>3. a + Len(old) = (a + 1) + (Len(old) - 1)
      BY <1>6, Shifts
    <3>4. \A j \in DOMAIN Tail(old) : a + (j + 1) = (a + 1) + j
      BY <1>6, Shifts
    <3>5. \A j \in DOMAIN Tail(old) :
              HeldAs(S, events, a + (j + 1), Tail(old)[j], queue[k].item.oi)
      BY <1>4, <1>6, <2>1, <2>3
    <3> HIDE DEF old
    <3> QED
      BY <1>6, <2>2, <3>1, <3>2, <3>3, <3>4, <3>5
  <2>4. CASE k # 1
    <3>1. q2[k] = queue[k] /\ b2[k] = b[k]
      BY <1>2, <1>5, <2>4
    <3> QED
      BY <2>1, <2>2, <3>1
  <2> QED
    BY <2>3, <2>4
<1>8. Waits(b2, q2, a + 1, S, events)
  <2>1. b2[1] = a + 1 /\ b2[Len(q2) + 1] = Cardinality(S)
    BY <1>2, <1>4, <1>5
  <2> QED
    BY <1>2, <1>7, <2>1 DEF Waits
<1>9. b2 \in [1..(Len(q2) + 1) -> Nat]
  BY <1>2, <1>5
<1> QED
  BY <1>8, <1>9 DEF Queued, q2

\* ... or of the next one.
LEMMA QueueDrops ==
    ASSUME NEW queue \in Seq(Entries), queue # <<>>, NEW a, NEW S, NEW events,
           Queued(queue, a, S, events), Tail(queue[1].events) = <<>>
    PROVE  Queued(Tail(queue), a + 1, S, events)
<1> DEFINE L  == Len(queue)
           q2 == Tail(queue)
<1>1. PICK b \in [1..(L + 1) -> Nat] : Waits(b, queue, a, S, events)
  BY DEF Queued
<1>2. /\ L \in Nat /\ L >= 1 /\ DOMAIN queue = 1..L /\ DOMAIN q2 = 1..(L - 1)
      /\ Len(q2) = L - 1 /\ \A k \in 1..(L - 1) : q2[k] = queue[k + 1]
  OBVIOUS
<1>3. Len(queue[1].events) = 1
  <2>1. queue[1] \in Entries
    BY <1>2
  <2>2. queue[1].events \in Seq(ItemTypes) /\ queue[1].events # <<>>
    BY <2>1 DEF Entries
  <2>3. Len(queue[1].events) \in Nat /\ Len(Tail(queue[1].events)) = Len(queue[1].events) - 1
    BY <2>2
  <2>4. Len(Tail(queue[1].events)) = 0
    <3>1. Len(<<>>) = 0
      OBVIOUS
    <3> QED
      BY <3>1, Zenon
  <2> QED
    BY <2>3, <2>4
<1> DEFINE b2 == [k \in 1..L |-> b[k + 1]]
<1>4. b[1] = a /\ b[L + 1] = Cardinality(S) /\ b[1 + 1] = b[1] + 1
  <2>1. 1 \in DOMAIN queue
    BY <1>2
  <2>2. b[1 + 1] = b[1] + Len(queue[1].events)
    BY <1>1, <2>1 DEF Waits
  <2> QED
    BY <1>1, <1>3, <2>2 DEF Waits
<1> HIDE DEF q2, L
<1>5. b2 \in [1..L -> Nat] /\ \A k \in 1..L : b2[k] = b[k + 1]
  BY <1>2
<1> HIDE DEF b2
<1>6. ASSUME NEW k \in 1..(L - 1)
      PROVE  /\ b2[k + 1] = b2[k] + Len(q2[k].events)
             /\ \A j \in DOMAIN q2[k].events :
                   HeldAs(S, events, b2[k] + j, q2[k].events[j], q2[k].item.oi)
  <2>1. k + 1 \in DOMAIN queue /\ k \in 1..L /\ k + 1 \in 1..L
    BY <1>2
  <2>2. /\ b[k + 1 + 1] = b[k + 1] + Len(queue[k + 1].events)
        /\ \A j \in DOMAIN queue[k + 1].events :
              HeldAs(S, events, b[k + 1] + j, queue[k + 1].events[j], queue[k + 1].item.oi)
    BY <1>1, <2>1 DEF Waits
  <2>3. b2[k] = b[k + 1] /\ b2[k + 1] = b[k + 1 + 1] /\ q2[k] = queue[k + 1]
    BY <1>2, <1>5, <2>1
  <2> QED
    BY <2>2, <2>3
<1>7. Waits(b2, q2, a + 1, S, events)
  <2>1. 1 \in 1..L /\ L \in 1..L /\ Len(q2) + 1 = L
    BY <1>2
  <2>2. b2[1] = a + 1 /\ b2[Len(q2) + 1] = Cardinality(S)
    BY <1>4, <1>5, <2>1
  <2> QED
    BY <1>2, <1>6, <2>2 DEF Waits
<1>8. b2 \in [1..(Len(q2) + 1) -> Nat]
  BY <1>2, <1>5
<1> QED
  BY <1>7, <1>8 DEF Queued, q2

LEMMA HeldByState ==
    /\ FinalAnswerWhole
          <=> /\ Completed => Cardinality(Answers) = Cardinality(Held)
              /\ Sends(out, Answers, roundNo, Held, heard)
BY DEF FinalAnswerWhole, Sends, IsHeld, HeldAs

\* How one event heard in order changes what is held.
Hears(type, oi) ==
    /\ heard' = Append(heard, [type |-> type, oi |-> oi])
    /\ \A h \in DOMAIN heard : kind'[heard[h].oi] = kind[heard[h].oi]
    /\ \/ kind'[oi] # "buffered" /\ UNCHANGED buffered
       \/ /\ kind'[oi] = "buffered"
          /\ \E entry \in Entries : /\ entry.events = <<type>> /\ entry.item.oi = oi
                                    /\ buffered' = Append(buffered, entry)
       \/ /\ kind'[oi] = "buffered" /\ buffered # <<>> /\ buffered[Len(buffered)].item.oi = oi
          /\ buffered' = [buffered EXCEPT ![Len(buffered)] = Joined(@, type)]

LEMMA UpstreamHears ==
    ASSUME Ordered, IInv, ClientInv, OutputInv, Upstream \/ CancelRead
    PROVE  \/ pc' \in {"eof", "error"}
           \/ pc' \in {"read", "end"} /\ \E type, oi : oi \in Indices /\ Hears(type, oi)
<1>1. ASSUME NEW t \in Preambles, ForwardPreamble(t) \/ DropPreamble(t)
      PROVE  pc' \in {"read", "error"} /\ Hears(t, NoIndex)
  <2>1. Hear(t, NoIndex) /\ UNCHANGED <<kind, buffered>> /\ pc = "read"
    BY <1>1 DEF ForwardPreamble, DropPreamble, Hear, roundVars
  <2>2. pc' \in {"read", "error"}
    BY <1>1, <2>1 DEF ForwardPreamble, DropPreamble, Relay
  <2>3. kind[NoIndex] = "none"
    BY <2>1 DEF OutputInv, OrderInv, Indices, IInv, TypeOK
  <2> QED
    BY <2>1, <2>2, <2>3 DEF Hears, Hear
<1>2. ASSUME NEW t \in Terminals, NEW u \in Usages, HearTerminal(t, u)
      PROVE  pc' = "end" /\ Hears(t, NoIndex)
  <2>1. Hear(t, NoIndex) /\ UNCHANGED <<kind, buffered>> /\ pc = "read" /\ pc' = "end"
    BY <1>2 DEF HearTerminal, Hear
  <2>2. kind[NoIndex] = "none"
    BY <2>1 DEF OutputInv, OrderInv, Indices, IInv, TypeOK
  <2> QED
    BY <2>1, <2>2 DEF Hears, Hear
<1>3. ASSUME NEW oi \in Indices, AddReasoning(oi) \/ AddBuffered(oi)
      PROVE  pc' \in {"read", "error"} /\ Hears("added", oi)
  <2>1. Hear("added", oi) /\ pc = "read"
    BY <1>3 DEF AddReasoning, AddBuffered, Hear
  <2>2. kind \in [Indices -> {"none", "reasoning", "buffered"}]
    BY DEF IInv, TypeOK
  <2>3. \A h \in DOMAIN heard : heard[h].oi \in Indices /\ heard[h].oi # oi
    <3>1. oi = NextIndex
      BY <2>1, HeardInOrder DEF IInv, InOrder
    <3>2. \A h \in DOMAIN heard : heard[h].oi < NextIndex /\ heard[h].oi \in Int
      BY <2>1, HeardTyped DEF OutputInv, OrderInv, IInv
    <3> QED
      BY <3>1, <3>2, HeardTyped DEF IInv
  <2>4. CASE AddReasoning(oi)
    <3>1. kind' = [kind EXCEPT ![oi] = "reasoning"] /\ UNCHANGED buffered
          /\ pc' \in {"read", "error"}
      BY <2>4 DEF AddReasoning, Relay
    <3> QED
      BY <2>1, <2>2, <2>3, <3>1 DEF Hears, Hear
  <2>5. CASE AddBuffered(oi)
    <3> DEFINE entry == [item |-> Item("message", oi, FALSE, FALSE), events |-> <<"added">>]
    <3>1. kind' = [kind EXCEPT ![oi] = "buffered"] /\ buffered' = Append(buffered, entry)
          /\ pc' = "read"
      BY <2>1, <2>5 DEF AddBuffered
    <3>2. entry \in Entries /\ entry.events = <<"added">> /\ entry.item.oi = oi
      <4>1. entry.item \in Items /\ entry.item.oi = oi
        BY ItemTyped DEF IInv, Item
      <4>2. entry.events \in Seq(ItemTypes) \ {<<>>}
        BY DEF ItemTypes
      <4> QED
        BY <4>1, <4>2 DEF Entries
    <3> HIDE DEF entry
    <3>3. kind'[oi] = "buffered" /\ \A h \in DOMAIN heard : kind'[heard[h].oi] = kind[heard[h].oi]
      BY <2>2, <2>3, <3>1
    <3> QED
      BY <2>1, <3>1, <3>2, <3>3 DEF Hears, Hear
  <2> QED
    BY <1>3, <2>4, <2>5
<1>4. ASSUME NEW t \in {"delta", "done"}, NEW oi \in Indices, NEW enc \in BOOLEAN,
             RelayReasoning(t, oi, enc)
      PROVE  pc' \in {"read", "error"} /\ Hears(t, oi)
  BY <1>4 DEF RelayReasoning, Relay, Hear, Hears
<1>5. ASSUME NEW t \in {"delta", "done"}, NEW oi \in Indices, HoldEvent(t, oi)
      PROVE  pc' = "read" /\ Hears(t, oi)
  <2>1. Hear(t, oi) /\ pc = "read" /\ pc' = "read" /\ kind[oi] = "buffered" /\ UNCHANGED kind
    BY <1>5 DEF HoldEvent, Hear
  <2>2. /\ oi = NextIndex - 1 /\ ItemOpen /\ buffered # <<>>
        /\ buffered' = [buffered EXCEPT ![Len(buffered)] = Joined(@, t)]
    BY <1>5, <2>1, HeldInOrder DEF IInv, OutputInv
  <2>3. buffered[Len(buffered)].item.oi = oi
    BY <2>1, <2>2 DEF OutputInv, OrderInv
  <2> QED
    BY <2>1, <2>2, <2>3 DEF Hears, Hear
<1>6. ASSUME EndOfBody \/ FailRead \/ CancelRead PROVE pc' \in {"eof", "error"}
  BY <1>6 DEF EndOfBody, FailRead, CancelRead
<1>7. NoIndex \in Indices
  BY DEF Indices
<1> QED
  BY <1>1, <1>2, <1>3, <1>4, <1>5, <1>6, <1>7, NoRawRelay DEF Upstream

\* What is heard of a held item joins the end of the queue.
LEMMA QueueHears ==
    ASSUME IInv, NEW type, NEW oi, oi \in Indices, Hears(type, oi), NEW a,
           Queued(buffered, a, Held, heard)
    PROVE  Queued(buffered', a, Held', heard')
<1> DEFINE E == [type : Preambles \union ItemTypes \union Terminals, oi : Indices]
           e == [type |-> type, oi |-> oi]
           n == Len(heard) + 1
<1>1. heard \in Seq(E) /\ heard' = Append(heard, e) /\ e.type = type /\ e.oi = oi
      /\ buffered \in Seq(Entries)
  BY DEF IInv, TypeOK, Hears
<1> HIDE DEF E, e
<1>2. /\ n \notin DOMAIN heard /\ DOMAIN heard' = DOMAIN heard \union {n} /\ heard'[n] = e
      /\ \A h \in DOMAIN heard : heard'[h] = heard[h]
  BY <1>1, AppendCases
<1>3. Held \subseteq DOMAIN heard
  BY DEF Held
<1>4. /\ kind'[oi] # "buffered" => Held' = Held
      /\ kind'[oi] = "buffered" => Held' = Held \union {n}
  BY <1>1, <1>2 DEF Held, Hears
<1>5. /\ Cardinality(Held) \in Nat /\ Cardinality(Held \union {n}) = Cardinality(Held) + 1
      /\ HeldAs(Held \union {n}, heard', Cardinality(Held) + 1, type, oi)
      /\ \A p, t, s : HeldAs(Held, heard, p, t, s) =>
             HeldAs(Held, heard', p, t, s) /\ HeldAs(Held \union {n}, heard', p, t, s)
  BY <1>1, <1>3, HeldGrows
<1>6. CASE kind'[oi] # "buffered"
  <2>1. Held' = Held /\ buffered' = buffered
    BY <1>4, <1>6 DEF Hears
  <2>2. \A p, t, s : HeldAs(Held, heard, p, t, s) => HeldAs(Held', heard', p, t, s)
    BY <1>5, <2>1
  <2> QED
    BY <2>1, <2>2, QueueStays
<1>7. CASE kind'[oi] = "buffered"
  <2>1. Held' = Held \union {n}
    BY <1>4, <1>7
  <2>2. /\ Cardinality(Held) \in Nat /\ Cardinality(Held') = Cardinality(Held) + 1
        /\ HeldAs(Held', heard', Cardinality(Held) + 1, type, oi)
        /\ \A p, t, s : HeldAs(Held, heard, p, t, s) => HeldAs(Held', heard', p, t, s)
    BY <1>5, <2>1
  <2>3. ASSUME NEW entry \in Entries, entry.events = <<type>>, entry.item.oi = oi,
               buffered' = Append(buffered, entry)
        PROVE  Queued(buffered', a, Held', heard')
    BY <1>1, <2>2, <2>3, QueueAdds
  <2>4. ASSUME buffered # <<>>, buffered[Len(buffered)].item.oi = oi,
               buffered' = [buffered EXCEPT ![Len(buffered)] = Joined(@, type)]
        PROVE  Queued(buffered', a, Held', heard')
    BY <1>1, <2>2, <2>4, QueueJoins
  <2> QED
    BY <1>7, <2>3, <2>4 DEF Hears
<1> QED
  BY <1>6, <1>7

LEMMA UpstreamAnswer ==
    ASSUME Ordered, IInv, ClientInv, OutputInv, AnswerInv, Upstream \/ CancelRead
    PROVE  AnswerInv'
<1>1. /\ pc = "read" /\ UNCHANGED answer
      /\ out' = out \/ \E ev \in Events : ev.part # "answer" /\ out' = Append(out, ev)
  <2>1. ASSUME NEW ev \in Events, ev.part \in {"control", "thought"}, Relay(ev)
        PROVE  \E w \in Events : w.part # "answer" /\ out' = Append(out, w)
    <3>1. /\ out' = Append(out, Stamped(ev)) /\ Stamped(ev) \in Events
          /\ Stamped(ev).part = ev.part
      BY <2>1, RelayWrites DEF IInv
    <3> QED
      BY <2>1, <3>1
  <2>2. ASSUME CancelRead PROVE pc = "read" /\ UNCHANGED <<answer, out>>
    BY <2>2 DEF CancelRead, FailRead, replyVars
  <2> QED
    BY <2>1, <2>2, UpstreamWrites DEF RelaysOne, WritesNothing
<1>2. Answers = {} /\ Answers' = {}
  <2>1. out \in Seq(Events) /\ Answers = {}
    BY <1>1 DEF IInv, TypeOK, AnswerInv
  <2>2. \A i \in DOMAIN out' : out'[i].part # "answer" \/ (i \in DOMAIN out /\ out'[i] = out[i])
    BY <1>1, <2>1, AppendCases
  <2> QED
    BY <2>1, <2>2 DEF Answers
<1>3. ~Completed'
  BY <1>1 DEF ClientInv, SentInv, Told, Completed
<1>4. pc' \in {"read", "end"} => Queued(buffered', Cardinality(Answers'), Held', heard')
  <2>1. Queued(buffered, Cardinality(Answers), Held, heard) /\ Answers' = Answers
    BY <1>1, <1>2 DEF AnswerInv
  <2> QED
    BY <2>1, UpstreamHears, QueueHears
<1>5. pc' \in {"read", "end", "eof", "error"}
  BY UpstreamHears
<1> QED
  BY <1>2, <1>3, <1>4, <1>5 DEF AnswerInv, Sends

\* A step that leaves the events and what was heard as they are.
LEMMA AnswerKept ==
    ASSUME AnswerInv, UNCHANGED <<out, roundNo, heard, kind>>,
           \/ ~Completed'
           \/ Completed' = Completed
    PROVE  /\ Answers' = Answers /\ Held' = Held
           /\ Sends(out', Answers', roundNo', Held', heard')
           /\ Completed' => Cardinality(Answers') = Cardinality(Held')
<1>1. Answers' = Answers /\ Held' = Held
  BY DEF Answers, Held
<1> QED
  BY <1>1 DEF AnswerInv

LEMMA RoundAnswer ==
    ASSUME IInv, ClientInv, AnswerInv, OpenRound \/ Continue \/ Stop
    PROVE  AnswerInv'
<1>1. ~Completed'
  BY DEF OpenRound, Continue, Stop, EndRound, ClientInv, SentInv, Told, Completed
<1>2. ASSUME Continue \/ Stop PROVE AnswerInv'
  <2>1. /\ pc = "end" /\ pc' \in {"open", "flush"}
        /\ UNCHANGED <<out, roundNo, heard, kind, buffered>>
    BY <1>2 DEF Continue, Stop, EndRound, roundVars, replyVars
  <2>2. /\ Answers' = Answers /\ Held' = Held
        /\ Sends(out', Answers', roundNo', Held', heard')
    BY <1>1, <2>1, AnswerKept
  <2> QED
    BY <1>1, <2>1, <2>2 DEF AnswerInv
<1>3. ASSUME OpenRound PROVE AnswerInv'
  <2>1. /\ pc = "open" /\ pc' \in {"read", "rejected", "error"}
        /\ heard' = <<>> /\ buffered' = <<>> /\ UNCHANGED out
    BY <1>3 DEF OpenRound, ResetRound, replyVars
  <2>2. Answers' = {} /\ Held' = {}
    BY <2>1 DEF AnswerInv, Answers, Held
  <2>3. Queued(<<>>, 0, {}, <<>>)
    <3> DEFINE b == [k \in 1..1 |-> 0]
    <3>1. b \in [1..(Len(<<>>) + 1) -> Nat] /\ b[1] = 0 /\ Len(<<>>) + 1 = 1
      OBVIOUS
    <3>2. Cardinality({}) = 0 /\ DOMAIN <<>> = {}
      BY FS_EmptySet
    <3> HIDE DEF b
    <3>3. Waits(b, <<>>, 0, {}, <<>>)
      BY <3>1, <3>2 DEF Waits
    <3> QED
      BY <3>1, <3>3 DEF Queued
  <2>4. Cardinality({}) = 0
    BY FS_EmptySet
  <2> QED
    BY <1>1, <2>1, <2>2, <2>3, <2>4 DEF AnswerInv, Sends
<1> QED
  BY <1>2, <1>3

\* The event flushed is the head of the queue, and the answer's next.
LEMMA FlushAnswer ==
    ASSUME IInv, ClientInv, OutputInv, AnswerInv, Flush
    PROVE  AnswerInv'
<1> DEFINE entry == Head(buffered)
           src   == entry.item.oi
           rest  == Tail(entry.events)
           ev    == Event(Head(entry.events), "answer", src, HeldIndex(src))
           n     == Len(out) + 1
           a     == Cardinality(Answers)
<1>1. /\ pc = "flush" /\ buffered # <<>> /\ pc' \in {"flush", "marker"}
      /\ UNCHANGED <<answer, roundNo, kind, heard>>
  BY DEF Flush
<1>2. ~Completed'
  BY <1>1 DEF ClientInv, SentInv, Told, Completed
<1>3. /\ buffered \in Seq(Entries) /\ 1 \in DOMAIN buffered /\ entry = buffered[1]
      /\ entry \in Entries /\ entry.events \in Seq(ItemTypes) /\ entry.events # <<>>
      /\ Head(entry.events) = entry.events[1]
  <2>1. buffered \in Seq(Entries) /\ 1 \in DOMAIN buffered /\ entry = buffered[1]
    BY <1>1 DEF IInv, TypeOK
  <2>2. entry \in Entries /\ entry.events \in Seq(ItemTypes) /\ entry.events # <<>>
    BY <2>1, EntryTyped DEF IInv
  <2> QED
    BY <2>1, <2>2
<1>4. PICK w \in Events : /\ out' = Append(out, w) /\ w.part = "answer" /\ w.round = roundNo
                          /\ w.type = entry.events[1] /\ w.src = src
  <2>1. ev \in Events
    BY <1>1, HeldEventTyped
  <2>2. /\ ev.part = "answer" /\ ev.src = src /\ ev.round = roundNo
        /\ ev.type = entry.events[1]
    BY <1>3 DEF Event
  <2>3. PICK ok \in BOOLEAN : Send(ev, ok)
    BY DEF Flush
  <2> HIDE DEF ev
  <2>4. /\ out' = Append(out, Stamped(ev)) /\ Stamped(ev) \in Events
        /\ Stamped(ev).part = ev.part /\ Stamped(ev).src = ev.src
        /\ Stamped(ev).round = ev.round /\ Stamped(ev).type = ev.type
    BY <2>1, <2>3, SendWrites, SendAppends DEF IInv, Stamped, Events
  <2> QED
    BY <2>2, <2>4
<1>5. out \in Seq(Events) /\ Len(out) \in Nat
  BY DEF IInv, TypeOK
<1>6. /\ DOMAIN out' = DOMAIN out \union {n} /\ n \notin DOMAIN out /\ out'[n] = w
      /\ \A i \in DOMAIN out : out'[i] = out[i]
  BY <1>4, <1>5, AppendCases
<1>7. Answers' = Answers \union {n} /\ Held' = Held
  BY <1>1, <1>4, <1>6 DEF Answers, Held
<1>8. /\ a \in Nat /\ Cardinality(Answers') = a + 1 /\ Rank(Answers', n) = a + 1
      /\ \A i \in Answers : Rank(Answers', i) = Rank(Answers, i)
  <2>1. Answers \subseteq 1..Len(out)
    BY <1>5 DEF Answers
  <2> QED
    BY <1>5, <1>7, <2>1, RankGrows
<1>9. Queued(buffered, a, Held, heard)
  BY <1>1 DEF AnswerInv
<1>10. HeldAs(Held, heard, a + 1, w.type, w.src)
  BY <1>1, <1>3, <1>4, <1>9, QueueHead
<1>11. Sends(out', Answers', roundNo', Held', heard')
  <2>1. \A i \in Answers : i \in DOMAIN out /\ i # n
    BY <1>6 DEF Answers
  <2>2. Sends(out, Answers, roundNo, Held, heard)
    BY DEF AnswerInv
  <2> QED
    BY <1>1, <1>4, <1>6, <1>7, <1>8, <1>10, <2>1, <2>2 DEF Sends
<1>12. pc' = "flush" => Queued(buffered', Cardinality(Answers'), Held', heard')
  <2> SUFFICES ASSUME pc' = "flush" PROVE Queued(buffered', a + 1, Held, heard)
    BY <1>1, <1>7, <1>8
  <2>1. \/ /\ rest # <<>>
           /\ buffered' = <<[entry EXCEPT !.events = rest]>> \o Tail(buffered)
        \/ rest = <<>> /\ buffered' = Tail(buffered)
    BY <1>1 DEF Flush
  <2>2. CASE rest # <<>>
    <3> DEFINE e2 == [entry EXCEPT !.events = rest]
    <3>1. e2.item = buffered[1].item /\ e2.events = Tail(buffered[1].events)
      BY <1>3 DEF Entries
    <3>2. buffered' = <<e2>> \o Tail(buffered)
      BY <2>1, <2>2
    <3> HIDE DEF e2, a
    <3> QED
      BY <1>1, <1>3, <1>8, <1>9, <3>1, <3>2, QueueTakes
  <2>3. CASE rest = <<>>
    <3>1. buffered' = Tail(buffered) /\ Tail(buffered[1].events) = <<>>
      BY <1>3, <2>1, <2>3
    <3> HIDE DEF a
    <3> QED
      BY <1>1, <1>3, <1>9, <3>1, QueueDrops
  <2> QED
    BY <2>2, <2>3
<1> QED
  BY <1>1, <1>2, <1>11, <1>12 DEF AnswerInv

\* When nothing is left of the queue, all that was held was sent.
LEMMA WriteAnswer ==
    ASSUME IInv, AnswerInv, WriteTerminal \/ WriteIncomplete \/ WriteFailed \/ WriteDone
    PROVE  AnswerInv'
<1>1. /\ pc' \in {"marker", "returned"} /\ UNCHANGED <<roundNo, heard, kind, terminal>>
      /\ pc # "flush" => pc \in {"eof", "error", "rejected"} \/ (pc = "marker" /\ UNCHANGED answer)
      /\ pc = "flush" => buffered = <<>>
  BY DEF WriteTerminal, WriteIncomplete, WriteFailed, WriteDone, SendTerminal, roundVars
<1>2. PICK w : w.part # "answer" /\ out' = Append(out, w)
  <2>1. ASSUME NEW type, NEW ok, Send(Event(type, "terminal", NoIndex, NoIndex), ok)
        PROVE  \E w : w.part # "answer" /\ out' = Append(out, w)
    <3>1. Stamped(Event(type, "terminal", NoIndex, NoIndex)).part = "terminal"
      BY DEF Stamped, Event
    <3> QED
      BY <2>1, <3>1 DEF Send, Emit
  <2>2. Done.part # "answer"
    BY DEF Done, Event
  <2> QED
    BY <2>1, <2>2 DEF WriteTerminal, WriteIncomplete, WriteFailed, WriteDone, SendTerminal, Emit
<1>3. Answers' = Answers /\ Held' = Held /\ \A i \in Answers : out'[i] = out[i]
  <2>1. out \in Seq(Events)
    BY DEF IInv, TypeOK
  <2>2. /\ DOMAIN out' = DOMAIN out \union {Len(out) + 1} /\ out'[Len(out) + 1] = w
        /\ \A i \in DOMAIN out : out'[i] = out[i]
    BY <1>2, <2>1, AppendCases
  <2> QED
    BY <1>1, <1>2, <2>2 DEF Answers, Held
<1>4. Sends(out', Answers', roundNo', Held', heard')
  BY <1>1, <1>3 DEF AnswerInv, Sends
<1>5. Completed' => Cardinality(Answers') = Cardinality(Held')
  <2>1. CASE pc = "flush"
    <3>1. PICK b : Waits(b, <<>>, Cardinality(Answers), Held, heard)
      BY <1>1, <2>1 DEF AnswerInv, Queued
    <3>2. Len(<<>>) + 1 = 1
      OBVIOUS
    <3> QED
      BY <1>3, <3>1, <3>2 DEF Waits
  <2>2. CASE pc = "marker" /\ UNCHANGED answer
    <3>1. Completed' = Completed
      BY <1>1, <2>2 DEF Completed, Told
    <3> QED
      BY <1>3, <3>1 DEF AnswerInv
  <2>3. CASE pc \in {"eof", "error", "rejected"}
    BY <1>1, <2>3 DEF IInv, RoundInv, Completed
  <2> QED
    BY <1>1, <2>1, <2>2, <2>3
<1> QED
  BY <1>1, <1>4, <1>5 DEF AnswerInv

LEMMA IdleAnswer ==
    ASSUME AnswerInv, ClientLeaves \/ UNCHANGED vars
    PROVE  AnswerInv'
<1>1. UNCHANGED <<pc, roundNo, out, answer, heard>> /\ UNCHANGED <<kind, buffered, terminal>>
  BY DEF ClientLeaves, vars, roundVars
<1>2. Completed' = Completed
  BY <1>1 DEF Completed, Told
<1>3. /\ Answers' = Answers /\ Held' = Held
      /\ Sends(out', Answers', roundNo', Held', heard')
      /\ Completed' => Cardinality(Answers') = Cardinality(Held')
  BY <1>1, <1>2, AnswerKept
<1> QED
  BY <1>1, <1>3 DEF AnswerInv

LEMMA InitAnswer == Init => AnswerInv
<1> SUFFICES ASSUME Init PROVE AnswerInv
  OBVIOUS
<1>1. pc = "open" /\ out = <<>> /\ ~Completed
  BY DEF Init, NoAnswer, EmptyReply, Told, Completed
<1>2. Answers = {}
  BY <1>1 DEF Answers
<1> QED
  BY <1>1, <1>2 DEF AnswerInv, Sends

LEMMA NextAnswer ==
    ASSUME Ordered, IInv, ClientInv, OutputInv, AnswerInv, [Next]_vars
    PROVE  AnswerInv'
<1>1. ASSUME Handler PROVE AnswerInv'
  BY <1>1, RoundAnswer, UpstreamAnswer, FlushAnswer, WriteAnswer DEF Handler
<1> QED
  BY <1>1, UpstreamAnswer, IdleAnswer DEF Next, Returned

\* When the upstream keeps the documented order, the answer of the round that
\* stands reaches the client whole, in order and once, and nothing of the answers
\* of dropped rounds does: what processEvent holds back is what flushCleanStop
\* sends, however thoughts and held items alternate and wherever a write fails.
THEOREM AnswerIsWhole == ASSUME Ordered PROVE Spec => []FinalAnswerWhole
<1>1. IInv /\ ClientInv /\ OutputInv /\ AnswerInv /\ [Next]_vars => AnswerInv'
  BY NextAnswer
<1>2. AnswerInv => FinalAnswerWhole
  BY HeldByState DEF AnswerInv
<1> QED
  BY InvariantsHold, OutputHolds, InitAnswer, <1>1, <1>2, PTL DEF Spec
=============================================================================
