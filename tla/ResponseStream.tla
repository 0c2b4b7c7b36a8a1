--------------------------- MODULE ResponseStream ---------------------------
(***************************************************************************)
(* What a Codex client may rely on when it reads a folded answer, however  *)
(* many upstream rounds produced it: one response.  The model thinks, then *)
(* answers, then one terminal event concludes the response and [DONE]      *)
(* closes the stream.  Events are numbered 0, 1, 2, ... without a gap and  *)
(* nothing that was sent is revised.  Only a client that can no longer be  *)
(* reached is left without a terminal event.                               *)
(***************************************************************************)
EXTENDS Integers, Sequences

VARIABLES
    stream,     \* everything written to the client so far, in order
    phase,      \* "thinking", "answering", "concluded" or "closed"
    lost        \* a write to the client has failed

vars == <<stream, phase, lost>>

Speak(part) == stream' = Append(stream, [part |-> part, seq |-> Len(stream)])

Close ==
    /\ stream' = Append(stream, [part |-> "marker", seq |-> -1])
    /\ phase' = "closed"

Init == stream = <<>> /\ phase = "thinking" /\ lost = FALSE

\* Any write may be the one that finds the client gone, and none finds it back.
MayLose == lost => lost'

Think       == phase = "thinking"  /\ Speak("thought") /\ UNCHANGED phase
BeginAnswer == phase = "thinking"  /\ phase' = "answering" /\ UNCHANGED stream
Answer      == phase = "answering" /\ Speak("answer")  /\ UNCHANGED phase

\* A stream that failed upstream is concluded without an answer.
Conclude ==
    /\ phase \in {"thinking", "answering"}
    /\ Speak("terminal")
    /\ phase' = "concluded"

Finish  == phase = "concluded" /\ Close
Abandon == phase = "answering" /\ lost /\ Close

Next ==
    /\ MayLose
    /\ \/ Think \/ BeginAnswer \/ Answer
       \/ Conclude \/ Finish \/ Abandon

Spec == Init /\ [][Next]_vars

=============================================================================
