----------------------------- MODULE FoldPolicy -----------------------------
(***************************************************************************)
(* The decisions of the Codex fold that depend on no state of their own:   *)
(* when a round counts as truncated, whether to ask the model to continue, *)
(* what reason is reported when it is not asked, and how token usage is    *)
(* accumulated (internal/hitman/fold.go, foldstream.go).                   *)
(*                                                                         *)
(* Data: a pointer or map that may be nil is a sentinel that the code      *)
(* treats alike.  A usage map is the record of the three numbers the code  *)
(* computes with; a nil usage behaves in every function as one whose       *)
(* numbers are 0 and whose reasoning_tokens are absent.  cached_tokens     *)
(* travel with input_tokens and total_tokens is their sum, so both are     *)
(* left out.                                                               *)
(***************************************************************************)
EXTENDS Integers, Sequences

CONSTANTS
    TruncationStep,     \* foldConfig.TruncationStep
    MaxTierN,           \* foldConfig.MaxTierN; 0: no upper limit
    MaxContinue         \* foldConfig.MaxContinue

\* loadConfig replaces a non-positive step and negative limits by defaults.
ASSUME PolicyAssumption ==
    /\ TruncationStep \in Nat \ {0}
    /\ MaxTierN \in Nat
    /\ MaxContinue \in Nat

NoTokens == -1      \* reasoningTokens returned nil
NoTier   == 0       \* tierNWithStep returned nil; a tier is never 0

Usage == [input : Nat, output : Nat, reasoning : Nat \union {NoTokens}]
Bill  == [input : Nat, output : Nat, reasoning : Nat]

NoUsage   == [input |-> 0, output |-> 0, reasoning |-> NoTokens]
ZeroBill  == [input |-> 0, output |-> 0, reasoning |-> 0]

Tokens(u) == IF u.reasoning = NoTokens THEN 0 ELSE u.reasoning

-----------------------------------------------------------------------------
(* A round was truncated when its reasoning tokens are exactly step*n - 2. *)

\* Mutant: any tier that was reached counts as hit exactly.
tierReached(tokens) ==
    IF tokens # NoTokens /\ tokens >= TruncationStep - 2
    THEN (tokens + 2) \div TruncationStep
    ELSE NoTier

tierN(tokens) ==
    IF /\ tokens # NoTokens
       /\ tokens >= TruncationStep - 2
       /\ (tokens + 2) % TruncationStep = 0
    THEN (tokens + 2) \div TruncationStep
    ELSE NoTier

inContinueWindow(n) ==
    /\ n # NoTier
    /\ MaxTierN # 0 => n <= MaxTierN

\* Mutant: the first round is not counted against the limit.
shouldContinueOnceMore(type, tokens, encrypted, roundNo) ==
    /\ type = "completed"
    /\ inContinueWindow(tierN(tokens))
    /\ encrypted
    /\ roundNo <= MaxContinue + 1

\* type: the round's terminal event; encrypted: hasEncryptedContent().
shouldContinue(type, tokens, encrypted, roundNo) ==
    /\ type = "completed"
    /\ inContinueWindow(tierN(tokens))
    /\ encrypted
    /\ roundNo <= MaxContinue

\* Mutant: a truncation outside the window is not a truncation.
stoppedReasonInWindow(type, tokens, encrypted, roundNo) ==
    CASE type # "completed" \/ ~inContinueWindow(tierN(tokens)) -> ""
      [] OTHER -> IF ~encrypted THEN "no_encrypted_content" ELSE "max_continue"

\* The reason the client's metadata and the audit row give; "" is none.
stoppedReason(type, tokens, encrypted, roundNo) ==
    CASE type # "completed" \/ tierN(tokens) = NoTier -> ""
      [] OTHER -> IF ~encrypted THEN "no_encrypted_content"
                  ELSE IF roundNo > MaxContinue THEN "max_continue"
                  ELSE "tier_out_of_window"

-----------------------------------------------------------------------------
(* What was billed over all rounds, and what one response would have cost. *)

sumUsage(acc, u) ==
    [input     |-> acc.input + u.input,
     output    |-> acc.output + u.output,
     reasoning |-> acc.reasoning + Tokens(u)]

\* Mutant: output_tokens already count the reasoning of their round.
answerTokensTwice(final) == final.output

answerTokens(final) ==
    IF final.output > Tokens(final) THEN final.output - Tokens(final) ELSE 0

agentUsage(first, summed, final, flushedFinal) ==
    LET part == IF flushedFinal THEN answerTokens(final) ELSE 0
    IN  [input     |-> first.input,
         output    |-> summed.reasoning + part,
         reasoning |-> summed.reasoning]

=============================================================================
