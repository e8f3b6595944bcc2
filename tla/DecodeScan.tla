----------------------------- MODULE DecodeScan -----------------------------
(***************************************************************************)
(* How decode_pipe finds the opcode of a pipe: one pass over the table     *)
(* that keeps the best match so far and its number of fixed bits.  It      *)
(* implements module Decode, where the choice is a single step.            *)
(***************************************************************************)
EXTENDS Isa

CONSTANTS Raws, Pcs

VARIABLES
  raw, pc, slots, outcome,  \* as in Decode
  seen,      \* how many entries of the table the pass has looked at
  best,      \* number of the best match, 0 for none
  best_pop   \* its fixed bits

Abs == INSTANCE Decode WITH
         Opcodes <- Opcodes, Operands <- Operands, Raws <- Raws, Pcs <- Pcs,
         raw <- raw, pc <- pc, slots <- slots, outcome <- outcome

decoded == <<raw, pc, slots, outcome>>
scan    == <<seen, best, best_pop>>
vars    == <<raw, pc, slots, outcome, seen, best, best_pop>>

Init ==
  /\ Abs!Init
  /\ seen = 0
  /\ best = 0
  /\ best_pop = 0

Decoding == Len(slots) < Len(Abs!PipesOf(raw))

\* Mutant: a later match with as many fixed bits replaces an earlier one.
BeatsOrTies(i) ==
  /\ Abs!Matches(raw, Abs!CurrentPipe, i)
  /\ best = 0 \/ Abs!FixedBits(Abs!CurrentPipe, i) >= best_pop

\* Entry i takes the place of the best one so far.
Beats(i) ==
  /\ Abs!Matches(raw, Abs!CurrentPipe, i)
  /\ best = 0 \/ Abs!FixedBits(Abs!CurrentPipe, i) > best_pop

\* One round of the loop over OPCODES.
Consider ==
  /\ Decoding
  /\ seen < Len(Opcodes)
  /\ seen' = seen + 1
  /\ \/ /\ Beats(seen + 1)
        /\ best' = seen + 1
        /\ best_pop' = Abs!FixedBits(Abs!CurrentPipe, seen + 1)
     \/ /\ ~Beats(seen + 1)
        /\ UNCHANGED <<best, best_pop>>
  /\ UNCHANGED decoded

\* The loop is over: the slot of this pipe, and the next pipe starts afresh.
PipeDone ==
  /\ Decoding
  /\ seen = Len(Opcodes)
  /\ slots' = Append(slots, IF best = 0 THEN Abs!NoSlot
                            ELSE Abs!SlotOf(raw, pc, Abs!CurrentPipe, best))
  /\ seen' = 0
  /\ best' = 0
  /\ best_pop' = 0
  /\ UNCHANGED <<raw, pc, outcome>>

Finish == Abs!Finish /\ UNCHANGED scan

Next == Consider \/ PipeDone \/ Finish

Spec == Init /\ [][Next]_vars

-----------------------------------------------------------------------------
(* What the loop keeps true. *)

TypeOK ==
  /\ seen \in 0..Len(Opcodes)
  /\ best \in 0..seen
  /\ best_pop \in Nat

\* After each round the best match is the best of what was seen, and its number
\* of fixed bits belongs to it (the pair best and best_pop of decode_pipe).
BestOfSeen ==
  Decoding =>
    IF best = 0 THEN Abs!NoMatch(raw, Abs!CurrentPipe, seen)
    ELSE /\ Abs!IsBest(raw, Abs!CurrentPipe, best, seen)
         /\ best_pop = Abs!FixedBits(Abs!CurrentPipe, best)

\* The loop decodes what Decode promises: the most specific match of each pipe,
\* the first of the table among equals, and a bundle if one pipe has a match.
DecodesByBestMatch == Abs!Spec
=============================================================================
