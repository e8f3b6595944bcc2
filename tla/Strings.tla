------------------------------- MODULE Strings -------------------------------
(***************************************************************************)
(* What a likely C string is: the heuristic of src/src/strings.rs over the *)
(* bytes that likely_c_string (processor.cpp) reads at an address, and     *)
(* what a string is when a text is read as a whole.                        *)
(*                                                                         *)
(* Bytes are classes: "letter" (alphabetic), "common" (digits, white space *)
(* and frequent punctuation), "odd" (any other printable), "nul", "bad",   *)
(* and "unloaded" for an address that holds no byte.                       *)
(***************************************************************************)
EXTENDS Integers, Sequences, FiniteSets, FiniteSetsExt

CONSTANTS
    STRING_MAX_BYTES,  \* TG_STRING_MAX_BYTES
    MIN_LENGTH,        \* 8 in the code
    MIN_LETTERS,       \* 4
    COMMON_PERCENT     \* 85

ByteClasses == {"letter", "common", "odd", "nul", "bad", "unloaded"}

ASSUME StringLimitsAssumption ==
    /\ {STRING_MAX_BYTES, MIN_LETTERS, COMMON_PERCENT} \subseteq Nat
    /\ MIN_LENGTH \in Nat \ {0}

is_strlit_char(byte) == byte \in {"letter", "common", "odd"}

is_common_strlit_char(byte) == byte \in {"letter", "common"}

(* Mutant: the window has no room for the terminator of the longest string.*)
WindowWithoutNul == STRING_MAX_BYTES

STRING_SCAN_BYTES == STRING_MAX_BYTES + 1

(* Enough letters and common characters in a string. *)
LooksLikeText(bytes) ==
    /\ Cardinality({k \in DOMAIN bytes : bytes[k] = "letter"}) >= MIN_LETTERS
    /\ 100 * Cardinality({k \in DOMAIN bytes : is_common_strlit_char(bytes[k])})
        >= COMMON_PERCENT * Len(bytes)

(* Where the loop over the bytes stops: at a terminator, at the end of the *)
(* bytes, or after STRING_MAX_BYTES of them.                               *)
CountedBytes(bytes) ==
    Min({STRING_MAX_BYTES, Len(bytes)} \cup {k - 1 : k \in {j \in DOMAIN bytes : bytes[j] = "nul"}})

(* The length of the string that the bytes start with, 0 for none. *)
likely_c_string(bytes) ==
    LET len == CountedBytes(bytes)
    IN  IF /\ \A k \in 1 .. len : is_strlit_char(bytes[k])
           /\ len >= MIN_LENGTH
           /\ len < Len(bytes) /\ bytes[len + 1] = "nul"
           /\ LooksLikeText(SubSeq(bytes, 1, len))
        THEN len ELSE 0

(* The bytes read at c: up to the end of the segment; a hole in them makes *)
(* the read fail.                                                          *)
Window(text, c, end) ==
    [k \in 1 .. Min({end - c, STRING_SCAN_BYTES}) |-> text[c + k - 1]]

StringLength(text, c, end) ==
    LET window == Window(text, c, end)
    IN  IF \E k \in DOMAIN window : window[k] = "unloaded" THEN 0 ELSE likely_c_string(window)

-----------------------------------------------------------------------------
(* The reference: texts read as a whole, from a up to b - 1, the terminator*)
(* at b.                                                                   *)

Terminated(text, a, b) == text[b] = "nul" /\ \A k \in a .. b - 1 : is_strlit_char(text[k])

IsCString(text, a, b) ==
    /\ Terminated(text, a, b)
    /\ b - a \in MIN_LENGTH .. STRING_MAX_BYTES
    /\ LooksLikeText([k \in 1 .. b - a |-> text[a + k - 1]])

(* There is no printable byte before a. *)
Begins(text, a) == a - 1 \in DOMAIN text => ~is_strlit_char(text[a - 1])

(* No hole follows within the longest string. *)
Readable(text, a) ==
    \A k \in a .. a + STRING_MAX_BYTES : k \in DOMAIN text => text[k] # "unloaded"
=============================================================================
