---------------------------- MODULE Recollection ----------------------------
(***************************************************************************)
(* How recalled memories become part of a prompt (app/memory.py): texts    *)
(* lose the closing tag of the block and are trimmed, when they are stored *)
(* and again when they are shown, and the block takes memories, best       *)
(* first, as long as they fit.  A text is a sequence of pieces: the halves *)
(* of the tag "</recalled_memory>", and any other text.                    *)
(***************************************************************************)
EXTENDS Integers, Sequences

CONSTANTS
  Remembered,  \* what runs may want to remember
  MaxRecalled, \* MEMORY_TOP_K
  Limits,      \* _FIELD_LIMITS, per field
  Suffix,      \* the length of the mark of a trimmed text
  Header,      \* the length of the first line of the block
  Labels,      \* the length of the labels around the texts of one memory
  MaxChars     \* MEMORY_MAX_CHARS

Fields == {"task", "code", "error", "lesson"}
Pieces == {"open", "close", "text"}

ASSUME RecollectionAssumption ==
  /\ Limits \in [Fields -> Nat]
  /\ Remembered \subseteq [kind : {"failure", "fix"}, text : [Fields -> Seq(Pieces)]]
  /\ {Suffix, Header, Labels, MaxChars, MaxRecalled} \subseteq Nat

VARIABLE recalled    \* the memories found, best first, as they were stored

-----------------------------------------------------------------------------
(* _trim.                                                                  *)

Tags(t) == {i \in 1..(Len(t) - 1) : t[i] = "open" /\ t[i + 1] = "close"}

(* replace goes over the text once: what stood around a tag may form the   *)
(* next one.                                                               *)
Without(t) ==    \* of the first so many pieces
  LET rest[i \in 0..Len(t)] ==
        IF i = 0 THEN <<>>
        ELSE IF i \in Tags(t) \/ i - 1 \in Tags(t) THEN rest[i - 1] ELSE Append(rest[i - 1], t[i])
  IN  rest

Mark == [i \in 1..Suffix |-> "text"]

Trim(field, t) ==
  LET untagged == Without(t)[Len(t)]
  IN  IF Len(untagged) <= Limits[field] THEN untagged
      ELSE SubSeq(untagged, 1, Limits[field]) \o Mark

(* _add trims all fields but the workspace and the counters.               *)
Stored(m) == [m EXCEPT !.text = [f \in Fields |-> Trim(f, m.text[f])]]

(* A fix with a lesson shows error and lesson, any other memory its code.  *)
Shown(m) ==
  IF m.kind = "fix" /\ m.text["lesson"] # <<>> THEN {"task", "error", "lesson"}
                                            ELSE {"task", "error", "code"}

Entry(m) ==
  LET length(f) == IF f \in Shown(m) THEN Len(Trim(f, m.text[f])) ELSE 0
  IN  Labels + length("task") + length("code") + length("error") + length("lesson")

FitsBefore(used, entry) == used <= MaxChars    \* slip: looks before it adds

Fits(used, entry) == used + entry <= MaxChars

(* format_memories: stops at the first memory that does not fit.           *)
Take(block, m) ==
  IF block.full \/ ~Fits(block.used, Entry(m)) THEN [block EXCEPT !.full = TRUE]
  ELSE [block EXCEPT !.used = @ + Entry(m), !.entries = @ + 1]

Loop(memories) ==    \* after so many memories
  LET block[i \in 0..Len(memories)] ==
        IF i = 0 THEN [used |-> Header, entries |-> 0, full |-> FALSE]
                 ELSE Take(block[i - 1], memories[i])
  IN  block

FormatMemories(memories) == Loop(memories)[Len(memories)]

(* The lines are joined by line breaks; a block without entries is empty.  *)
BlockLength(memories) ==
  LET block == FormatMemories(memories)
  IN  IF block.entries = 0 THEN 0 ELSE block.used + block.entries

-----------------------------------------------------------------------------
RecollectionInit == recalled = <<>>

AnotherMemory ==
  /\ Len(recalled) < MaxRecalled
  /\ \E m \in Remembered : recalled' = Append(recalled, Stored(m))

RecollectionSpec == RecollectionInit /\ [][AnotherMemory]_recalled

-----------------------------------------------------------------------------
(* Properties.                                                             *)

(* The block exceeds its cap by no more than the line breaks between its   *)
(* parts; it shows the best memories in full, up to the first that does    *)
(* not fit (and none after it, were it short enough); and a text is shown  *)
(* as it was stored, no longer than its limit and the mark, unless it was  *)
(* stored with a tag in it: then it is shown without, and no longer.       *)
(* (format_memories: "Render recalled memories as the size-capped          *)
(* reference block for the prompt.")                                       *)
BlockFits ==
  LET block == FormatMemories(recalled)
      n     == block.entries
  IN  /\ n > 0 => BlockLength(recalled) <= MaxChars + n
      /\ block = [FormatMemories(SubSeq(recalled, 1, n)) EXCEPT !.full = n < Len(recalled)]
      /\ n < Len(recalled) => block.used + Entry(recalled[n + 1]) > MaxChars
      /\ \A i \in DOMAIN recalled : \A f \in Fields :
           LET stored == recalled[i].text[f]
               shown  == Trim(f, stored)
           IN  /\ Len(shown) <= Len(stored) /\ Len(stored) <= Limits[f] + Suffix
               /\ shown = stored \/ Tags(stored) # {}

=============================================================================
