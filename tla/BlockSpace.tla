----------------------------- MODULE BlockSpace -----------------------------
(***************************************************************************)
(* What a block array promises to its user, whatever the backend: a row of *)
(* blocks that grows and shrinks at its end. A block keeps its content     *)
(* from the moment it is written until the array shrinks below it; the     *)
(* content of a block the array has just grown is not defined. Slack,      *)
(* physical sizes, truncations and reopenings are not visible here.        *)
(***************************************************************************)
EXTENDS Integers

CONSTANTS
  First,     (* The number of the first block.                             *)
  Limit,     (* No array reaches this block number.                        *)
  Values,    (* The contents of a block.                                   *)
  Data       (* Those the user may write.                                  *)

VARIABLES
  past_end,  (* The number past the last block.                            *)
  content    (* What each block of the array holds.                        *)

Contents(n) == [First .. n - 1 -> Values]

Init ==
  /\ past_end = First
  /\ content \in Contents(First)

KeepUpTo(n) ==
  LET before == content after == content'
  IN  \A b \in First .. n - 1 : after[b] = before[b]

Grow ==
  /\ past_end' \in past_end + 1 .. Limit
  /\ content' \in Contents(past_end')
  /\ KeepUpTo(past_end)

Shrink ==
  /\ past_end' \in First .. past_end - 1
  /\ content' \in Contents(past_end')
  /\ KeepUpTo(past_end')

Write(b, v) ==
  /\ b \in First .. past_end - 1
  /\ content' = [content EXCEPT ![b] = v]
  /\ UNCHANGED past_end

Next ==
  \/ Grow
  \/ Shrink
  \/ \E b \in First .. Limit - 1, v \in Data : Write(b, v)

Spec == Init /\ [][Next]_<<past_end, content>>
=============================================================================
