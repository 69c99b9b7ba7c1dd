--------------------------- MODULE SpaceAllocator ---------------------------
(***************************************************************************)
(* What the allocator of a block array promises to its user, in one step   *)
(* per call: a segment has its own bytes, which no other segment has, at   *)
(* least as many as were asked for, some in the array and some inline. How *)
(* the space is divided into extents, where the free space is kept and     *)
(* when the array grows is not visible here.                               *)
(***************************************************************************)
EXTENDS Integers, FiniteSets

CONSTANTS
  Slots,      (* The variables of the user that may hold a segment.        *)
  NoSegm,     (* What a variable without a segment holds.                  *)
  Units,      (* The units of space (subblocks) the array may ever have.   *)
  UnitSz,     (* The bytes of one of them.                                 *)
  MaxInline,  (* The most bytes a segment has inline.                      *)
  Sizes       (* The sizes the user asks for.                              *)

VARIABLE segms   (* slot -> [units, inline_sz], or NoSegm.                 *)

Segms == [units : SUBSET Units, inline_sz : 0 .. MaxInline]
Sz(s) == Cardinality(s.units) * UnitSz + s.inline_sz

Init == segms = [s \in Slots |-> NoSegm]

UnitsOfOthers(slot) ==
  UNION {segms[s].units : s \in {t \in Slots \ {slot} : segms[t] # NoSegm}}

Becomes(slot, s) ==
  /\ s \in Segms
  /\ s.units \cap UnitsOfOthers(slot) = {}
  /\ segms' = [segms EXCEPT ![slot] = s]

Alloc(slot, sz) ==
  /\ segms[slot] = NoSegm
  /\ Becomes(slot, segms'[slot])
  /\ Sz(segms'[slot]) >= sz

Dealloc(slot) ==
  /\ segms[slot] # NoSegm
  /\ segms' = [segms EXCEPT ![slot] = NoSegm]

Realloc(slot, sz) ==
  /\ segms[slot] # NoSegm
  /\ Becomes(slot, segms'[slot])
  /\ Sz(segms'[slot]) >= sz

\* A realloc that throws may have given up a part of the segment. An alloc
\* that throws changes nothing here.
ReallocThrows(slot) ==
  /\ segms[slot] # NoSegm
  /\ Becomes(slot, segms'[slot])
  /\ segms'[slot].units \subseteq segms[slot].units

Reset == segms' = [s \in Slots |-> NoSegm]

Next ==
  \/ \E slot \in Slots :
       \/ \E sz \in Sizes : Alloc(slot, sz) \/ Realloc(slot, sz)
       \/ Dealloc(slot)
       \/ ReallocThrows(slot)
  \/ Reset

Spec == Init /\ [][Next]_segms
=============================================================================
