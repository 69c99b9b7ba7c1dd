--------------------------- MODULE DescriptorStore ---------------------------
(***************************************************************************)
(* What the descriptor sets promise to the user: a tree in memory that     *)
(* changes at will, and what is stored of each set, that changes only when *)
(* the set is synced and is then the descriptors the set owns. Streams,    *)
(* segments, pending descriptors and the order of the writes are not       *)
(* visible here.                                                           *)
(***************************************************************************)
EXTENDS FiniteSets

CONSTANTS Dscs, Sets, Root

VARIABLES
  tree,     (* descriptor -> {[owner, rec]}, or {} if it is not in the tree*)
  stored    (* set -> the records that are stored of its descriptors.      *)

vars == <<tree, stored>>

Init ==
  /\ tree = [d \in Dscs |-> {}]
  /\ stored = [s \in Sets |-> {}]

Owned(s) == {e.rec : e \in {e \in UNION {tree[d] : d \in Dscs} : e.owner = s}}

IsInTree(s) == s = Root \/ tree[s] # {}

\* add, move_out, erase, clear_set, assign_persistent_id or a change of a
\* descriptor
Edit == UNCHANGED stored /\ tree' # tree

\* The sync of s, that ends the erase of the sets that were below it.
Sync(s) ==
  /\ IsInTree(s)
  /\ stored'[s] = Owned(s)
  /\ \A t \in Sets \ {s} :
       \/ stored'[t] = stored[t]
       \/ ~IsInTree(t) /\ stored'[t] = {}
  /\ UNCHANGED tree

Next == Edit \/ \E s \in Sets : Sync(s)

Spec == Init /\ [][Next]_vars
=============================================================================
