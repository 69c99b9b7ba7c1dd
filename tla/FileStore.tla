----------------------------- MODULE FileStore -----------------------------
(***************************************************************************)
(* What a file promises to its user of the descriptor of its root set and  *)
(* of the blocks that are found from it, for as much as the header of      *)
(* file/file.h says of it: a file that was closed gives back all it had    *)
(* then, and one that panicked is refused. One that crashed is refused or  *)
(* gives back what was saved last with the blocks that were written since, *)
(* in place, one by one: a mixture, that loading may refuse. Nothing is    *)
(* promised of a file that was broken, but that it is refused if it        *)
(* panicked.                                                               *)
(***************************************************************************)
CONSTANTS
  Roots,        (* The descriptors of the root set: their blocks are blks. *)
  Contents,     (* What a block may have.                                  *)
  Unreadable    (* What is stored in a file that would be refused.         *)

VARIABLES
  memory,       (* The root set and its blocks, as of the last sync.       *)
  saved,        (* Those of the last save, if it can still be read.        *)
  stored,       (* What opening the file would load.                       *)
  mode          (* "open", "broken", "closed" (whichever way), "refused".  *)

vars == <<memory, saved, stored, mode>>

\* A root set with what each of its blocks has.
IsImage(i) == \E r \in Roots : i \in [root : {r}, data : [r.blks -> Contents]]

Init ==
  /\ IsImage(memory)
  /\ saved = Unreadable /\ stored = Unreadable
  /\ mode = "open"

\* The user changes the sets.
Change ==
  /\ mode = "open"
  /\ IsImage(memory')
  /\ UNCHANGED <<saved, stored, mode>>

\* A block of what is stored is written in place.
Write(b, v) ==
  /\ mode = "open" /\ stored # Unreadable /\ b \in stored.root.blks
  /\ stored' = [stored EXCEPT !.data[b] = v]
  /\ UNCHANGED <<memory, saved, mode>>

\* A write makes what was stored useless: from here on only a save mends it.
Spoil ==
  /\ mode = "open"
  /\ saved' = Unreadable /\ stored' = Unreadable
  /\ UNCHANGED <<memory, mode>>

Save ==
  /\ mode = "open"
  /\ saved' = memory /\ stored' = memory
  /\ UNCHANGED <<memory, mode>>

Close ==
  /\ mode = "open"
  /\ saved' = memory /\ stored' = memory
  /\ mode' = "closed"
  /\ UNCHANGED memory

Panic ==
  /\ mode \in {"open", "broken"}
  /\ saved' = Unreadable /\ stored' = Unreadable
  /\ mode' = "closed"
  /\ UNCHANGED memory

Crash ==
  /\ mode = "open"
  /\ mode' = "closed"
  /\ UNCHANGED <<memory, saved, stored>>

\* What is read is what was saved, or else it may be refused.
Open ==
  /\ mode = "closed" /\ stored # Unreadable
  /\ memory' = stored /\ saved' = stored
  /\ mode' = "open"
  /\ UNCHANGED stored

Refuse ==
  /\ mode = "closed" /\ (stored = Unreadable \/ stored # saved)
  /\ mode' = "refused"
  /\ UNCHANGED <<memory, saved, stored>>

\* A broken file does anything until it is refused or opened again.
Broken ==
  /\ \/ mode = "open" /\ mode' = "broken"
     \/ mode = "broken" /\ mode' \in {"broken", "refused"}
  /\ IsImage(memory')
  /\ IsImage(saved') \/ saved' = Unreadable
  /\ IsImage(stored') \/ stored' = Unreadable

Mended ==
  /\ mode = "broken" /\ mode' = "open"
  /\ IsImage(memory') /\ saved' = memory' /\ stored' = memory'

Next ==
  \/ Change \/ Spoil \/ Save \/ Close \/ Panic \/ Crash \/ Open \/ Refuse \/ Broken \/ Mended
  \/ \E b \in UNION {r.blks : r \in Roots}, v \in Contents : Write(b, v)

Spec == Init /\ [][Next]_vars
=============================================================================
