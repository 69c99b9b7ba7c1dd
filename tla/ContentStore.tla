---------------------------- MODULE ContentStore ----------------------------
(***************************************************************************)
(* What a descriptor promises of its content: each part is the bytes that  *)
(* the version of the program in use knows of (own), and those that a      *)
(* newer version has added after them (hidden), that the older one can     *)
(* neither see nor lose.                                                   *)
(***************************************************************************)
EXTENDS Integers, Sequences

CONSTANTS
  Parts,          (* The parts of the content.                             *)
  Writable(_)     (* What the users may write as the byte at a position.   *)

VARIABLES own, hidden

vars == <<own, hidden>>

Init ==
  /\ own = [p \in Parts |-> << >>]
  /\ hidden = [p \in Parts |-> << >>]

Others(p) == \A q \in Parts \ {p} : own'[q] = own[q]

\* The bytes that are in both sizes stay; new ones may be anything.
Resize(p) ==
  /\ \A i \in DOMAIN own[p] \cap DOMAIN own'[p] : own'[p][i] = own[p][i]
  /\ Others(p)
  /\ UNCHANGED hidden

Write(p) ==
  /\ Len(own'[p]) = Len(own[p])
  /\ \A i \in DOMAIN own[p] : own'[p][i] \in {own[p][i]} \cup Writable(i)
  /\ Others(p)
  /\ UNCHANGED hidden

\* n bytes are moved as if they were all read first.
Copy(p) ==
  /\ Len(own'[p]) = Len(own[p])
  /\ \E n \in 1 .. Len(own[p]) :
       \E from, to \in 0 .. Len(own[p]) - n :
         \A i \in DOMAIN own[p] :
           own'[p][i] = own[p][IF i \in to + 1 .. to + n THEN i - to + from ELSE i]
  /\ Others(p)
  /\ UNCHANGED hidden

\* Another version of the program: it knows of more bytes, or of less.
Reopen == \A p \in Parts : own'[p] \o hidden'[p] = own[p] \o hidden[p]

\* The descriptor is destroyed, and another one takes its place.
Renew == own' = [p \in Parts |-> << >>] /\ hidden' = own'

Next == (\E p \in Parts : Resize(p) \/ Write(p) \/ Copy(p)) \/ Reopen \/ Renew

Spec == Init /\ [][Next]_vars
=============================================================================
