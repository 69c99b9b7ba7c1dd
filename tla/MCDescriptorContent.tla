------------------------- MODULE MCDescriptorContent -------------------------
(* An old and a new program, a descriptor of a few bytes.                   *)
EXTENDS DescriptorContent

\* A temporal id and an extended type, a persistent id and a small type.
MCKinds == {<<0, 2>>, <<7, 1>>}

\* Forwards and backwards, with bytes in common and without.
MCCopies == {<<0, 1, 2>>, <<1, 0, 2>>, <<2, 0, 1>>}
=============================================================================
