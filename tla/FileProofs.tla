----------------------------- MODULE FileProofs -----------------------------
(***************************************************************************)
(* What is true of a file of any number of blocks of any size, whatever    *)
(* the root set takes, over its syncs, closes, panics, crashes and opens.  *)
(*                                                                         *)
(* IInv says what each write of a sync relies on: that the allocator has   *)
(* given what the sets and the trampoline have, that between two syncs the *)
(* header still points to the trampoline, and that what is written so far  *)
(* is what the next write will point to. Of a file that is not open        *)
(* nothing is kept: an open looks at the disk again. Of one whose          *)
(* trampoline has free blocks only what a close has to find is.            *)
(***************************************************************************)
EXTENDS File, TLAPS, WellFoundedInduction, SequenceTheorems, FiniteSetTheorems

\* What is where, up to the write that is next.
PartsAreRight ==
  /\ tramp \cap held = {} /\ tramp \cup held \subseteq in_use
  /\ pc \notin {"idle", "sets"} => root.blks = held /\ \A b \in held : disk.at[b] = data[b]
  /\ pc \in {"idle", "sets", "release", "root"} =>
       disk.header.tramp = tramp /\ \A b \in tramp : disk.at[b] = disk.header.root
  /\ pc = "trampoline" /\ root = disk.header.root =>
       \A b \in disk.header.tramp : disk.at[b] = root
  /\ pc \in {"header", "truncate", "trailer"} => \A b \in tramp : disk.at[b] = root
  /\ pc \in {"truncate", "trailer"} => saved = [root |-> root, data |-> data]

\* What a close is about to leave.
CloseIsRight ==
  /\ disk.tail \in {<< >>, <<"EOF">>}
  /\ pc # "idle" /\ call = "close" => closing
  /\ pc = "header" /\ closing => disk.past_end = LastInUse(in_use) + 1
  /\ pc \in {"truncate", "trailer"} =>
       disk.header = Header(disk.past_end, root, tramp) /\ disk.past_end = LastInUse(in_use) + 1
  /\ pc = "trailer" => disk.tail = << >>

IInv ==
  /\ TypeOK
  /\ mode # "open" => pc = "idle"
  /\ mode = "open" => CloseIsRight
  /\ mode = "open" /\ ~ failed => PartsAreRight
  /\ HeaderTellsTheFile

Tails == {<< >>, <<"EOF">>, <<"BAD">>, <<"EOF", "BAD">>}
Ends == begin_blk_nr .. BlkNrExhaust
Headers == [past_end : Ends, root : Roots, tramp : SUBSET AllBlks]
Disks == [past_end : Ends, tail : Tails, header : Headers, at : [AllBlks -> Contents]]

-----------------------------------------------------------------------------
(* The disk *)

LEMMA TailFacts ==
  /\ << >> # <<"EOF">>
  /\ Append(<< >>, "EOF") = <<"EOF">>
  /\ Append(<< >>, "BAD") = <<"BAD">> /\ <<"BAD">> # <<"EOF">>
  /\ Append(<<"EOF">>, "BAD") = <<"EOF", "BAD">> /\ <<"EOF", "BAD">> # <<"EOF">>
<1>1. Len(<< >>) = 0 /\ Len(<<"EOF">>) = 1 /\ Len(<<"EOF", "BAD">>) = 2
  OBVIOUS
<1>2. <<"BAD">> # <<"EOF">>
  OBVIOUS
<1>3. Append(<< >>, "EOF") = <<"EOF">> /\ Append(<< >>, "BAD") = <<"BAD">>
  OBVIOUS
<1>4. Append(<<"EOF">>, "BAD") = <<"EOF", "BAD">>
  <2> DEFINE S == {"EOF", "BAD"}
             s == Append(<<"EOF">>, "BAD")
             t == <<"EOF", "BAD">>
  <2>1. <<"EOF">> \in Seq(S) /\ t \in Seq(S) /\ "BAD" \in S
    OBVIOUS
  <2>2. s \in Seq(S) /\ Len(s) = 2 /\ s[1] = "EOF" /\ s[2] = "BAD"
    BY <1>1, <2>1, AppendProperties
  <2>3. t[1] = "EOF" /\ t[2] = "BAD"
    OBVIOUS
  <2> HIDE DEF s, t
  <2>4. \A i \in 1 .. Len(s) : s[i] = t[i]
    BY <2>2, <2>3
  <2>5. Len(t) = 2
    BY <1>1 DEF t
  <2>6. s = t
    BY <2>1, <2>2, <2>4, <2>5, SeqEqual
  <2> QED
    BY <2>6 DEF s, t
<1> QED
  BY <1>1, <1>2, <1>3, <1>4

LEMMA BlkFacts ==
  /\ BlkNrExhaust \in Nat /\ BlkNrExhaust > 1
  /\ begin_blk_nr = 1 /\ AllBlks = 1 .. BlkNrExhaust - 1
  /\ Ends = 1 .. BlkNrExhaust
BY FileAssumption DEF begin_blk_nr, AllBlks, Ends

\* The fields of a disk.
LEMMA DiskFields ==
  ASSUME NEW d \in Disks
  PROVE  /\ d = [past_end |-> d.past_end, tail |-> d.tail, header |-> d.header, at |-> d.at]
         /\ d.past_end \in Ends /\ d.past_end \in Nat
         /\ d.tail \in Tails
         /\ d.header \in Headers
         /\ d.at \in [AllBlks -> Contents]
         /\ BlksOfFile(d) = 1 .. d.past_end - 1
         /\ BlksOfFile(d) \subseteq AllBlks
<1>1. d = [past_end |-> d.past_end, tail |-> d.tail, header |-> d.header, at |-> d.at]
  BY DEF Disks
<1>2. /\ d.past_end \in Ends /\ d.tail \in Tails /\ d.header \in Headers
      /\ d.at \in [AllBlks -> Contents]
  BY DEF Disks
<1>3. d.past_end \in 1 .. BlkNrExhaust
  BY <1>2, BlkFacts
<1>4. BlksOfFile(d) = 1 .. d.past_end - 1
  BY BlkFacts DEF BlksOfFile
<1>5. BlksOfFile(d) \subseteq AllBlks
  BY <1>3, <1>4, BlkFacts
<1> QED
  BY <1>1, <1>2, <1>3, <1>4, <1>5, BlkFacts

LEMMA HeaderFields ==
  ASSUME NEW h \in Headers
  PROVE  /\ h.past_end \in Ends /\ h.root \in Roots /\ h.tramp \subseteq AllBlks
         /\ h.root.blks \subseteq AllBlks
BY DEF Headers, Roots

LEMMA GrownFacts ==
  ASSUME NEW d \in Disks, NEW p \in Ends, d.past_end <= p
  PROVE  /\ Grown(d, p) \in Disks
         /\ Grown(d, p).past_end = p
         /\ Grown(d, p).header = d.header /\ Grown(d, p).at = d.at
         /\ Grown(d, p) = d \/ Grown(d, p).tail = << >>
         /\ BlksOfFile(d) \subseteq BlksOfFile(Grown(d, p))
<1>1. CASE p = d.past_end
  BY <1>1 DEF Grown
<1>2. CASE p # d.past_end
  <2>1. Grown(d, p) = [past_end |-> p, tail |-> << >>, header |-> d.header, at |-> d.at]
    <3>1. d = [past_end |-> d.past_end, tail |-> d.tail, header |-> d.header, at |-> d.at]
      BY DiskFields
    <3>2. Grown(d, p) = [d EXCEPT !.past_end = p, !.tail = << >>]
      BY <1>2 DEF Grown
    <3> QED
      BY <3>1, <3>2
  <2>2. /\ Grown(d, p).past_end = p /\ Grown(d, p).tail = << >>
        /\ Grown(d, p).header = d.header /\ Grown(d, p).at = d.at
    BY <2>1
  <2>3. Grown(d, p) \in Disks
    BY <2>1, DiskFields DEF Disks, Tails
  <2>4. p \in Nat
    BY BlkFacts
  <2>5. BlksOfFile(d) \subseteq BlksOfFile(Grown(d, p))
    BY <2>2, <2>3, <2>4, DiskFields
  <2> QED
    BY <2>2, <2>3, <2>5
<1> QED
  BY <1>1, <1>2

LEMMA TruncatedFacts ==
  ASSUME NEW d \in Disks, NEW p \in Ends
  PROVE  /\ Truncated(d, p) \in Disks
         /\ Truncated(d, p).past_end = p
         /\ Truncated(d, p).tail = << >>
         /\ Truncated(d, p).header = d.header
         /\ \A b \in AllBlks : b < p => Truncated(d, p).at[b] = d.at[b]
<1> DEFINE at == [b \in AllBlks |-> IF b < p THEN d.at[b] ELSE Blank]
<1>1. at \in [AllBlks -> Contents]
  BY DiskFields, ContentAssumption DEF Contents
<1>2. Truncated(d, p) = [past_end |-> p, tail |-> << >>, header |-> d.header, at |-> at]
  <2>1. d = [past_end |-> d.past_end, tail |-> d.tail, header |-> d.header, at |-> d.at]
    BY DiskFields
  <2>2. Truncated(d, p) = [d EXCEPT !.past_end = p, !.tail = << >>, !.at = at]
    BY DEF Truncated
  <2> HIDE DEF at
  <2> QED
    BY <2>1, <2>2
<1>3. \A b \in AllBlks : b < p => at[b] = d.at[b]
  OBVIOUS
<1> HIDE DEF at
<1>4. /\ Truncated(d, p).past_end = p /\ Truncated(d, p).tail = << >>
      /\ Truncated(d, p).header = d.header /\ Truncated(d, p).at = at
  BY <1>2
<1>5. Truncated(d, p) \in Disks
  BY <1>1, <1>2, DiskFields DEF Disks, Tails
<1> QED
  BY <1>3, <1>4, <1>5

\* A nonempty set of naturals below a bound has a greatest element.
LEMMA GreatestExists ==
  ASSUME NEW S \in SUBSET Nat, S # {}, NEW n \in Nat, \A y \in S : y <= n
  PROVE  \E x \in S : \A y \in S : y <= x
<1> DEFINE T == {n - y : y \in S}
<1>1. T \in SUBSET Nat /\ T # {}
  <2>1. \A y \in S : n - y \in Nat
    OBVIOUS
  <2> QED
    BY <2>1
<1>2. \E t \in T : \A u \in T : ~ (<<u, t>> \in OpToRel(<, Nat))
  <2> HIDE DEF T
  <2> QED
    BY <1>1, NatLessThanWellFounded, WFMin, Zenon
<1>3. PICK x \in S : \A y \in S : ~ (n - y < n - x)
  BY <1>1, <1>2 DEF OpToRel
<1> QED
  BY <1>3

\* What is in use is up to the last block in use.
LEMMA LastInUseFacts ==
  ASSUME NEW used \in SUBSET AllBlks
  PROVE  /\ LastInUse(used) + 1 \in Ends
         /\ LastInUse(used) \in Nat
         /\ \A b \in used : b <= LastInUse(used)
         /\ \A n \in Nat : (\A b \in used : b < n) /\ n >= 1 => LastInUse(used) + 1 <= n
<1> DEFINE S == {begin_blk_nr - 1} \cup used
           m == Max(S)
<1>1. S \in SUBSET Nat /\ S # {} /\ BlkNrExhaust - 1 \in Nat /\ \A b \in S : b <= BlkNrExhaust - 1
  BY BlkFacts
<1>2. \E x \in S : \A y \in S : y <= x
  <2> HIDE DEF S
  <2> QED
    BY <1>1, GreatestExists
<1>3. m \in S /\ \A y \in S : m >= y
  <2> HIDE DEF S
  <2>1. \E x \in S : \A y \in S : x >= y
    BY <1>1, <1>2
  <2> QED
    BY <2>1 DEF Max
<1>4. LastInUse(used) = m
  BY DEF LastInUse
<1> HIDE DEF m
<1>5. m \in Nat /\ m <= BlkNrExhaust - 1 /\ \A b \in used : b \in Nat /\ b <= m
  BY <1>1, <1>3
<1>6. ASSUME NEW n \in Nat, \A b \in used : b < n, n >= 1 PROVE m + 1 <= n
  BY <1>3, <1>5, <1>6, BlkFacts
<1> QED
  BY <1>4, <1>5, <1>6, BlkFacts

\* A release cuts no block in use.
LEMMA ReleasedFacts ==
  ASSUME NEW d \in Disks, NEW used \in SUBSET BlksOfFile(d)
  PROVE  /\ Released(d, used) \in Disks
         /\ Released(d, used).past_end = LastInUse(used) + 1
         /\ Released(d, used).header = d.header
         /\ Released(d, used) = d \/ Released(d, used).tail = << >>
         /\ used \subseteq BlksOfFile(Released(d, used))
         /\ \A b \in used : Released(d, used).at[b] = d.at[b]
<1> DEFINE p == LastInUse(used) + 1
<1>1. used \subseteq AllBlks
  BY DiskFields
<1>2. p \in Ends /\ \A b \in used : b < p /\ b \in AllBlks
  <2>1. LastInUse(used) \in Nat /\ p \in Ends /\ \A b \in used : b <= LastInUse(used)
    BY <1>1, LastInUseFacts
  <2>2. \A b \in used : b \in Nat
    BY <1>1, BlkFacts
  <2> QED
    BY <1>1, <2>1, <2>2
<1>3. Released(d, used) = IF p = d.past_end THEN d ELSE Truncated(d, p)
  BY DEF Released
<1> HIDE DEF p
<1>4. /\ Released(d, used) \in Disks
      /\ Released(d, used).past_end = p
      /\ Released(d, used).header = d.header
      /\ Released(d, used) = d \/ Released(d, used).tail = << >>
      /\ \A b \in used : Released(d, used).at[b] = d.at[b]
  BY <1>2, <1>3, TruncatedFacts
<1>5. used \subseteq BlksOfFile(Released(d, used))
  <2>1. BlksOfFile(Released(d, used)) = 1 .. p - 1
    BY <1>4, DiskFields
  <2> QED
    BY <1>2, <2>1, BlkFacts
<1> QED
  BY <1>4, <1>5 DEF p

\* A disk where one block is another.
LEMMA BlkWritten ==
  ASSUME NEW d \in Disks, NEW b \in AllBlks, NEW v \in Contents
  PROVE  /\ [d EXCEPT !.at[b] = v] \in Disks
         /\ [d EXCEPT !.at[b] = v].past_end = d.past_end
         /\ [d EXCEPT !.at[b] = v].tail = d.tail
         /\ [d EXCEPT !.at[b] = v].header = d.header
         /\ [d EXCEPT !.at[b] = v].at = [d.at EXCEPT ![b] = v]
         /\ BlksOfFile([d EXCEPT !.at[b] = v]) = BlksOfFile(d)
<1> DEFINE new == [d EXCEPT !.at[b] = v]
<1>1. d = [past_end |-> d.past_end, tail |-> d.tail, header |-> d.header, at |-> d.at]
  BY DiskFields
<1>2. new = [past_end |-> d.past_end, tail |-> d.tail, header |-> d.header, at |-> [d.at EXCEPT ![b] = v]]
  BY <1>1
<1>3. [d.at EXCEPT ![b] = v] \in [AllBlks -> Contents]
  BY DiskFields
<1> HIDE DEF new
<1>4. new.past_end = d.past_end /\ new.tail = d.tail /\ new.header = d.header
      /\ new.at = [d.at EXCEPT ![b] = v]
  BY <1>2
<1>5. new \in Disks
  BY <1>2, <1>3, DiskFields DEF Disks
<1>6. BlksOfFile(new) = BlksOfFile(d)
  BY <1>4 DEF BlksOfFile
<1> QED
  BY <1>4, <1>5, <1>6 DEF new

LEMMA TailWritten ==
  ASSUME disk \in Disks, NEW t \in Tails, disk' = [disk EXCEPT !.tail = t]
  PROVE  /\ disk' \in Disks /\ disk'.tail = t
         /\ disk'.past_end = disk.past_end /\ disk'.header = disk.header /\ disk'.at = disk.at
<1>1. disk = [past_end |-> disk.past_end, tail |-> disk.tail, header |-> disk.header, at |-> disk.at]
  BY DiskFields
<1>2. disk' = [past_end |-> disk.past_end, tail |-> t, header |-> disk.header, at |-> disk.at]
  BY <1>1
<1>3. disk' \in Disks
  BY <1>2, DiskFields DEF Disks
<1> QED
  BY <1>2, <1>3

-----------------------------------------------------------------------------
(* The invariant, in parts *)

LEMMA TypesOfAll ==
  ASSUME TypeOK
  PROVE  /\ disk \in Disks /\ root \in Roots /\ data \in [root.blks -> Contents]
         /\ in_use \subseteq AllBlks /\ held \subseteq AllBlks /\ tramp \subseteq AllBlks
         /\ mode = "open" => in_use \subseteq BlksOfFile(disk)
         /\ Store!IsImage(saved)
BY DEF TypeOK, Disks, Tails, Headers, Ends, Store!IsImage

\* What a step has to show of the types, in the order of the definitions.
LEMMA OpenTypes ==
  ASSUME mode' = "open",
         disk' \in Disks, root' \in Roots, data' \in [root'.blks -> Contents],
         held' \subseteq AllBlks, tramp' \subseteq AllBlks,
         in_use' \subseteq BlksOfFile(disk'),
         closing' \in BOOLEAN, failed' \in BOOLEAN,
         pc' \in {"idle", "sets", "release", "root", "trampoline", "header", "truncate", "trailer"},
         call' \in {"full_sync", "close"}, calls' \in 0 .. MaxCalls,
         Store!IsImage(saved')
  PROVE  TypeOK'
<1>1. in_use' \subseteq AllBlks
  BY DiskFields
<1> QED
  BY <1>1 DEF TypeOK, Disks, Tails, Headers, Ends, Store!IsImage

LEMMA OpenKeeps ==
  ASSUME mode' = "open", TypeOK', CloseIsRight', ~ failed' => PartsAreRight'
  PROVE  IInv'
BY DEF IInv, HeaderTellsTheFile

\* The bound on the calls.
LEMMA CallsType ==
  ASSUME TypeOK, Called
  PROVE  calls' \in 0 .. MaxCalls
BY FileAssumption DEF TypeOK, Called

-----------------------------------------------------------------------------
(* What is stored, and what a step has to show of it *)

\* What the disk stores, as an open would find it, and what it had when it
\* was saved.
Stored == IF Opens(disk) THEN Loaded(disk) ELSE Unreadable
Saved == IF Opens(disk) THEN saved ELSE Unreadable
InMemory == [root |-> root, data |-> data]
StoreMode ==
  IF failed /\ mode \in {"open", "closed", "crashed"} THEN "broken"
  ELSE IF NotOpen THEN "closed" ELSE mode

\* What is in memory and what is on a disk are root sets with their blocks.
LEMMA ImageType ==
  ASSUME NEW r \in Roots, NEW f \in [r.blks -> Contents]
  PROVE  /\ Store!IsImage([root |-> r, data |-> f])
         /\ [root |-> r, data |-> f] # Unreadable
<1>1. [root |-> r, data |-> f] \in [root : {r}, data : [r.blks -> Contents]]
  OBVIOUS
<1>2. Unreadable \notin [root : {r}, data : [r.blks -> Contents]]
  BY ContentAssumption
<1> QED
  BY <1>1, <1>2 DEF Store!IsImage

LEMMA LoadedType ==
  ASSUME NEW d \in Disks
  PROVE  Store!IsImage(Loaded(d)) /\ Loaded(d) # Unreadable
<1> DEFINE r == d.header.root
           f == [b \in r.blks |-> d.at[b]]
<1>1. r \in Roots /\ r.blks \subseteq AllBlks /\ d.at \in [AllBlks -> Contents]
  BY DiskFields, HeaderFields
<1>2. f \in [r.blks -> Contents]
  BY <1>1
<1>3. Loaded(d) = [root |-> r, data |-> f]
  BY DEF Loaded, Image
<1> HIDE DEF r, f
<1> QED
  BY <1>1, <1>2, <1>3, ImageType

\* A step of the open file leaves the store alone.
LEMMA Stutters ==
  ASSUME UNCHANGED <<disk, root, data, saved, failed, mode>>
  PROVE  UNCHANGED Store!vars
<1>1. Opens(disk)' = Opens(disk) /\ Loaded(disk)' = Loaded(disk)
  BY DEF Opens, RootIsRead, TrailerIsGood, AllocatorStarts, BlksOfFile, Loaded, Image
<1> QED
  BY <1>1 DEF Store!vars, NotOpen

\* A file whose trampoline has free blocks does anything.
LEMMA BrokenStep ==
  ASSUME TypeOK', failed', mode = "open", mode' \in {"open", "closed", "crashed"}
  PROVE  Store!Next
<1>1. /\ disk' \in Disks /\ root' \in Roots /\ data' \in [root'.blks -> Contents]
      /\ Store!IsImage(saved')
  BY DEF TypeOK, Disks, Tails, Headers, Ends, Store!IsImage
<1>2. Store!IsImage([root |-> root', data |-> data']) /\ Store!IsImage(Loaded(disk'))
  BY <1>1, ImageType, LoadedType
<1>3. Store!IsImage(InMemory')
  BY <1>2 DEF InMemory
<1>4. Store!IsImage(Saved') \/ Saved' = Unreadable
  BY <1>1 DEF Saved
<1>5. Store!IsImage(Stored') \/ Stored' = Unreadable
  BY <1>2 DEF Stored
<1>6. StoreMode \in {"open", "broken"} /\ StoreMode' = "broken"
  BY DEF StoreMode, NotOpen
<1>7. Store!Broken
  BY <1>3, <1>4, <1>5, <1>6 DEF Store!Broken, InMemory, Saved, Stored, StoreMode
<1> QED
  BY <1>7 DEF Store!Next

\* A write that makes the file unreadable.
LEMMA SpoilStep ==
  ASSUME mode = "open", mode' = "open", ~ failed, ~ failed',
         UNCHANGED <<root, data>>, ~ Opens(disk')
  PROVE  Store!Next
<1>1. Store!Spoil
  BY DEF Store!Spoil, NotOpen
<1> QED
  BY <1>1 DEF Store!Next

\* A step that only changes the length of the file, and not the root set in
\* memory, changes nothing or spoils what was stored.
LEMMA LengthSpoils ==
  ASSUME TypeOK', mode = "open", mode' = "open", failed' \in BOOLEAN, failed => failed',
         UNCHANGED <<root, data, saved>>, disk' = disk \/ disk'.tail = << >>
  PROVE  Store!Next \/ UNCHANGED Store!vars
<1>1. CASE failed'
  BY <1>1, BrokenStep
<1>2. CASE ~ failed' /\ disk' = disk
  <2>1. Opens(disk') = Opens(disk) /\ Loaded(disk') = Loaded(disk)
    BY <1>2
  <2>2. ~ failed /\ ~ failed'
    BY <1>2
  <2> QED
    BY <2>1, <2>2 DEF Store!vars, NotOpen
<1>3. CASE ~ failed' /\ disk'.tail = << >>
  <2>1. ~ Opens(disk')
    BY <1>3, TailFacts DEF Opens, TrailerIsGood
  <2> QED
    BY <1>3, <2>1, SpoilStep
<1> QED
  BY <1>1, <1>2, <1>3

\* What each step has to do.
Kept == IInv' /\ (Store!Next \/ UNCHANGED Store!vars)

-----------------------------------------------------------------------------
(* The user, and the sync of the sets *)

LEMMA AllocKeeps ==
  ASSUME IInv, NEW b \in AllBlks, Alloc(b)
  PROVE  Kept
<1> DEFINE p == Max({b + 1, disk.past_end})
<1>1. /\ mode = "open" /\ pc \in {"idle", "sets"} /\ Called
      /\ b \in BlksOfFile(disk) \ in_use \/ (b = disk.past_end /\ b < BlkNrExhaust)
      /\ disk' = Grown(disk, p)
      /\ held' = held \cup {b} /\ in_use' = in_use \cup {b}
      /\ UNCHANGED <<root, data, tramp, closing, failed, mode, pc, call, saved>>
  BY DEF Alloc, UserOrSets, Free
<1>2. /\ disk \in Disks /\ in_use \subseteq BlksOfFile(disk) /\ held \subseteq AllBlks
  BY <1>1, TypesOfAll DEF IInv
<1>3. /\ disk.past_end \in Nat /\ disk.past_end \in Ends
      /\ BlksOfFile(disk) = 1 .. disk.past_end - 1 /\ b \in Nat
  BY <1>2, DiskFields, BlkFacts
<1>4. p \in {b + 1, disk.past_end} /\ p >= b + 1 /\ p >= disk.past_end
  <2> DEFINE S == {b + 1, disk.past_end}
  <2>1. \E x \in S : \A y \in S : x >= y
    BY <1>3
  <2> HIDE DEF S
  <2>2. Max(S) \in S /\ \A y \in S : Max(S) >= y
    BY <2>1 DEF Max
  <2> QED
    BY <2>2 DEF S
<1> HIDE DEF p
<1>5. p \in Ends /\ disk.past_end <= p /\ b < p /\ p \in Nat
  BY <1>3, <1>4, <1>1, BlkFacts
<1>6. /\ disk' \in Disks /\ disk'.past_end = p
      /\ disk' = disk \/ disk'.tail = << >>
      /\ BlksOfFile(disk) \subseteq BlksOfFile(disk')
      /\ disk'.header = disk.header /\ disk'.at = disk.at
  BY <1>1, <1>2, <1>5, GrownFacts
<1>7. in_use' \subseteq BlksOfFile(disk')
  <2>1. BlksOfFile(disk') = 1 .. p - 1
    BY <1>6, DiskFields
  <2>2. b \in BlksOfFile(disk')
    BY <2>1, <1>5, BlkFacts
  <2> QED
    BY <1>1, <1>2, <1>6, <2>2
<1>8. b \notin in_use
  BY <1>1, <1>2, <1>3
<1>9. TypeOK'
  <2>1. held' \subseteq AllBlks /\ calls' \in 0 .. MaxCalls
    BY <1>1, <1>2, CallsType DEF IInv
  <2> QED
    BY <1>1, <1>6, <1>7, <2>1, TypesOfAll, OpenTypes DEF IInv, TypeOK
<1>10. CloseIsRight'
  BY <1>1, <1>6 DEF IInv, CloseIsRight
<1>11. ~ failed' => PartsAreRight'
  <2>1. SUFFICES ASSUME ~ failed PROVE PartsAreRight'
    BY <1>1
  <2>2. tramp' \cap held' = {} /\ tramp' \cup held' \subseteq in_use'
    BY <1>1, <1>8, <2>1 DEF IInv, PartsAreRight
  <2> QED
    BY <1>1, <1>6, <2>1, <2>2 DEF IInv, PartsAreRight
<1>12. IInv'
  BY <1>1, <1>9, <1>10, <1>11, OpenKeeps
<1> QED
  BY <1>1, <1>6, <1>9, <1>12, LengthSpoils DEF Kept, TypeOK

LEMMA DeallocKeeps ==
  ASSUME IInv, NEW b \in AllBlks, Dealloc(b)
  PROVE  Kept
<1>1. /\ mode = "open" /\ pc \in {"idle", "sets"} /\ Called
      /\ b \in held /\ held' = held \ {b} /\ in_use' = in_use \ {b}
      /\ UNCHANGED <<disk, root, data, tramp, closing, failed, mode, pc, call, saved>>
  BY DEF Dealloc, UserOrSets
<1>2. /\ disk' \in Disks /\ in_use' \subseteq BlksOfFile(disk') /\ held' \subseteq AllBlks
  <2>1. disk \in Disks /\ in_use \subseteq BlksOfFile(disk) /\ held \subseteq AllBlks
    BY <1>1, TypesOfAll DEF IInv
  <2>2. BlksOfFile(disk') = BlksOfFile(disk)
    BY <1>1
  <2> QED
    BY <1>1, <2>1, <2>2
<1>3. TypeOK'
  <2>1. calls' \in 0 .. MaxCalls
    BY <1>1, CallsType DEF IInv
  <2> QED
    BY <1>1, <1>2, <2>1, TypesOfAll, OpenTypes DEF IInv, TypeOK
<1>4. CloseIsRight'
  BY <1>1 DEF IInv, CloseIsRight
<1>5. ~ failed' => PartsAreRight'
  <2>1. SUFFICES ASSUME ~ failed PROVE PartsAreRight'
    BY <1>1
  <2>2. tramp' \cap held' = {} /\ tramp' \cup held' \subseteq in_use'
    BY <1>1, <2>1 DEF IInv, PartsAreRight
  <2> QED
    BY <1>1, <2>1, <2>2 DEF IInv, PartsAreRight
<1>6. IInv'
  BY <1>1, <1>3, <1>4, <1>5, OpenKeeps
<1> QED
  BY <1>1, <1>3, <1>6, LengthSpoils DEF Kept, TypeOK

\* What an open reads of a disk where one block is another.
LEMMA BlkRead ==
  ASSUME NEW d \in Disks, NEW b \in AllBlks, NEW v \in Contents,
         NEW e, e = [d EXCEPT !.at[b] = v]
  PROVE  /\ b \notin d.header.tramp => Opens(e) = Opens(d)
         /\ b \notin d.header.root.blks => Loaded(e) = Loaded(d)
         /\ b \in d.header.root.blks => Loaded(e) = [Loaded(d) EXCEPT !.data[b] = v]
<1>1. /\ e.past_end = d.past_end /\ e.tail = d.tail /\ e.header = d.header
      /\ e.at = [d.at EXCEPT ![b] = v] /\ BlksOfFile(e) = BlksOfFile(d)
  BY BlkWritten
<1>2. /\ d.at \in [AllBlks -> Contents] /\ d.header \in Headers
      /\ d.header.root.blks \subseteq AllBlks /\ d.header.tramp \subseteq AllBlks
  BY DiskFields, HeaderFields
<1>3. ASSUME b \notin d.header.tramp PROVE Opens(e) = Opens(d)
  <2>1. \A c \in d.header.tramp : e.at[c] = d.at[c]
    BY <1>1, <1>2, <1>3
  <2>2. RootIsRead(e) = RootIsRead(d)
    BY <1>1, <2>1 DEF RootIsRead
  <2> QED
    BY <1>1, <2>2 DEF Opens, TrailerIsGood, AllocatorStarts
<1> DEFINE r == d.header.root
           f == [c \in r.blks |-> d.at[c]]
           g == [c \in r.blks |-> e.at[c]]
<1>4. Loaded(d) = [root |-> r, data |-> f] /\ Loaded(e) = [root |-> r, data |-> g]
  BY <1>1 DEF Loaded, Image
<1>5. b \notin r.blks => g = f
  BY <1>1, <1>2
<1>6. b \in r.blks => g = [f EXCEPT ![b] = v]
  BY <1>1, <1>2
<1> HIDE DEF f, g
<1>7. [Loaded(d) EXCEPT !.data[b] = v] = [root |-> r, data |-> [f EXCEPT ![b] = v]]
  BY <1>4
<1> QED
  BY <1>3, <1>4, <1>5, <1>6, <1>7

\* A block of what is stored that is written in place.
LEMMA WriteStep ==
  ASSUME IInv, NEW b \in AllBlks, NEW v \in Contents,
         disk' = [disk EXCEPT !.at[b] = v], b \notin disk.header.tramp,
         mode = "open", ~ failed, UNCHANGED <<root, data, saved, mode, failed>>
  PROVE  Store!Next \/ UNCHANGED Store!vars
<1>1. disk \in Disks
  BY TypesOfAll DEF IInv
<1>2. Opens(disk') = Opens(disk)
  BY <1>1, BlkRead
<1>3. CASE b \notin disk.header.root.blks \/ ~ Opens(disk)
  <2>1. Stored' = Stored /\ Saved' = Saved
    BY <1>1, <1>2, <1>3, BlkRead DEF Stored, Saved
  <2> QED
    BY <2>1 DEF Store!vars, NotOpen, Stored, Saved
<1>4. CASE b \in disk.header.root.blks /\ Opens(disk)
  <2>1. Stored = Loaded(disk) /\ Stored' = [Stored EXCEPT !.data[b] = v] /\ Saved' = Saved
    BY <1>1, <1>2, <1>4, BlkRead DEF Stored, Saved
  <2>2. Stored # Unreadable /\ Stored.root = disk.header.root /\ disk.header.root \in Roots
    BY <1>1, <2>1, LoadedType, DiskFields, HeaderFields DEF Loaded, Image
  <2>3. Store!Write(b, v)
    BY <1>4, <2>1, <2>2 DEF Store!Write, NotOpen, Stored, Saved
  <2>4. \E c \in UNION {r.blks : r \in Roots} : Store!Write(c, v)
    BY <1>4, <2>2, <2>3
  <2> QED
    BY <2>4 DEF Store!Next
<1> QED
  BY <1>3, <1>4

\* What the sets write between two syncs is never in the trampoline.
LEMMA WriteKeeps ==
  ASSUME IInv, NEW b \in AllBlks, NEW v \in Data, Write(b, v)
  PROVE  Kept
<1>1. /\ mode = "open" /\ pc \in {"idle", "sets"} /\ Called /\ b \in held /\ v \in Contents
      /\ disk' = [disk EXCEPT !.at[b] = v]
      /\ UNCHANGED <<root, data, held, tramp, in_use, closing, failed, mode, pc, call, saved>>
  BY DEF Write, UserOrSets, memory, Contents
<1>2. /\ disk' \in Disks /\ disk'.past_end = disk.past_end /\ disk'.tail = disk.tail
      /\ disk'.header = disk.header /\ disk'.at = [disk.at EXCEPT ![b] = v]
      /\ BlksOfFile(disk') = BlksOfFile(disk)
      /\ disk.at \in [AllBlks -> Contents]
  <2>1. disk \in Disks
    BY TypesOfAll DEF IInv
  <2> QED
    BY <1>1, <2>1, BlkWritten, DiskFields
<1>3. TypeOK'
  <2>1. calls' \in 0 .. MaxCalls
    BY <1>1, CallsType DEF IInv
  <2>2. in_use' \subseteq BlksOfFile(disk')
    BY <1>1, <1>2, TypesOfAll DEF IInv
  <2> QED
    BY <1>1, <1>2, <2>1, <2>2, TypesOfAll, OpenTypes DEF IInv, TypeOK
<1>4. CloseIsRight'
  BY <1>1, <1>2 DEF IInv, CloseIsRight
<1>5. ASSUME ~ failed
      PROVE  PartsAreRight' /\ b \notin disk.header.tramp
  <2>1. /\ tramp \cap held = {} /\ tramp \cup held \subseteq in_use /\ disk.header.tramp = tramp
        /\ \A c \in tramp : disk.at[c] = disk.header.root
    BY <1>1, <1>5 DEF IInv, PartsAreRight
  <2>2. \A c \in tramp : disk'.at[c] = disk.at[c]
    BY <1>1, <1>2, <2>1
  <2> QED
    BY <1>1, <1>2, <2>1, <2>2 DEF PartsAreRight
<1>6. IInv'
  BY <1>1, <1>3, <1>4, <1>5, OpenKeeps
<1>7. Store!Next \/ UNCHANGED Store!vars
  <2>1. CASE failed
    BY <1>1, <1>3, <2>1, BrokenStep
  <2>2. CASE ~ failed
    BY <1>1, <1>5, <2>2, WriteStep
  <2> QED
    BY <2>1, <2>2
<1> QED
  BY <1>6, <1>7 DEF Kept

LEMMA StartSyncKeeps ==
  ASSUME IInv, NEW c \in {"full_sync", "close"}, StartSync(c)
  PROVE  Kept
<1>1. /\ mode = "open" /\ pc = "idle" /\ Called
      /\ closing' = (closing \/ c = "close")
      /\ pc' = "sets" /\ call' = c
      /\ UNCHANGED <<disk, root, data, held, tramp, in_use, failed, mode, saved>>
  BY DEF StartSync, Usable, memory
<1>2. TypeOK'
  <2>1. calls' \in 0 .. MaxCalls /\ closing' \in BOOLEAN
    BY <1>1, CallsType DEF IInv, TypeOK
  <2>2. disk' \in Disks /\ in_use' \subseteq BlksOfFile(disk')
    BY <1>1, TypesOfAll DEF IInv
  <2> QED
    BY <1>1, <2>1, <2>2, TypesOfAll, OpenTypes DEF IInv, TypeOK
<1>3. CloseIsRight'
  BY <1>1 DEF IInv, CloseIsRight
<1>4. ~ failed' => PartsAreRight'
  BY <1>1 DEF IInv, PartsAreRight
<1>5. IInv'
  BY <1>1, <1>2, <1>3, <1>4, OpenKeeps
<1> QED
  BY <1>1, <1>2, <1>5, LengthSpoils DEF Kept, TypeOK

LEMMA SyncThrowsKeeps ==
  ASSUME IInv, SyncThrows
  PROVE  Kept
<1>1. /\ mode = "open" /\ pc = "sets" /\ pc' = "idle"
      /\ UNCHANGED <<disk, root, data, held, tramp, in_use, closing, failed, mode, call, calls, saved>>
  BY DEF SyncThrows, memory
<1>2. TypeOK'
  <2>1. disk' \in Disks /\ in_use' \subseteq BlksOfFile(disk')
    BY <1>1, TypesOfAll DEF IInv
  <2> QED
    BY <1>1, <2>1, TypesOfAll, OpenTypes DEF IInv, TypeOK
<1>3. CloseIsRight'
  BY <1>1 DEF IInv, CloseIsRight
<1>4. ~ failed' => PartsAreRight'
  BY <1>1 DEF IInv, PartsAreRight
<1>5. IInv'
  BY <1>1, <1>2, <1>3, <1>4, OpenKeeps
<1> QED
  BY <1>1, <1>2, <1>5, LengthSpoils DEF Kept, TypeOK

\* The root set of the sync, with what its blocks have now.
LEMMA EndSetsKeeps ==
  ASSUME IInv, NEW release \in BOOLEAN, EndSets(release)
  PROVE  Kept
<1>1. /\ mode = "open" /\ pc = "sets" /\ pc' \in {"release", "root"}
      /\ root' \in [sz : Sizes, blks : {held}]
      /\ data' = [b \in held |-> disk.at[b]]
      /\ UNCHANGED <<disk, held, tramp, in_use, closing, failed, mode, call, calls, saved>>
  BY DEF EndSets
<1>2. /\ disk \in Disks /\ held \subseteq AllBlks /\ in_use \subseteq BlksOfFile(disk)
      /\ disk.at \in [AllBlks -> Contents]
  BY <1>1, TypesOfAll, DiskFields DEF IInv
<1>3. root' \in Roots /\ root'.blks = held
  BY <1>1, <1>2 DEF Roots
<1>4. data' \in [root'.blks -> Contents] /\ \A b \in held : disk.at[b] = data'[b]
  BY <1>1, <1>2, <1>3
<1>5. TypeOK'
  BY <1>1, <1>2, <1>3, <1>4, TypesOfAll, OpenTypes DEF IInv, TypeOK
<1>6. CloseIsRight'
  BY <1>1 DEF IInv, CloseIsRight
<1>7. ~ failed' => PartsAreRight'
  BY <1>1, <1>3, <1>4 DEF IInv, PartsAreRight
<1>8. IInv'
  BY <1>1, <1>5, <1>6, <1>7, OpenKeeps
<1>9. Store!Next
  <2>1. CASE failed
    BY <1>1, <1>5, <2>1, BrokenStep
  <2>2. CASE ~ failed
    <3>1. Store!IsImage([root |-> root', data |-> data'])
      BY <1>3, <1>4, ImageType
    <3>2. Store!Change
      BY <1>1, <2>2, <3>1 DEF Store!Change, NotOpen
    <3> QED
      BY <3>2 DEF Store!Next
  <2> QED
    BY <2>1, <2>2
<1> QED
  BY <1>8, <1>9 DEF Kept

-----------------------------------------------------------------------------
(* The writes of a sync *)

LEMMA ReleaseKeeps ==
  ASSUME IInv, Release
  PROVE  Kept
<1>1. /\ mode = "open" /\ pc = "release" /\ pc' = "root"
      /\ disk' = Released(disk, in_use)
      /\ UNCHANGED <<root, data, held, tramp, in_use, closing, failed, mode, call, calls, saved>>
  BY DEF Release, memory
<1>2. /\ disk' \in Disks /\ in_use' \subseteq BlksOfFile(disk')
      /\ disk' = disk \/ disk'.tail = << >>
      /\ disk'.header = disk.header /\ \A b \in in_use : disk'.at[b] = disk.at[b]
  BY <1>1, TypesOfAll, ReleasedFacts DEF IInv
<1>3. TypeOK'
  BY <1>1, <1>2, TypesOfAll, OpenTypes DEF IInv, TypeOK
<1>4. CloseIsRight'
  BY <1>1, <1>2 DEF IInv, CloseIsRight
<1>5. ~ failed' => PartsAreRight'
  BY <1>1, <1>2 DEF IInv, PartsAreRight
<1>6. IInv'
  BY <1>1, <1>3, <1>4, <1>5, OpenKeeps
<1> QED
  BY <1>1, <1>2, <1>3, <1>6, LengthSpoils DEF Kept, TypeOK

\* The space as write_root_set may find it: all that is given is in the file,
\* that did not shrink,
GoodSpace(t) ==
  /\ t \in [blks : SUBSET AllBlks, past_end : Ends, used : SUBSET AllBlks]
  /\ disk.past_end \in begin_blk_nr .. t.past_end
  /\ t.used \subseteq begin_blk_nr .. t.past_end - 1

\* and the sets have theirs.
ApartSpace(t) == held \subseteq t.used /\ t.blks \cap held = {}

LEMMA SpaceFields ==
  ASSUME NEW t, GoodSpace(t)
  PROVE  /\ t = [blks |-> t.blks, past_end |-> t.past_end, used |-> t.used]
         /\ t.blks \subseteq AllBlks /\ t.past_end \in Ends /\ t.used \subseteq AllBlks
         /\ t.past_end \in Nat /\ t.past_end >= 1 /\ t.past_end <= BlkNrExhaust
         /\ disk.past_end <= t.past_end /\ disk.past_end \in Nat /\ disk.past_end >= 1
         /\ t.used \subseteq 1 .. t.past_end - 1
BY BlkFacts DEF GoodSpace

LEMMA DeallocsFacts ==
  ASSUME NEW t, GoodSpace(t), NEW d \in Deallocs(t) \cup DeallocFails(t)
  PROVE  /\ GoodSpace(d) /\ d.blks = t.blks
         /\ ApartSpace(t) => ApartSpace(d)
         /\ d \in Deallocs(t) => t.blks \subseteq t.used /\ d.used \cap d.blks = {}
         /\ d \in DeallocFails(t) => ~ t.blks \subseteq t.used
<1>1. PICK x \in SUBSET t.blks :
        /\ d = [t EXCEPT !.used = @ \ x]
        /\ d \in Deallocs(t) => x = t.blks
  BY DEF Deallocs, DeallocFails
<1>2. d = [blks |-> t.blks, past_end |-> t.past_end, used |-> t.used \ x]
  <2>1. t = [blks |-> t.blks, past_end |-> t.past_end, used |-> t.used]
    BY SpaceFields
  <2> DEFINE used == t.used \ x
  <2>2. d = [t EXCEPT !.used = used]
    BY <1>1
  <2> HIDE DEF used
  <2>3. d = [blks |-> t.blks, past_end |-> t.past_end, used |-> used]
    BY <2>1, <2>2
  <2> QED
    BY <2>3 DEF used
<1>3. d.blks = t.blks /\ d.past_end = t.past_end /\ d.used = t.used \ x
  BY <1>2
<1>4. GoodSpace(d)
  BY <1>2, <1>3, SpaceFields DEF GoodSpace
<1>5. ApartSpace(t) => ApartSpace(d)
  BY <1>1, <1>3 DEF ApartSpace
<1>6. d \in Deallocs(t) => t.blks \subseteq t.used /\ d.used \cap d.blks = {}
  BY <1>1, <1>3 DEF Deallocs
<1>7. d \in DeallocFails(t) => ~ t.blks \subseteq t.used
  BY DEF DeallocFails
<1> QED
  BY <1>3, <1>4, <1>5, <1>6, <1>7

\* An alloc takes blocks that are free, or at the end of the file.
LEMMA AllocsFacts ==
  ASSUME NEW t, GoodSpace(t), NEW n, NEW a \in Allocs(t, n)
  PROVE  /\ GoodSpace(a) /\ a.blks \subseteq a.used
         /\ ApartSpace(t) => ApartSpace(a)
         /\ GoodSpace([a EXCEPT !.blks = t.blks])
         /\ ApartSpace(t) => ApartSpace([a EXCEPT !.blks = t.blks])
<1>1. PICK s \in SUBSET FreeIn(t), grow \in 0 .. BlkNrExhaust - t.past_end :
        a = [blks |-> s \cup (t.past_end .. t.past_end + grow - 1), past_end |-> t.past_end + grow,
             used |-> t.used \cup s \cup (t.past_end .. t.past_end + grow - 1)]
  <2>1. PICK x \in (SUBSET FreeIn(t)) \X (0 .. BlkNrExhaust - t.past_end) :
          a = [blks |-> x[1] \cup (t.past_end .. t.past_end + x[2] - 1), past_end |-> t.past_end + x[2],
               used |-> t.used \cup x[1] \cup (t.past_end .. t.past_end + x[2] - 1)]
    BY DEF Allocs
  <2>2. x[1] \in SUBSET FreeIn(t) /\ x[2] \in 0 .. BlkNrExhaust - t.past_end
    OBVIOUS
  <2> QED
    BY <2>1, <2>2
<1> DEFINE new == t.past_end .. t.past_end + grow - 1
           p == t.past_end + grow
<1>2. /\ p \in Ends /\ t.past_end <= p /\ disk.past_end \in begin_blk_nr .. p
      /\ new \subseteq begin_blk_nr .. p - 1 /\ new \cap t.used = {} /\ new \subseteq AllBlks
      /\ t.used \subseteq begin_blk_nr .. p - 1
  <2>1. /\ disk.past_end <= t.past_end /\ t.past_end \in Nat /\ t.past_end >= 1
        /\ t.past_end <= BlkNrExhaust
        /\ disk.past_end \in Nat /\ disk.past_end >= 1
    BY SpaceFields
  <2>2. p \in Ends /\ t.past_end <= p /\ p \in Nat
    BY <2>1, BlkFacts
  <2>3. new \subseteq begin_blk_nr .. p - 1 /\ new \subseteq AllBlks
    BY <2>1, <2>2, BlkFacts
  <2>4. new \cap t.used = {} /\ t.used \subseteq begin_blk_nr .. p - 1
    BY <2>1, <2>2, SpaceFields, BlkFacts
  <2>5. disk.past_end \in begin_blk_nr .. p
    BY <2>1, <2>2, BlkFacts
  <2> QED
    BY <2>2, <2>3, <2>4, <2>5
<1>3. FreeIn(t) \cap t.used = {} /\ FreeIn(t) \subseteq begin_blk_nr .. p - 1 /\ FreeIn(t) \subseteq AllBlks
  <2>1. t.past_end \in Nat /\ t.past_end <= BlkNrExhaust /\ p \in Nat /\ t.past_end <= p
    BY <1>2, SpaceFields, BlkFacts
  <2> HIDE DEF p, new
  <2> QED
    BY <2>1, BlkFacts DEF FreeIn
<1>4. a = [blks |-> s \cup new, past_end |-> p, used |-> t.used \cup s \cup new]
  BY <1>1
<1> HIDE DEF new, p
<1>5. a.blks = s \cup new /\ a.past_end = p /\ a.used = t.used \cup s \cup new
  BY <1>4
<1>6. /\ s \cup new \subseteq AllBlks /\ t.used \cup s \cup new \subseteq AllBlks
      /\ t.used \cup s \cup new \subseteq begin_blk_nr .. p - 1
  BY <1>2, <1>3, SpaceFields
<1>7. GoodSpace(a) /\ a.blks \subseteq a.used
  BY <1>2, <1>4, <1>5, <1>6 DEF GoodSpace
<1> DEFINE c == [a EXCEPT !.blks = t.blks]
<1>8. c = [blks |-> t.blks, past_end |-> p, used |-> t.used \cup s \cup new]
  BY <1>4
<1> HIDE DEF c
<1>9. c.blks = t.blks /\ c.past_end = p /\ c.used = t.used \cup s \cup new
  BY <1>8
<1>10. GoodSpace(c)
  BY <1>2, <1>6, <1>8, <1>9, SpaceFields DEF GoodSpace
<1>11. ApartSpace(t) => ApartSpace(a) /\ ApartSpace(c)
  BY <1>2, <1>3, <1>5, <1>9 DEF ApartSpace
<1> QED
  BY <1>7, <1>10, <1>11 DEF c

\* What update_trampoline_space starts from.
LEMMA SpaceFacts ==
  ASSUME IInv, mode = "open"
  PROVE  /\ GoodSpace(Space) /\ Space.blks = tramp
         /\ pc = "root" /\ ~ failed => ApartSpace(Space) /\ tramp \subseteq Space.used
<1>1. /\ disk \in Disks /\ tramp \subseteq AllBlks /\ in_use \subseteq AllBlks
      /\ in_use \subseteq BlksOfFile(disk) /\ disk.past_end \in Ends /\ disk.past_end \in Nat
  BY TypesOfAll, DiskFields DEF IInv
<1>2. Space.blks = tramp /\ Space.past_end = disk.past_end /\ Space.used = in_use
  BY DEF Space
<1>3. GoodSpace(Space)
  <2>1. disk.past_end \in begin_blk_nr .. disk.past_end
    BY <1>1, BlkFacts
  <2> QED
    BY <1>1, <2>1 DEF GoodSpace, Space, BlksOfFile
<1>4. pc = "root" /\ ~ failed => ApartSpace(Space) /\ tramp \subseteq Space.used
  BY <1>2 DEF IInv, PartsAreRight, ApartSpace
<1> QED
  BY <1>2, <1>3, <1>4

\* The trampoline of the first allocation, or the one that there was.
LEMMA ResizedFacts ==
  ASSUME IInv, mode = "open", pc = "root", NEW t \in Resized
  PROVE  /\ GoodSpace(t)
         /\ ~ failed => ApartSpace(t) /\ t.blks \subseteq t.used
<1>1. CASE t = Space
  BY <1>1, SpaceFacts
<1>2. CASE \E d \in Deallocs(Space) : t \in Allocs(d, BlkCnt(root.sz))
  <2>1. PICK d \in Deallocs(Space) : t \in Allocs(d, BlkCnt(root.sz))
    BY <1>2
  <2>2. GoodSpace(d) /\ (~ failed => ApartSpace(d))
    BY SpaceFacts, DeallocsFacts
  <2> QED
    BY <2>1, <2>2, AllocsFacts
<1>3. t = Space \/ \E d \in Deallocs(Space) : t \in Allocs(d, BlkCnt(root.sz))
  BY DEF Resized
<1> QED
  BY <1>1, <1>2, <1>3

LEMMA TrampolineSpaceFacts ==
  ASSUME IInv, mode = "open", pc = "root", NEW t \in TrampolineSpaces
  PROVE  /\ GoodSpace(t)
         /\ ~ failed => ApartSpace(t) /\ t.blks \subseteq t.used
<1>1. CASE t \in Resized
  BY <1>1, ResizedFacts
<1>2. CASE \E u \in Resized : t \in Compacted(u)
  <2>0. PICK u \in Resized : t \in Compacted(u)
    BY <1>2
  <2>1. PICK d \in Deallocs(u) : t \in Allocs(d, BlkCnt(root.sz))
    BY <2>0 DEF Compacted, SingleExtents
  <2>2. GoodSpace(u) /\ (~ failed => ApartSpace(u))
    BY ResizedFacts
  <2>3. GoodSpace(d) /\ (~ failed => ApartSpace(d))
    BY <2>2, DeallocsFacts
  <2> QED
    BY <2>1, <2>3, AllocsFacts
<1>3. t \in Resized \/ \E u \in Resized : t \in Compacted(u)
  BY DEF TrampolineSpaces
<1> QED
  BY <1>1, <1>2, <1>3

\* A trampoline of several extents is not empty.
LEMMA NotFit ==
  ASSUME NEW t, ~ Fits(t)
  PROVE  t.blks # {}
<1>1. SUFFICES ASSUME t.blks = {} PROVE FALSE
  OBVIOUS
<1>2. {b \in t.blks : b - 1 \notin t.blks} = {}
  BY <1>1
<1>3. ExtCnt(t.blks) = 0
  BY <1>2, FS_EmptySet DEF ExtCnt
<1> QED
  BY <1>3, FileAssumption DEF Fits

\* A sync that fails leaves the trampoline as it was or names free blocks.
LEMMA TrampolineFailFacts ==
  ASSUME IInv, mode = "open", pc = "root", NEW t \in TrampolineFails
  PROVE  /\ GoodSpace(t)
         /\ ~ failed => ApartSpace(t) /\ (t.blks \subseteq t.used => t.blks = tramp)
<1>1. CASE t \in DeallocFails(Space)
  BY <1>1, SpaceFacts, DeallocsFacts
<1>2. CASE \E d \in Deallocs(Space) : t \in AllocFails(d, BlkCnt(root.sz))
  <2>1. PICK d \in Deallocs(Space) : t \in AllocFails(d, BlkCnt(root.sz))
    BY <1>2
  <2>2. GoodSpace(d) /\ (~ failed => ApartSpace(d)) /\ d.blks = tramp
    BY SpaceFacts, DeallocsFacts
  <2>3. PICK m \in 0 .. BlkCnt(root.sz) - 1 : \E a \in Allocs(d, m) : t = [a EXCEPT !.blks = d.blks]
    BY <2>1 DEF AllocFails
  <2> PICK a \in Allocs(d, m) : t = [a EXCEPT !.blks = d.blks]
    BY <2>3
  <2>4. GoodSpace(t) /\ (~ failed => ApartSpace(t))
    BY <2>2, <2>3, AllocsFacts
  <2>5. t.blks = tramp
    <3>1. a = [blks |-> a.blks, past_end |-> a.past_end, used |-> a.used]
      BY <2>2, AllocsFacts, SpaceFields
    <3>2. [a EXCEPT !.blks = d.blks].blks = d.blks
      BY <3>1
    <3> QED
      BY <2>2, <2>3, <3>2
  <2> QED
    BY <2>4, <2>5
<1>3. CASE \E u \in Resized : ~ Fits(u) /\ t \in CompactFails(u)
  <2>1. PICK u \in Resized : ~ Fits(u) /\ t \in CompactFails(u)
    BY <1>3
  <2>2. GoodSpace(u) /\ (~ failed => ApartSpace(u) /\ u.blks \subseteq u.used)
    BY ResizedFacts
  <2>3. u.blks # {}
    BY <2>1, NotFit
  <2>4. t \in DeallocFails(u) \/ t \in Deallocs(u)
    BY <2>1 DEF CompactFails
  <2>5. GoodSpace(t) /\ t.blks = u.blks /\ (~ failed => ApartSpace(t) /\ t \in Deallocs(u))
    BY <2>2, <2>4, DeallocsFacts
  <2>6. ~ failed => ~ t.blks \subseteq t.used
    BY <2>2, <2>3, <2>5, DeallocsFacts
  <2> QED
    BY <2>5, <2>6
<1>4. \/ t \in DeallocFails(Space)
      \/ \E d \in Deallocs(Space) : t \in AllocFails(d, BlkCnt(root.sz))
      \/ \E u \in Resized : ~ Fits(u) /\ t \in CompactFails(u)
  BY DEF TrampolineFails, ResizeFails
<1> QED
  BY <1>1, <1>2, <1>3, <1>4

\* To take a space is to grow the file up to its end.
LEMMA TakesFacts ==
  ASSUME IInv, mode = "open", NEW t, GoodSpace(t), TakesSpace(t)
  PROVE  /\ disk' \in Disks /\ disk'.past_end = t.past_end
         /\ disk'.header = disk.header /\ disk'.at = disk.at
         /\ disk' = disk \/ disk'.tail = << >>
         /\ tramp' = t.blks /\ tramp' \subseteq AllBlks
         /\ in_use' = t.used /\ in_use' \subseteq BlksOfFile(disk')
         /\ UNCHANGED <<root, data, held>>
<1>1. tramp' = t.blks /\ in_use' = t.used /\ disk' = Grown(disk, t.past_end)
      /\ UNCHANGED <<root, data, held>>
  BY DEF TakesSpace
<1>2. disk \in Disks /\ t.past_end \in Ends /\ disk.past_end <= t.past_end
  BY TypesOfAll, SpaceFields DEF IInv
<1>3. /\ disk' \in Disks /\ disk'.past_end = t.past_end
      /\ disk'.header = disk.header /\ disk'.at = disk.at
      /\ disk' = disk \/ disk'.tail = << >>
  BY <1>1, <1>2, GrownFacts
<1>4. in_use' \subseteq BlksOfFile(disk')
  BY <1>1, <1>3 DEF BlksOfFile, GoodSpace
<1>5. t.blks \subseteq AllBlks
  BY SpaceFields
<1> QED
  BY <1>1, <1>3, <1>4, <1>5

\* The trampoline gets no block of a set.
LEMMA UpdateTrampolineKeeps ==
  ASSUME IInv, UpdateTrampoline
  PROVE  Kept
<1>1. PICK t \in TrampolineSpaces : TakesSpace(t)
  BY DEF UpdateTrampoline
<1>2. /\ mode = "open" /\ pc = "root" /\ pc' = "trampoline"
      /\ UNCHANGED <<closing, failed, mode, call, calls, saved>>
  BY DEF UpdateTrampoline
<1>3. GoodSpace(t) /\ (~ failed => ApartSpace(t) /\ t.blks \subseteq t.used)
  BY <1>2, TrampolineSpaceFacts
<1>4. /\ disk' \in Disks /\ disk'.header = disk.header /\ disk'.at = disk.at
      /\ disk' = disk \/ disk'.tail = << >>
      /\ tramp' = t.blks /\ tramp' \subseteq AllBlks
      /\ in_use' = t.used /\ in_use' \subseteq BlksOfFile(disk')
      /\ UNCHANGED <<root, data, held>>
  BY <1>1, <1>2, <1>3, TakesFacts
<1>5. TypeOK'
  BY <1>2, <1>4, TypesOfAll, OpenTypes DEF IInv, TypeOK
<1>6. CloseIsRight'
  BY <1>2, <1>4 DEF IInv, CloseIsRight
<1>7. ~ failed' => PartsAreRight'
  <2>1. SUFFICES ASSUME ~ failed PROVE PartsAreRight'
    BY <1>2
  <2>2. tramp' \cap held' = {} /\ tramp' \cup held' \subseteq in_use'
    BY <1>3, <1>4, <2>1 DEF ApartSpace
  <2>3. /\ root.blks = held /\ \A b \in held : disk.at[b] = data[b]
        /\ disk.header.tramp = tramp /\ \A b \in tramp : disk.at[b] = disk.header.root
    BY <1>2, <2>1 DEF IInv, PartsAreRight
  <2> QED
    BY <1>2, <1>4, <2>2, <2>3 DEF PartsAreRight
<1>8. IInv'
  BY <1>2, <1>5, <1>6, <1>7, OpenKeeps
<1> QED
  BY <1>2, <1>4, <1>5, <1>8, LengthSpoils DEF Kept, TypeOK

LEMMA UpdateTrampolineThrowsKeeps ==
  ASSUME IInv, UpdateTrampolineThrows
  PROVE  Kept
<1>1. PICK t \in TrampolineFails : TakesSpace(t)
  BY DEF UpdateTrampolineThrows
<1>2. /\ mode = "open" /\ pc = "root" /\ pc' = "idle"
      /\ failed' = (failed \/ ~ tramp' \subseteq in_use')
      /\ UNCHANGED <<closing, mode, call, calls, saved>>
  BY DEF UpdateTrampolineThrows
<1>3. GoodSpace(t) /\ (~ failed => ApartSpace(t) /\ (t.blks \subseteq t.used => t.blks = tramp))
  BY <1>2, TrampolineFailFacts
<1>4. /\ disk' \in Disks /\ disk'.header = disk.header /\ disk'.at = disk.at
      /\ disk' = disk \/ disk'.tail = << >>
      /\ tramp' = t.blks /\ tramp' \subseteq AllBlks
      /\ in_use' = t.used /\ in_use' \subseteq BlksOfFile(disk')
      /\ UNCHANGED <<root, data, held>>
  BY <1>1, <1>2, <1>3, TakesFacts
<1>5. TypeOK'
  <2>1. failed' \in BOOLEAN
    BY <1>2 DEF IInv, TypeOK
  <2> QED
    BY <1>2, <1>4, <2>1, TypesOfAll, OpenTypes DEF IInv, TypeOK
<1>6. CloseIsRight'
  BY <1>2, <1>4 DEF IInv, CloseIsRight
<1>7. ~ failed' => PartsAreRight'
  <2>1. SUFFICES ASSUME ~ failed, tramp' \subseteq in_use' PROVE PartsAreRight'
    BY <1>2
  <2>2. tramp' = tramp /\ tramp' \cap held' = {} /\ tramp' \cup held' \subseteq in_use'
    BY <1>3, <1>4, <2>1 DEF ApartSpace
  <2>3. disk.header.tramp = tramp /\ \A b \in tramp : disk.at[b] = disk.header.root
    BY <1>2, <2>1 DEF IInv, PartsAreRight
  <2> QED
    BY <1>2, <1>4, <2>2, <2>3 DEF PartsAreRight
<1>8. IInv'
  BY <1>2, <1>5, <1>6, <1>7, OpenKeeps
<1>9. failed' \in BOOLEAN /\ (failed => failed')
  BY <1>2, <1>5 DEF TypeOK
<1> QED
  BY <1>2, <1>4, <1>5, <1>8, <1>9, LengthSpoils DEF Kept

\* Writing the root set where the header looks for one makes nothing readable
\* that was not: it is there already or it is another.
LEMMA WriteTrampolineKeeps ==
  ASSUME IInv, NEW b \in AllBlks, WriteTrampoline(b)
  PROVE  Kept
<1>1. /\ mode = "open" /\ pc = "trampoline" /\ b \in tramp /\ disk.at[b] # root
      /\ disk' = [disk EXCEPT !.at[b] = root]
      /\ UNCHANGED <<root, data, held, tramp, in_use, closing, failed, mode, pc, call, calls, saved>>
  BY DEF WriteTrampoline, memory
<1>2. root \in Roots /\ root \in Contents /\ disk \in Disks
  BY TypesOfAll DEF IInv, Contents
<1>3. /\ disk' \in Disks /\ disk'.past_end = disk.past_end /\ disk'.tail = disk.tail
      /\ disk'.header = disk.header /\ disk'.at = [disk.at EXCEPT ![b] = root]
      /\ BlksOfFile(disk') = BlksOfFile(disk)
      /\ disk.at \in [AllBlks -> Contents] /\ disk.header.tramp \subseteq AllBlks
  BY <1>1, <1>2, BlkWritten, DiskFields, HeaderFields
<1>4. TypeOK'
  <2>1. in_use' \subseteq BlksOfFile(disk')
    BY <1>1, <1>3, TypesOfAll DEF IInv
  <2> QED
    BY <1>1, <1>3, <2>1, TypesOfAll, OpenTypes DEF IInv, TypeOK
<1>5. CloseIsRight'
  BY <1>1, <1>3 DEF IInv, CloseIsRight
<1>6. ASSUME ~ failed
      PROVE  /\ PartsAreRight'
             /\ root = disk.header.root => \A c \in disk.header.tramp : disk.at[c] = root
  <2>1. /\ tramp \cap held = {} /\ tramp \cup held \subseteq in_use
        /\ root.blks = held /\ \A c \in held : disk.at[c] = data[c]
        /\ root = disk.header.root => \A c \in disk.header.tramp : disk.at[c] = root
    BY <1>1, <1>6 DEF IInv, PartsAreRight
  <2>2. /\ \A c \in AllBlks : disk'.at[c] = IF c = b THEN root ELSE disk.at[c]
        /\ held \subseteq AllBlks
    BY <1>3, TypesOfAll DEF IInv
  <2>3. \A c \in held : disk'.at[c] = data[c]
    BY <1>1, <2>1, <2>2
  <2>4. root = disk.header.root => \A c \in disk.header.tramp : disk'.at[c] = root
    BY <1>3, <2>1, <2>2
  <2> QED
    BY <1>1, <1>3, <2>1, <2>3, <2>4 DEF PartsAreRight
<1>7. IInv'
  BY <1>1, <1>4, <1>5, <1>6, OpenKeeps
<1>8. Store!Next \/ UNCHANGED Store!vars
  <2>1. CASE failed
    BY <1>1, <1>4, <2>1, BrokenStep
  <2>2. CASE ~ failed /\ b \notin disk.header.tramp
    BY <1>1, <1>2, <2>2, WriteStep
  <2>3. CASE ~ failed /\ b \in disk.header.tramp
    <3>1. root # disk.header.root
      BY <1>1, <1>6, <2>3
    <3>2. disk'.at[b] = root /\ disk'.header = disk.header
      BY <1>3
    <3>3. ~ Opens(disk')
      BY <2>3, <3>1, <3>2 DEF Opens, RootIsRead
    <3> QED
      BY <1>1, <2>3, <3>3, SpoilStep
  <2> QED
    BY <2>1, <2>2, <2>3
<1> QED
  BY <1>7, <1>8 DEF Kept

\* The array misses blocks of the trampoline only if it has free ones.
LEMMA WriteTrampolineThrowsKeeps ==
  ASSUME IInv, WriteTrampolineThrows
  PROVE  Kept
<1>1. /\ mode = "open" /\ pc = "trampoline" /\ pc' = "idle"
      /\ ~ tramp \subseteq BlksOfFile(disk)
      /\ UNCHANGED <<disk, root, data, held, tramp, in_use, closing, failed, mode, call, calls, saved>>
  BY DEF WriteTrampolineThrows, memory
<1>2. disk \in Disks /\ in_use \subseteq BlksOfFile(disk)
  BY <1>1, TypesOfAll DEF IInv
<1>3. failed
  BY <1>1, <1>2 DEF IInv, PartsAreRight
<1>4. TypeOK'
  <2>1. disk' \in Disks /\ in_use' \subseteq BlksOfFile(disk')
    BY <1>1, <1>2
  <2> QED
    BY <1>1, <2>1, TypesOfAll, OpenTypes DEF IInv, TypeOK
<1>5. CloseIsRight'
  BY <1>1 DEF IInv, CloseIsRight
<1>6. IInv'
  BY <1>1, <1>3, <1>4, <1>5, OpenKeeps
<1> QED
  BY <1>1, <1>4, <1>6, LengthSpoils DEF Kept, TypeOK

LEMMA DropTrampolineKeeps ==
  ASSUME IInv, DropTrampoline
  PROVE  Kept
<1>1. PICK t \in Deallocs(Space) : in_use' = t.used
  BY DEF DropTrampoline
<1>2. /\ mode = "open" /\ pc = "root" /\ pc' = "trampoline" /\ tramp' = {}
      /\ UNCHANGED <<disk, root, data, held, closing, failed, mode, call, calls, saved>>
  BY DEF DropTrampoline
<1>3. GoodSpace(t) /\ (~ failed => ApartSpace(t))
  BY <1>2, SpaceFacts, DeallocsFacts
<1>4. in_use' \subseteq in_use
  BY <1>1 DEF Deallocs, Space
<1>5. TypeOK'
  <2>1. disk' \in Disks /\ in_use' \subseteq BlksOfFile(disk')
    <3>1. disk \in Disks /\ in_use \subseteq BlksOfFile(disk) /\ BlksOfFile(disk') = BlksOfFile(disk)
      BY <1>2, TypesOfAll DEF IInv
    <3> QED
      BY <1>2, <1>4, <3>1
  <2> QED
    BY <1>2, <2>1, TypesOfAll, OpenTypes DEF IInv, TypeOK
<1>6. CloseIsRight'
  BY <1>2 DEF IInv, CloseIsRight
<1>7. ~ failed' => PartsAreRight'
  <2>1. SUFFICES ASSUME ~ failed PROVE PartsAreRight'
    BY <1>2
  <2>2. tramp' \cap held' = {} /\ tramp' \cup held' \subseteq in_use'
    BY <1>1, <1>2, <1>3, <2>1 DEF ApartSpace
  <2>3. /\ root.blks = held /\ \A b \in held : disk.at[b] = data[b]
        /\ disk.header.tramp = tramp /\ \A b \in tramp : disk.at[b] = disk.header.root
    BY <1>2, <2>1 DEF IInv, PartsAreRight
  <2> QED
    BY <1>2, <2>2, <2>3 DEF PartsAreRight
<1>8. IInv'
  BY <1>2, <1>5, <1>6, <1>7, OpenKeeps
<1> QED
  BY <1>2, <1>5, <1>8, LengthSpoils DEF Kept, TypeOK

LEMMA DropTrampolineThrowsKeeps ==
  ASSUME IInv, DropTrampolineThrows
  PROVE  Kept
<1>1. PICK t \in DeallocFails(Space) : in_use' = t.used
  BY DEF DropTrampolineThrows
<1>2. /\ mode = "open" /\ pc = "root" /\ pc' = "idle"
      /\ UNCHANGED <<disk, root, data, held, tramp, closing, failed, mode, call, calls, saved>>
  BY DEF DropTrampolineThrows
<1>3. ~ tramp \subseteq in_use /\ in_use' \subseteq in_use
  BY <1>1 DEF DeallocFails, Space
<1>4. failed
  BY <1>2, <1>3 DEF IInv, PartsAreRight
<1>5. TypeOK'
  <2>1. disk' \in Disks /\ in_use' \subseteq BlksOfFile(disk')
    <3>1. disk \in Disks /\ in_use \subseteq BlksOfFile(disk) /\ BlksOfFile(disk') = BlksOfFile(disk)
      BY <1>2, TypesOfAll DEF IInv
    <3> QED
      BY <1>2, <1>3, <3>1
  <2> QED
    BY <1>2, <2>1, TypesOfAll, OpenTypes DEF IInv, TypeOK
<1>6. CloseIsRight'
  BY <1>2 DEF IInv, CloseIsRight
<1>7. IInv'
  BY <1>2, <1>4, <1>5, <1>6, OpenKeeps
<1> QED
  BY <1>2, <1>5, <1>7, LengthSpoils DEF Kept, TypeOK

\* The blocks of the trampoline and of the sets are in use, and so not cut.
LEMMA ReleaseAgainKeeps ==
  ASSUME IInv, ReleaseAgain
  PROVE  Kept
<1>1. /\ mode = "open" /\ pc = "trampoline" /\ pc' = "header"
      /\ \A b \in tramp : disk.at[b] = root
      /\ disk' = IF closing THEN Released(disk, in_use) ELSE disk
      /\ UNCHANGED <<root, data, held, tramp, in_use, closing, failed, mode, call, calls, saved>>
  BY DEF ReleaseAgain, LastRelease, memory
<1>2. disk \in Disks /\ in_use \subseteq BlksOfFile(disk)
  BY <1>1, TypesOfAll DEF IInv
<1>3. /\ disk' \in Disks /\ in_use' \subseteq BlksOfFile(disk')
      /\ disk' = disk \/ disk'.tail = << >>
      /\ \A b \in in_use : disk'.at[b] = disk.at[b]
      /\ closing => disk'.past_end = LastInUse(in_use) + 1
  <2>1. CASE closing
    BY <1>1, <1>2, <2>1, ReleasedFacts
  <2>2. CASE ~ closing
    BY <1>1, <1>2, <2>2
  <2> QED
    BY <2>1, <2>2
<1>4. TypeOK'
  BY <1>1, <1>3, TypesOfAll, OpenTypes DEF IInv, TypeOK
<1>5. CloseIsRight'
  BY <1>1, <1>3 DEF IInv, CloseIsRight
<1>6. ~ failed' => PartsAreRight'
  BY <1>1, <1>3 DEF IInv, PartsAreRight
<1>7. IInv'
  BY <1>1, <1>4, <1>5, <1>6, OpenKeeps
<1> QED
  BY <1>1, <1>3, <1>4, <1>7, LengthSpoils DEF Kept, TypeOK

\* What an open would read is what was in memory.
LEMMA LoadedIs ==
  ASSUME NEW d, d.header.root = root, data \in [root.blks -> Contents],
         \A b \in root.blks : d.at[b] = data[b]
  PROVE  Loaded(d) = [root |-> root, data |-> data]
<1>1. [b \in root.blks |-> d.at[b]] = data
  OBVIOUS
<1> QED
  BY <1>1 DEF Loaded, Image

LEMMA WriteHeaderKeeps ==
  ASSUME IInv, WriteHeader
  PROVE  Kept
<1> DEFINE h == Header(disk.past_end, root, tramp)
<1>1. /\ mode = "open" /\ pc = "header"
      /\ disk' = [disk EXCEPT !.header = h]
      /\ pc' = IF call = "close" THEN "truncate" ELSE "idle"
      /\ saved' = [root |-> root, data |-> data]
      /\ UNCHANGED <<root, data, held, tramp, in_use, closing, failed, mode, call, calls>>
  BY DEF WriteHeader, memory
<1>2. /\ disk \in Disks /\ in_use \subseteq BlksOfFile(disk) /\ root \in Roots /\ tramp \subseteq AllBlks
      /\ data \in [root.blks -> Contents]
  BY <1>1, TypesOfAll DEF IInv
<1>3. h \in Headers /\ h.root = root /\ h.tramp = tramp
  BY <1>2, DiskFields DEF Header, Headers
<1> HIDE DEF h
<1>4. disk' = [past_end |-> disk.past_end, tail |-> disk.tail, header |-> h, at |-> disk.at]
  <2>1. disk = [past_end |-> disk.past_end, tail |-> disk.tail, header |-> disk.header, at |-> disk.at]
    BY <1>2, DiskFields
  <2> QED
    BY <1>1, <2>1
<1>5. /\ disk'.past_end = disk.past_end /\ disk'.tail = disk.tail
      /\ disk'.header = h /\ disk'.at = disk.at
  BY <1>4
<1>6. disk' \in Disks
  BY <1>2, <1>3, <1>4, DiskFields DEF Disks
<1>7. BlksOfFile(disk') = BlksOfFile(disk)
  BY <1>5 DEF BlksOfFile
<1>8. TypeOK'
  <2>1. in_use' \subseteq BlksOfFile(disk') /\ pc' \in {"truncate", "idle"}
    BY <1>1, <1>2, <1>7
  <2>2. Store!IsImage(saved')
    BY <1>1, <1>2, ImageType
  <2> QED
    BY <1>1, <1>6, <2>1, <2>2, TypesOfAll, OpenTypes DEF IInv, TypeOK
<1>9. CloseIsRight'
  <2>1. CASE call = "close"
    <3>1. closing /\ disk.past_end = LastInUse(in_use) + 1 /\ disk.tail \in {<< >>, <<"EOF">>}
      BY <1>1, <2>1 DEF IInv, CloseIsRight
    <3>2. pc' = "truncate" /\ disk'.header = Header(disk'.past_end, root, tramp)
      BY <1>1, <1>5, <2>1 DEF h
    <3> QED
      BY <1>1, <1>5, <3>1, <3>2 DEF CloseIsRight
  <2>2. CASE call # "close"
    <3>1. pc' = "idle"
      BY <1>1, <2>2
    <3> QED
      BY <1>1, <1>5, <3>1 DEF IInv, CloseIsRight
  <2> QED
    BY <2>1, <2>2
<1>10. ASSUME ~ failed
       PROVE  PartsAreRight' /\ Loaded(disk') = [root |-> root, data |-> data]
  <2>1. /\ tramp \cap held = {} /\ tramp \cup held \subseteq in_use
        /\ root.blks = held /\ \A b \in held : disk.at[b] = data[b]
        /\ \A b \in tramp : disk.at[b] = root
    BY <1>1, <1>10 DEF IInv, PartsAreRight
  <2>2. pc' \in {"truncate", "idle"}
    BY <1>1
  <2>3. PartsAreRight'
    BY <1>1, <1>3, <1>5, <2>1, <2>2 DEF PartsAreRight
  <2>4. Loaded(disk') = [root |-> root, data |-> data]
    BY <1>2, <1>3, <1>5, <2>1, LoadedIs
  <2> QED
    BY <2>3, <2>4
<1>11. IInv'
  BY <1>1, <1>8, <1>9, <1>10, OpenKeeps
<1>12. Store!Next
  <2>1. CASE failed
    BY <1>1, <1>8, <2>1, BrokenStep
  <2>2. CASE ~ failed /\ Opens(disk')
    <3>1. Stored' = [root |-> root, data |-> data] /\ Saved' = [root |-> root, data |-> data]
      BY <1>1, <1>10, <2>2 DEF Stored, Saved
    <3>2. Store!Save
      BY <1>1, <2>2, <3>1 DEF Store!Save, NotOpen, Stored, Saved
    <3> QED
      BY <3>2 DEF Store!Next
  <2>3. CASE ~ failed /\ ~ Opens(disk')
    BY <1>1, <2>3, SpoilStep
  <2> QED
    BY <2>1, <2>2, <2>3
<1> QED
  BY <1>11, <1>12 DEF Kept

LEMMA TruncateToCloseKeeps ==
  ASSUME IInv, TruncateToClose
  PROVE  Kept
<1>1. /\ mode = "open" /\ pc = "truncate" /\ pc' = "trailer"
      /\ disk' = Truncated(disk, disk.past_end)
      /\ UNCHANGED <<root, data, held, tramp, in_use, closing, failed, mode, call, calls, saved>>
  BY DEF TruncateToClose, memory
<1>2. /\ disk \in Disks /\ in_use \subseteq BlksOfFile(disk)
      /\ disk.past_end \in Ends /\ disk.past_end \in Nat
      /\ BlksOfFile(disk) = 1 .. disk.past_end - 1 /\ BlksOfFile(disk) \subseteq AllBlks
  <2>1. disk \in Disks /\ in_use \subseteq BlksOfFile(disk)
    BY <1>1, TypesOfAll DEF IInv
  <2> QED
    BY <2>1, DiskFields
<1>3. /\ disk' \in Disks /\ disk'.past_end = disk.past_end
      /\ disk'.tail = << >> /\ disk'.header = disk.header
      /\ \A b \in AllBlks : b < disk.past_end => disk'.at[b] = disk.at[b]
  BY <1>1, <1>2, TruncatedFacts
<1>4. BlksOfFile(disk') = BlksOfFile(disk)
  BY <1>3 DEF BlksOfFile
<1>5. \A b \in in_use : disk'.at[b] = disk.at[b]
  BY <1>2, <1>3
<1>6. TypeOK'
  <2>1. in_use' \subseteq BlksOfFile(disk')
    BY <1>1, <1>2, <1>4
  <2> QED
    BY <1>1, <1>3, <2>1, TypesOfAll, OpenTypes DEF IInv, TypeOK
<1>7. CloseIsRight'
  BY <1>1, <1>3 DEF IInv, CloseIsRight
<1>8. ~ failed' => PartsAreRight'
  BY <1>1, <1>3, <1>5 DEF IInv, PartsAreRight
<1>9. IInv'
  BY <1>1, <1>6, <1>7, <1>8, OpenKeeps
<1> QED
  BY <1>1, <1>3, <1>6, <1>9, LengthSpoils DEF Kept, TypeOK

-----------------------------------------------------------------------------
(* The ends of an open file, and its opening *)

\* Nothing is kept of a file that is not open but what a close wrote.
LEMMA NotOpenKeeps ==
  ASSUME TypeOK,
         mode' \in {"closed", "panicked", "crashed", "refused"}, pc' = "idle",
         disk' \in Disks, closing' \in BOOLEAN,
         UNCHANGED <<root, data, held, tramp, in_use, failed, call, calls, saved>>,
         HeaderTellsTheFile'
  PROVE  IInv'
<1>1. TypeOK'
  BY DEF TypeOK, Disks, Tails, Headers, Ends
<1> QED
  BY <1>1 DEF IInv

\* The file that a close leaves is the one that an open accepts.
LEMMA WriteTrailerKeeps ==
  ASSUME IInv, WriteTrailer
  PROVE  Kept
<1>1. /\ mode = "open" /\ mode' = "closed" /\ pc = "trailer" /\ pc' = "idle"
      /\ closing' = FALSE
      /\ disk' = [disk EXCEPT !.tail = Append(disk.tail, "EOF")]
      /\ UNCHANGED <<root, data, held, tramp, in_use, failed, call, calls, saved>>
  BY DEF WriteTrailer, memory
<1>2. /\ disk.tail = << >> /\ disk.header = Header(disk.past_end, root, tramp)
      /\ disk.past_end = LastInUse(in_use) + 1
  BY <1>1 DEF IInv, CloseIsRight
<1>3. disk \in Disks /\ in_use \subseteq BlksOfFile(disk) /\ data \in [root.blks -> Contents]
  BY <1>1, TypesOfAll DEF IInv
<1>4. /\ disk' \in Disks /\ disk'.tail = <<"EOF">>
      /\ disk'.past_end = disk.past_end /\ disk'.header = disk.header /\ disk'.at = disk.at
  <2>1. disk' = [disk EXCEPT !.tail = <<"EOF">>] /\ <<"EOF">> \in Tails
    BY <1>1, <1>2, TailFacts DEF Tails
  <2> QED
    BY <1>3, <2>1, TailWritten
<1>5. disk.header.past_end = disk.past_end /\ disk.header.root = root /\ disk.header.tramp = tramp
  BY <1>2 DEF Header
<1>6. TypeOK' /\ IInv'
  <2>1. LastInUse(in_use') = LastInUse(in_use)
    BY <1>1 DEF LastInUse
  <2>2. HeaderTellsTheFile'
    BY <1>2, <1>4, <1>5, <2>1 DEF HeaderTellsTheFile
  <2>3. IInv'
    BY <1>1, <1>4, <2>2, NotOpenKeeps DEF IInv
  <2> QED
    BY <2>3 DEF IInv
<1>7. CASE ~ failed
  <2>1. /\ tramp \cap held = {} /\ tramp \cup held \subseteq in_use /\ root.blks = held
        /\ \A b \in held : disk.at[b] = data[b]
        /\ \A b \in tramp : disk.at[b] = root
        /\ saved = [root |-> root, data |-> data]
    BY <1>1, <1>7 DEF IInv, PartsAreRight
  <2>2. BlksOfFile(disk') = BlksOfFile(disk)
    BY <1>4 DEF BlksOfFile
  <2>3. RootIsRead(disk')
    BY <1>3, <1>4, <1>5, <2>1, <2>2 DEF RootIsRead
  <2>4. AllocatorStarts(disk')
    BY <1>3, <1>4, <1>5, <2>1, <2>2 DEF AllocatorStarts
  <2>5. Opens(disk')
    BY <1>4, <2>3, <2>4 DEF Opens, TrailerIsGood
  <2>6. Loaded(disk') = [root |-> root, data |-> data]
    BY <1>3, <1>4, <1>5, <2>1, LoadedIs
  <2>7. Stored' = [root |-> root, data |-> data] /\ Saved' = [root |-> root, data |-> data]
    BY <1>1, <2>1, <2>5, <2>6 DEF Stored, Saved
  <2>8. Store!Close
    BY <1>1, <1>7, <2>5, <2>7 DEF Store!Close, NotOpen, Stored, Saved
  <2> QED
    BY <1>6, <2>8 DEF Kept, Store!Next
<1>8. CASE failed
  BY <1>1, <1>6, <1>8, BrokenStep DEF Kept
<1> QED
  BY <1>7, <1>8

LEMMA PanicCloseKeeps ==
  ASSUME IInv, PanicClose
  PROVE  Kept
<1>1. /\ mode = "open" /\ mode' = "panicked" /\ pc = "idle" /\ pc' = "idle"
      /\ closing' = FALSE
      /\ disk' = [disk EXCEPT !.tail = Append(disk.tail, "BAD")]
      /\ UNCHANGED <<root, data, held, tramp, in_use, failed, call, calls, saved>>
  BY DEF PanicClose, panic_trailer, memory
<1>2. disk \in Disks /\ disk.tail \in {<< >>, <<"EOF">>}
  BY <1>1, TypesOfAll DEF IInv, CloseIsRight
<1>3. Append(disk.tail, "BAD") \in Tails /\ Append(disk.tail, "BAD") # <<"EOF">>
  BY <1>2, TailFacts DEF Tails
<1>4. disk' \in Disks /\ disk'.tail # <<"EOF">>
  BY <1>1, <1>2, <1>3, TailWritten
<1>5. IInv'
  BY <1>1, <1>4, NotOpenKeeps DEF IInv, HeaderTellsTheFile
<1>6. ~ Opens(disk')
  BY <1>4 DEF Opens, TrailerIsGood
<1>7. Store!Panic
  BY <1>1, <1>6 DEF Store!Panic, NotOpen
<1> QED
  BY <1>5, <1>7 DEF Kept, Store!Next

LEMMA CrashKeeps ==
  ASSUME IInv, Crash
  PROVE  Kept
<1>1. /\ mode = "open" /\ mode' = "crashed" /\ pc' = "idle"
      /\ UNCHANGED <<disk, root, data, held, tramp, in_use, closing, failed, call, calls, saved>>
  BY DEF Crash, memory
<1>2. IInv'
  <2>1. disk' \in Disks /\ closing' \in BOOLEAN
    BY <1>1, TypesOfAll DEF IInv, TypeOK
  <2> QED
    BY <1>1, <2>1, NotOpenKeeps DEF IInv, HeaderTellsTheFile
<1>3. CASE failed
  BY <1>1, <1>2, <1>3, BrokenStep DEF Kept, IInv
<1>4. CASE ~ failed
  <2>1. Opens(disk') = Opens(disk) /\ Loaded(disk') = Loaded(disk)
    BY <1>1
  <2>2. Store!Crash
    BY <1>1, <1>4, <2>1 DEF Store!Crash, NotOpen
  <2> QED
    BY <1>2, <2>2 DEF Kept, Store!Next
<1> QED
  BY <1>3, <1>4

\* The allocator starts from what the sets and the trampoline have.
LEMMA OpenFileKeeps ==
  ASSUME IInv, Open
  PROVE  Kept
<1>1. /\ NotOpen /\ Opens(disk) /\ mode' = "open" /\ Called
      /\ root' = disk.header.root /\ data' = Loaded(disk).data
      /\ held' = disk.header.root.blks
      /\ tramp' = disk.header.tramp
      /\ in_use' = disk.header.root.blks \cup disk.header.tramp
      /\ saved' = Loaded(disk)
      /\ closing' = FALSE /\ failed' = FALSE
      /\ UNCHANGED <<disk, pc, call>>
  BY DEF Open, CollectedSegments
<1>2. mode \in {"closed", "panicked", "crashed"} /\ pc = "idle"
  BY <1>1 DEF IInv, NotOpen
<1>3. disk \in Disks /\ disk.header \in Headers /\ disk.at \in [AllBlks -> Contents]
  BY TypesOfAll, DiskFields DEF IInv
<1>4. /\ disk.header.root.blks \cup disk.header.tramp \subseteq BlksOfFile(disk)
      /\ disk.header.root.blks \cap disk.header.tramp = {}
      /\ disk.tail = <<"EOF">>
      /\ \A b \in disk.header.tramp : disk.at[b] = disk.header.root
  BY <1>1 DEF Opens, AllocatorStarts, TrailerIsGood, RootIsRead
<1>5. /\ root' \in Roots /\ held' \subseteq AllBlks /\ tramp' \subseteq AllBlks
      /\ root'.blks = held'
  BY <1>1, <1>3, HeaderFields
<1>6. data' = [b \in held' |-> disk.at[b]] /\ saved' = [root |-> root', data |-> data']
  <2> DEFINE f == [b \in disk.header.root.blks |-> disk.at[b]]
  <2>1. Loaded(disk) = [root |-> disk.header.root, data |-> f]
    BY DEF Loaded, Image
  <2> HIDE DEF f
  <2>2. Loaded(disk).data = f
    BY <2>1
  <2>3. data' = f /\ saved' = [root |-> root', data |-> data']
    BY <1>1, <2>1, <2>2
  <2> QED
    BY <1>1, <2>3 DEF f
<1>7. data' \in [root'.blks -> Contents]
  BY <1>3, <1>5, <1>6
<1>8. TypeOK'
  <2>1. calls' \in 0 .. MaxCalls /\ call \in {"full_sync", "close"}
    BY <1>1, CallsType DEF IInv, TypeOK
  <2>2. in_use' \subseteq BlksOfFile(disk')
    BY <1>1, <1>4 DEF BlksOfFile
  <2>3. Store!IsImage(saved')
    BY <1>1, <1>3, LoadedType
  <2> QED
    BY <1>1, <1>2, <1>3, <1>5, <1>7, <2>1, <2>2, <2>3, OpenTypes
<1>9. CloseIsRight'
  BY <1>1, <1>2, <1>4 DEF CloseIsRight
<1>10. PartsAreRight'
  BY <1>1, <1>2, <1>4 DEF PartsAreRight
<1>11. IInv'
  BY <1>1, <1>8, <1>9, <1>10, OpenKeeps
<1>12. Opens(disk') /\ Loaded(disk') = Loaded(disk) /\ Loaded(disk) # Unreadable
  BY <1>1, <1>3, LoadedType
<1>13. CASE failed /\ mode \in {"closed", "crashed"}
  <2>1. Store!IsImage([root |-> root', data |-> data'])
    BY <1>5, <1>7, ImageType
  <2>2. StoreMode = "broken" /\ StoreMode' = "open"
    BY <1>1, <1>13 DEF StoreMode, NotOpen
  <2>3. /\ InMemory' = [root |-> root', data |-> data'] /\ Stored' = InMemory' /\ Saved' = InMemory'
    BY <1>1, <1>6, <1>12 DEF InMemory, Stored, Saved
  <2>4. Store!Mended
    BY <2>1, <2>2, <2>3 DEF Store!Mended, InMemory, Stored, Saved, StoreMode
  <2> QED
    BY <1>11, <2>4 DEF Kept, Store!Next
<1>14. CASE ~ (failed /\ mode \in {"closed", "crashed"})
  <2>1. StoreMode = "closed" /\ StoreMode' = "open"
    BY <1>1, <1>2, <1>14 DEF StoreMode, NotOpen
  <2>2. /\ Stored = Loaded(disk) /\ Stored' = Loaded(disk) /\ Saved' = Loaded(disk)
        /\ InMemory' = Loaded(disk)
    BY <1>1, <1>6, <1>12 DEF InMemory, Stored, Saved
  <2>3. Store!Open
    BY <1>12, <2>1, <2>2 DEF Store!Open, InMemory, Stored, Saved, StoreMode
  <2> QED
    BY <1>11, <2>3 DEF Kept, Store!Next
<1> QED
  BY <1>13, <1>14

\* It refuses what is not readable or what was not saved as a whole.
LEMMA OpenThrowsKeeps ==
  ASSUME IInv, OpenThrows
  PROVE  Kept
<1>1. /\ NotOpen /\ mode' = "refused" /\ (~ Opens(disk) \/ Loaded(disk) # saved)
      /\ UNCHANGED <<disk, root, data, held, tramp, in_use, closing, failed, pc, call, calls, saved>>
  BY DEF OpenThrows, memory
<1>2. mode \in {"closed", "panicked", "crashed"} /\ disk' \in Disks /\ pc' = "idle"
  BY <1>1, TypesOfAll DEF IInv, NotOpen
<1>3. IInv'
  <2>1. closing' \in BOOLEAN
    BY <1>1 DEF IInv, TypeOK
  <2> QED
    BY <1>1, <1>2, <2>1, NotOpenKeeps DEF IInv, HeaderTellsTheFile
<1>4. InMemory' = InMemory /\ Stored' = Stored /\ Saved' = Saved /\ StoreMode' = "refused"
  BY <1>1 DEF InMemory, Stored, Saved, StoreMode, NotOpen
<1>5. CASE failed /\ mode \in {"closed", "crashed"}
  <2>1. StoreMode = "broken"
    BY <1>5 DEF StoreMode
  <2>2. /\ disk \in Disks /\ root \in Roots /\ data \in [root.blks -> Contents]
        /\ Store!IsImage(saved)
    BY TypesOfAll DEF IInv
  <2>3. Store!IsImage(InMemory) /\ (Store!IsImage(Saved) \/ Saved = Unreadable)
        /\ (Store!IsImage(Stored) \/ Stored = Unreadable)
    BY <2>2, ImageType, LoadedType DEF InMemory, Stored, Saved
  <2>4. /\ Store!IsImage(InMemory') /\ (Store!IsImage(Saved') \/ Saved' = Unreadable)
        /\ (Store!IsImage(Stored') \/ Stored' = Unreadable)
    BY <1>4, <2>3
  <2>5. Store!Broken
    BY <1>4, <2>1, <2>4 DEF Store!Broken, InMemory, Stored, Saved, StoreMode
  <2> QED
    BY <1>3, <2>5 DEF Kept, Store!Next
<1>6. CASE ~ (failed /\ mode \in {"closed", "crashed"})
  <2>1. StoreMode = "closed"
    BY <1>1, <1>2, <1>6 DEF StoreMode, NotOpen
  <2>2. Stored = Unreadable \/ Stored # Saved
    BY <1>1 DEF Stored, Saved
  <2>3. Store!Refuse
    BY <1>4, <2>1, <2>2 DEF Store!Refuse, InMemory, Stored, Saved, StoreMode
  <2> QED
    BY <1>3, <2>3 DEF Kept, Store!Next
<1> QED
  BY <1>5, <1>6

-----------------------------------------------------------------------------
(* The whole *)

LEMMA IInvInitially ==
  ASSUME Init
  PROVE  IInv /\ Store!Init
<1>1. /\ root \in Roots /\ root.blks = {}
      /\ disk = [past_end |-> begin_blk_nr, tail |-> << >>,
                 header |-> Header(begin_blk_nr, root, {}),
                 at |-> [b \in AllBlks |-> Blank]]
      /\ data = [b \in {} |-> Blank] /\ saved = Image(root, disk.at)
      /\ held = {} /\ tramp = {} /\ in_use = {} /\ closing = FALSE /\ failed = FALSE
      /\ mode = "open" /\ pc = "idle" /\ call = "full_sync" /\ calls = 0
  BY DEF Init, Roots
<1>2. disk \in Disks
  <2>1. begin_blk_nr \in Ends /\ << >> \in Tails
    BY BlkFacts DEF Tails
  <2>2. Header(begin_blk_nr, root, {}) \in Headers
    BY <1>1, <2>1 DEF Header, Headers
  <2>3. [b \in AllBlks |-> Blank] \in [AllBlks -> Contents]
    BY ContentAssumption DEF Contents
  <2> QED
    BY <1>1, <2>1, <2>2, <2>3 DEF Disks
<1>3. disk.header.root = root /\ disk.header.tramp = {}
  BY <1>1 DEF Header
<1>4. data \in [root.blks -> Contents]
  BY <1>1
<1>5. Store!IsImage(saved)
  <2>1. saved = Loaded(disk)
    BY <1>1, <1>3 DEF Loaded
  <2> QED
    BY <1>2, <2>1, LoadedType
<1>6. TypeOK
  <2>1. 0 \in 0 .. MaxCalls
    BY FileAssumption
  <2> QED
    BY <1>1, <1>2, <1>4, <1>5, <2>1 DEF TypeOK, Disks, Tails, Headers, Ends, Store!IsImage
<1>7. CloseIsRight /\ PartsAreRight
  BY <1>1, <1>3 DEF CloseIsRight, PartsAreRight
<1>8. IInv
  BY <1>1, <1>6, <1>7 DEF IInv, HeaderTellsTheFile
<1>9. ~ Opens(disk)
  BY <1>1, TailFacts DEF Opens, TrailerIsGood
<1>10. Store!IsImage([root |-> root, data |-> data])
  BY <1>1, <1>4, ImageType
<1>11. Store!Init
  BY <1>1, <1>9, <1>10 DEF Store!Init, NotOpen
<1> QED
  BY <1>8, <1>11

LEMMA IInvKept ==
  ASSUME IInv, [Next]_vars
  PROVE  Kept
<1>1. CASE UNCHANGED vars
  <2>1. UNCHANGED <<disk, root, data, held, tramp, in_use, closing, failed, mode, pc, call, calls, saved>>
    BY <1>1 DEF vars, memory
  <2>2. IInv'
    BY <2>1 DEF IInv, TypeOK, CloseIsRight, PartsAreRight, HeaderTellsTheFile, BlksOfFile, LastInUse
  <2>3. UNCHANGED Store!vars
    BY <2>1, Stutters
  <2> QED
    BY <2>2, <2>3 DEF Kept
<1>2. ASSUME NEW b \in AllBlks, Alloc(b) \/ Dealloc(b) \/ WriteTrampoline(b)
      PROVE  Kept
  BY <1>2, AllocKeeps, DeallocKeeps, WriteTrampolineKeeps
<1>3. ASSUME NEW b \in AllBlks, NEW v \in Data, Write(b, v)
      PROVE  Kept
  BY <1>3, WriteKeeps
<1>4. CASE StartSync("full_sync") \/ StartSync("close") \/ SyncThrows
  BY <1>4, StartSyncKeeps, SyncThrowsKeeps
<1>5. ASSUME NEW release \in BOOLEAN, EndSets(release)
      PROVE  Kept
  BY <1>5, EndSetsKeeps
<1>6. CASE Release \/ UpdateTrampoline \/ UpdateTrampolineThrows \/ WriteTrampolineThrows
  BY <1>6, ReleaseKeeps, UpdateTrampolineKeeps, UpdateTrampolineThrowsKeeps, WriteTrampolineThrowsKeeps
<1>7. CASE DropTrampoline \/ DropTrampolineThrows \/ ReleaseAgain
  BY <1>7, DropTrampolineKeeps, DropTrampolineThrowsKeeps, ReleaseAgainKeeps
<1>8. CASE WriteHeader \/ TruncateToClose \/ WriteTrailer
  BY <1>8, WriteHeaderKeeps, TruncateToCloseKeeps, WriteTrailerKeeps
<1>9. CASE PanicClose \/ Crash \/ Open \/ OpenThrows
  BY <1>9, PanicCloseKeeps, CrashKeeps, OpenFileKeeps, OpenThrowsKeeps
<1> QED
  BY <1>1, <1>2, <1>3, <1>4, <1>5, <1>6, <1>7, <1>8, <1>9 DEF Next

LEMMA IInvAlways == Spec => []IInv
<1>1. Init => IInv
  BY IInvInitially
<1>2. IInv /\ [Next]_vars => IInv'
  BY IInvKept DEF Kept
<1> QED
  BY <1>1, <1>2, PTL DEF Spec

\* The types of the state of an open file, and what is in use is in the file.
THEOREM FileTypes == Spec => []TypeOK
<1>1. IInv => TypeOK
  BY DEF IInv
<1> QED
  BY <1>1, IInvAlways, PTL

\* No set or descriptor is given a block of the trampoline, and both are in
\* the file, whatever a sync moves, until one throws with the trampoline
\* deallocated and no space for another.
THEOREM TrampolineApart == Spec => []TrampolineIsApart
<1>1. IInv => TrampolineIsApart
  BY DEF IInv, PartsAreRight, TrampolineIsApart, TypeOK
<1> QED
  BY <1>1, IInvAlways, PTL

\* What write_header tells of the size of a file is what close leaves.
THEOREM HeaderIsRight == Spec => []HeaderTellsTheFile
<1>1. IInv => HeaderTellsTheFile
  BY DEF IInv
<1> QED
  BY <1>1, IInvAlways, PTL

\* Each write of a sync, of a close or of a panic_close, and a crash between
\* any two, is a step of FileStore or leaves what it promises alone: a file
\* that was closed gives back the root set and the blocks of its sets, and
\* one that was not is refused or gives back the root set that was saved last
\* with blocks as they were then or as they were written since.
THEOREM FileIsAStore == Spec => ImplementsFileStore
<1>1. Init => Store!Init
  BY IInvInitially
<1>2. IInv /\ [Next]_vars => [Store!Next]_(Store!vars)
  BY IInvKept DEF Kept
<1> QED
  BY <1>1, <1>2, IInvAlways, PTL DEF Spec, ImplementsFileStore, Store!Spec
=============================================================================
