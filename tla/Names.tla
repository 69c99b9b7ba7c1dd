------------------------------- MODULE Names -------------------------------
(***************************************************************************)
(* Ids and names: the ids of the descriptors (file/id_manager.h), the      *)
(* index that finds a descriptor by id or by name (file/index.cpp), and    *)
(* the private descriptor of the root set where the names are stored       *)
(* (dsc/id_mapping.cpp), over the calls of the user, the syncs and the     *)
(* reopens of the file.                                                    *)
(*                                                                         *)
(* Nothing here asks the user for care: a persistent id may be given twice,*)
(* who has a name may be erased, and the descriptor of the names is marked *)
(* as modified or not. What that breaks is said by the properties, with    *)
(* what the variables reused and left remember.                            *)
(*                                                                         *)
(* Simplified: a sync stores the whole tree at once (the module            *)
(* DescriptorSet has the details); a name is a model value and only its    *)
(* order, its prefix and whether it is reserved are kept; the sets are     *)
(* always the same.                                                        *)
(***************************************************************************)
EXTENDS Integers, Sequences, FiniteSets, FiniteSetsExt

CONSTANTS
  Dscs,       (* The descriptors that the user may add.                    *)
  Sets,       (* The sets of the tree.                                     *)
  NoSet,      (* The owner of who is not in the tree.                      *)
  Erased,     (* A descriptor that was erased, as the cache may have.      *)
  MaxId,      (* The largest persistent id: 2^31 - 1.                      *)
  NameList,   (* The names, in the order of a map.                         *)
  TempNames,  (* Those that begin with TempNamePrefix.                     *)
  Reserved,   (* Those that the private descriptor refuses.                *)
  Configs,    (* The values of keep_index_updated a file is opened with.   *)
  MaxCalls    (* Bound: the calls of a behaviour. Syncs and deletions of   *)
              (* names are not bounded.                                    *)

AllNames == {NameList[i] : i \in DOMAIN NameList}

ASSUME NamesAssumption ==
  /\ MaxId \in Nat \ {0} /\ MaxCalls \in Nat
  /\ IsFiniteSet(Dscs)
  /\ NoSet \notin Sets /\ Erased \notin Dscs
  /\ NameList \in Seq(AllNames)
  /\ TempNames \subseteq AllNames /\ Reserved \subseteq AllNames \ TempNames
  /\ Configs \subseteq BOOLEAN

VARIABLES
  dscs,              (* The descriptors in memory: [owner, id].            *)
  persistent_ids,    (* The ids that are registered.                       *)
  next_temporal_id,
  id_by_name,        (* The names: 0 for a name that is not in the index.  *)
  dsc_by_id_cache,   (* What find has found: a set of [id, dsc].           *)
  keep,              (* keep_index_updated.                                *)
  idmap_pending,     (* Whether the root set will write the descriptor of  *)
                     (* the names in its next sync.                        *)
  file,              (* What is stored: the descriptors, whether there is  *)
                     (* one for the names, the entries it had when its     *)
                     (* record was last written, and those it has.         *)
  refused,           (* The file could not be opened.                      *)
  reused,            (* History: the persistent ids that the user gave to  *)
                     (* a new descriptor when they were registered.        *)
  left,              (* History: the ids that a descriptor has had, until  *)
                     (* it was erased or got a persistent one.             *)
  calls

names_vars == <<dscs, persistent_ids, next_temporal_id, id_by_name, dsc_by_id_cache,
                keep, idmap_pending, file, refused, reused, left, calls>>
memory == <<dscs, persistent_ids, next_temporal_id, id_by_name, dsc_by_id_cache, reused, left>>

\* id 0 is undefined; the ids with the highest bit are temporal. There are as
\* many of these as persistent ones: that the counter wraps is out of reach.
is_persistent(id) == id \in 1 .. MaxId
is_temporal(id) == id > MaxId

Absent == [owner |-> NoSet, id |-> 0]
InTree(d) == dscs[d].owner # NoSet
Tree == {d \in Dscs : InTree(d)}

EmptyFile == [dscs |-> [d \in Dscs |-> Absent], has_idmap |-> FALSE,
              recorded |-> <<>>, stored |-> <<>>]

NoNames == [n \in AllNames |-> 0]

\* A new file, once opened.
NamesInit ==
  /\ dscs = [d \in Dscs |-> Absent]
  /\ persistent_ids = {}
  /\ next_temporal_id = MaxId + 1
  /\ id_by_name = NoNames
  /\ dsc_by_id_cache = {}
  /\ keep \in Configs
  /\ idmap_pending = keep
  /\ file = EmptyFile
  /\ refused = FALSE
  /\ reused = {} /\ left = {}
  /\ calls = 0

Call ==
  /\ ~refused
  /\ calls < MaxCalls
  /\ calls' = calls + 1

-----------------------------------------------------------------------------
(* Ids                                                                     *)

\* Mutant of request_persistent_id: ids are counted.
request_next_id(ids) == Cardinality(ids) + 1

\* One more than the largest id that is registered.
request_persistent_id(ids) == IF ids = {} THEN 1 ELSE Max(ids) + 1

\* fail_if_duplicated_id: only the set itself is looked at.
CollidesIn(s, id) == \E d \in Dscs : dscs[d] = [owner |-> s, id |-> id]

(***************************************************************************)
(* add_s of a descriptor whose id is `id`, 0 if it has none. Whether a     *)
(* persistent id is already registered is not looked at. When there is no  *)
(* persistent id left, the one requested is temporal and is refused.       *)
(***************************************************************************)
GetsId(d, s, id, assign_persistent_id) ==
  LET wants == assign_persistent_id /\ ~is_persistent(id)
      new_id == IF wants THEN request_persistent_id(persistent_ids)
                ELSE IF id = 0 THEN next_temporal_id ELSE id
  IN /\ wants => is_persistent(new_id)
     /\ dscs' = [dscs EXCEPT ![d] = [owner |-> s, id |-> new_id]]
     /\ persistent_ids' = persistent_ids \cup (IF is_persistent(new_id) THEN {new_id} ELSE {})
     /\ next_temporal_id' = next_temporal_id + (IF new_id = next_temporal_id THEN 1 ELSE 0)

\* The user adds a new descriptor, without an id or with a persistent one.
Add(d, s, id, assign_persistent_id) ==
  /\ Call
  /\ ~InTree(d)
  /\ ~CollidesIn(s, id)
  /\ GetsId(d, s, id, assign_persistent_id)
  /\ reused' = reused \cup ({id} \cap persistent_ids)
  /\ UNCHANGED <<id_by_name, dsc_by_id_cache, keep, idmap_pending, file, refused, left>>

\* assign_persistent_id, for a descriptor that was never written: one that was
\* is written again beside its first record, see the module DescriptorSet.
AssignPersistentId(d) ==
  /\ Call
  /\ InTree(d)
  /\ is_temporal(dscs[d].id)
  /\ file.dscs[d].owner = NoSet
  /\ GetsId(d, dscs[d].owner, dscs[d].id, TRUE)
  /\ left' = left \cup {dscs[d].id}
  /\ UNCHANGED <<id_by_name, dsc_by_id_cache, keep, idmap_pending, file, refused, reused>>

MoveOut(d, new_home) ==
  /\ Call
  /\ InTree(d)
  /\ ~CollidesIn(new_home, dscs[d].id)
  /\ GetsId(d, new_home, dscs[d].id, FALSE)
  /\ UNCHANGED <<id_by_name, dsc_by_id_cache, keep, idmap_pending, file, refused, reused, left>>

\* Mutant of IdsAfterErase: the id may be given again.
IdsAfterEraseWithout(id) == persistent_ids \ {id}

\* The id of a descriptor that is erased remains registered.
IdsAfterErase(id) == persistent_ids

\* The index is not told: its names and what it has found remain.
Erase(d) ==
  /\ Call
  /\ InTree(d)
  /\ dscs' = [dscs EXCEPT ![d] = Absent]
  /\ persistent_ids' = IdsAfterErase(dscs[d].id)
  /\ dsc_by_id_cache' =
       {[e EXCEPT !.dsc = IF @ = d THEN Erased ELSE @] : e \in dsc_by_id_cache}
  /\ left' = left \cup {dscs[d].id}
  /\ UNCHANGED <<next_temporal_id, id_by_name, keep, idmap_pending, file, refused, reused>>

-----------------------------------------------------------------------------
(* The index                                                               *)

Cached(id) == {e.dsc : e \in {e \in dsc_by_id_cache : e.id = id}}
WithId(id) == {d \in Tree : dscs[d].id = id}

\* What find returns: one of these, or it throws if there is none.
Found(id) == IF Cached(id) # {} THEN Cached(id) ELSE WithId(id)

\* find(id), when it is not in the cache. With the id of a name, find(name).
Find(id) ==
  /\ Call
  /\ Cached(id) = {}
  /\ \E d \in WithId(id) : dsc_by_id_cache' = dsc_by_id_cache \cup {[id |-> id, dsc |-> d]}
  /\ UNCHANGED <<dscs, persistent_ids, next_temporal_id, id_by_name, keep,
                 idmap_pending, file, refused, reused, left>>

\* add_name, or add_temporal_name for a name with the prefix.
AddName(n, id, override_if_exists) ==
  /\ Call
  /\ id \in persistent_ids
  /\ id_by_name[n] \in {0, id} \/ override_if_exists
  /\ id_by_name' = [id_by_name EXCEPT ![n] = id]
  /\ UNCHANGED <<dscs, persistent_ids, next_temporal_id, dsc_by_id_cache, keep,
                 idmap_pending, file, refused, reused, left>>

DeleteName(n) ==
  /\ ~refused
  /\ id_by_name[n] # 0
  /\ id_by_name' = [id_by_name EXCEPT ![n] = 0]
  /\ UNCHANGED <<dscs, persistent_ids, next_temporal_id, dsc_by_id_cache, keep,
                 idmap_pending, file, refused, reused, left, calls>>

-----------------------------------------------------------------------------
(* What is stored                                                          *)

\* Mutant of MapContent: temporal names are stored too.
MapContentWithTemp(m) ==
  LET kept == SelectSeq(NameList, LAMBDA n : m[n] # 0)
  IN [i \in DOMAIN kept |-> [name |-> kept[i], id |-> m[kept[i]]]]

\* The entries that store writes, in the order of the map.
IsStored(m, n) == m[n] # 0 /\ n \notin TempNames
MapContent(m) ==
  LET entries[i \in 0 .. Len(NameList)] ==
        IF i = 0 THEN <<>>
        ELSE IF IsStored(m, NameList[i])
             THEN Append(entries[i - 1], [name |-> NameList[i], id |-> m[NameList[i]]])
             ELSE entries[i - 1]
  IN entries[Len(NameList)]

\* store refuses what add_name had accepted: full_sync throws at its start.
Storable(m) == \A n \in Reserved : m[n] = 0

\* An id is in the record of a descriptor only if it is persistent.
StoredIds == [d \in Dscs |-> [dscs[d] EXCEPT !.id = IF is_persistent(@) THEN @ ELSE 0]]

(***************************************************************************)
(* full_sync(): store writes the entries in the content of the descriptor  *)
(* of the names, and the root set the record of it, that has their number  *)
(* and where they are, if it is pending: store does not notify.            *)
(***************************************************************************)
Synced(f, pending) ==
  LET entries == IF keep THEN MapContent(id_by_name) ELSE f.stored
  IN [dscs |-> StoredIds,
      has_idmap |-> f.has_idmap \/ pending,
      recorded |-> IF keep /\ pending THEN entries ELSE f.recorded,
      stored |-> entries]

\* marks: the user has marked the descriptor of the names as modified.
SyncFile(marks) ==
  /\ ~refused
  /\ keep => Storable(id_by_name)
  /\ file' = Synced(file, idmap_pending \/ (keep /\ marks))

FullSync(marks) ==
  /\ SyncFile(marks)
  /\ idmap_pending' = FALSE
  /\ UNCHANGED <<memory, keep, refused, calls>>

(***************************************************************************)
(* The record may not be of the entries that are stored: it counts others, *)
(* that may be inline in it or in blocks that are not theirs any more.     *)
(***************************************************************************)
Outdated(f) == f.recorded # f.stored

\* Mutant of NamesIn: the last entry is not read.
NamesInButLast(entries) ==
  [n \in AllNames |->
     IF \E i \in 1 .. Len(entries) - 1 : entries[i].name = n
     THEN entries[CHOOSE i \in 1 .. Len(entries) - 1 : entries[i].name = n].id ELSE 0]

NamesIn(entries) ==
  [n \in AllNames |->
     IF \E i \in 1 .. Len(entries) : entries[i].name = n
     THEN entries[CHOOSE i \in 1 .. Len(entries) : entries[i].name = n].id ELSE 0]

\* What load may read: as many entries as the record says. Of an outdated one,
\* any mixture of the two, or some that it refuses.
Readings(f) ==
  IF Outdated(f)
  THEN {m \in [AllNames -> {NamesIn(f.recorded)[n] : n \in AllNames} \cup
                            {NamesIn(f.stored)[n] : n \in AllNames} \cup {0}] :
          /\ \A n \in AllNames : m[n] \in {NamesIn(f.recorded)[n], NamesIn(f.stored)[n], 0}
          /\ Cardinality({n \in AllNames : m[n] # 0}) <= Len(f.recorded)}
  ELSE {NamesIn(f.recorded)}

StoredTree(f) == {d \in Dscs : f.dscs[d].owner # NoSet}
Unnumbered(f) == {d \in StoredTree(f) : f.dscs[d].id = 0}

\* Mutant of RegisteredOnLoad: also the id of those that have none.
RegisteredOnLoadAll(f) == {f.dscs[d].id : d \in StoredTree(f)}

RegisteredOnLoad(f) == {f.dscs[d].id : d \in StoredTree(f)} \ {0}

\* The names that are read must have registered ids and no prefix, and no two
\* descriptors the same id.
Accepts(f, names) ==
  /\ \A d, e \in StoredTree(f) \ Unnumbered(f) : d # e => f.dscs[d].id # f.dscs[e].id
  /\ \A n \in AllNames : names[n] # 0 => names[n] \in RegisteredOnLoad(f) /\ n \notin TempNames

\* Each descriptor registers its id, or gets a temporal one.
Load(f, names, order) ==
  /\ dscs' = [d \in Dscs |-> IF d \in Unnumbered(f)
                             THEN [f.dscs[d] EXCEPT !.id = MaxId + order[d]] ELSE f.dscs[d]]
  /\ persistent_ids' = RegisteredOnLoad(f)
  /\ next_temporal_id' = MaxId + 1 + Cardinality(Unnumbered(f))
  /\ id_by_name' = names
  /\ dsc_by_id_cache' = {}
  /\ reused' = {} /\ left' = {}

Opens(f) ==
  /\ \E names \in Readings(f), order \in Bijection(Unnumbered(f), 1 .. Cardinality(Unnumbered(f))) :
       Accepts(f, names) /\ Load(f, names, order)
  /\ refused' = FALSE

\* A record that counts no entries reads none, whatever is stored.
Refuses(f) ==
  /\ \/ Outdated(f) /\ f.recorded # <<>>
     \/ \E names \in Readings(f) : ~Accepts(f, names)
  /\ refused' = TRUE
  /\ UNCHANGED memory

\* close() and a new object that opens the file.
Reopen(marks, config) ==
  /\ Call
  /\ SyncFile(marks)
  /\ Opens(file') \/ Refuses(file')
  /\ keep' = config
  /\ idmap_pending' = (config /\ ~file'.has_idmap)

NamesNext ==
  \/ \E d \in Dscs, s \in Sets, assign \in BOOLEAN, id \in 0 .. MaxId : Add(d, s, id, assign)
  \/ \E d \in Dscs : AssignPersistentId(d) \/ Erase(d) \/ \E s \in Sets : MoveOut(d, s)
  \/ \E d \in Dscs : Find(dscs[d].id)
  \/ \E n \in AllNames, id \in 1 .. MaxId, override \in BOOLEAN : AddName(n, id, override)
  \/ \E n \in AllNames : DeleteName(n)
  \/ \E marks \in BOOLEAN : FullSync(marks) \/ \E config \in Configs : Reopen(marks, config)

NamesSpec == NamesInit /\ [][NamesNext]_names_vars

-----------------------------------------------------------------------------
(* Properties *)

NamesTypeOK ==
  /\ dscs \in [Dscs -> [owner : Sets \cup {NoSet}, id : Nat]]
  /\ persistent_ids \subseteq 1 .. MaxId
  /\ next_temporal_id \in Nat \ 0 .. MaxId
  /\ id_by_name \in [AllNames -> 0 .. MaxId]
  /\ dsc_by_id_cache \subseteq [id : Nat \ {0}, dsc : Dscs \cup {Erased}]
  /\ keep \in Configs /\ {idmap_pending, refused, file.has_idmap} \subseteq BOOLEAN
  /\ file.dscs \in [Dscs -> [owner : Sets \cup {NoSet}, id : 0 .. MaxId]]
  /\ reused \subseteq 1 .. MaxId
  /\ left \subseteq Nat \ {0}
  /\ calls \in 0 .. MaxCalls

\* No id that request_persistent_id or request_temporal_id gives was given
\* before: two descriptors of the tree, in whatever sets, have the same one only
\* if the user gave it to the second, although it was registered (add_s does
\* not look at what register_persistent_id returns).
IdsAreUnique ==
  \A d \in Tree : dscs[d].id \notin reused =>
    /\ dscs[d].id \in persistent_ids \cup (MaxId + 1 .. next_temporal_id - 1)
    /\ \A e \in Tree \ {d} : dscs[e].id # dscs[d].id

\* index.h: find searches the tree, and throws for an id of no descriptor.
\* Nothing is ever taken out of its cache, and still, whatever was found, moved
\* or given another id before, find of an id that was given once gives who has
\* it. Against index.h, find of an id that its descriptor has left may give the
\* one erased, or who had it, if it was found before.
FindIsHonest ==
  \A id \in 1 .. next_temporal_id - 1 : id \notin reused =>
    Found(id) = WithId(id) \/ (WithId(id) = {} /\ id \in left)

\* A file that was closed can be opened, but if the record of the names is not
\* that of the names stored, an id was given twice, or who had a name was erased.
FileOpens ==
  refused => \/ Outdated(file) /\ file.recorded # <<>>
             \/ reused # {}
             \/ \E n \in AllNames : NamesIn(file.recorded)[n] \in left

\* After the file is closed and opened again, a name reaches the descriptor it
\* reached before, and there are no other names but these: if the close left a
\* record of the names it stored. That is not so once a record was written, if
\* the names have changed and nobody has marked their descriptor, although
\* full_sync says that it stores them before the sets for them to be updated.
Reached(n) == IF id_by_name[n] = 0 THEN {} ELSE Found(id_by_name[n])
NamesSurvive ==
  [][\A marks, config \in BOOLEAN :
       Reopen(marks, config) /\ keep /\ ~refused' /\ ~Outdated(file)' =>
         \A n \in AllNames : id_by_name[n] \notin reused =>
           Reached(n)' = IF n \in TempNames THEN {} ELSE Reached(n)]_names_vars
=============================================================================
