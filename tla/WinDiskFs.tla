----------------------------- MODULE WinDiskFs -----------------------------
(***************************************************************************)
(* The Clave Disk on Windows: ClaveDiskFs (clave-win/src/mount.rs), an     *)
(* encrypting filesystem in the daemon's memory, called by WinFsp.         *)
(*                                                                         *)
(*   State.nodes, .by_path, .next_id                nodes, by_path, next_id*)
(*   handles and pending deletions (WinFsp)         opened, deleting       *)
(*   one enumeration of a directory (WinFsp)        listing                *)
(*                                                                         *)
(* Every callback runs under the mutex of State, hence one action each.    *)
(* A path is the sequence of its components as they were spelled; the key  *)
(* of by_path is the path in upper case (Fold), which may have other bytes *)
(* than the path itself.  A byte of ciphertext is its plaintext with the   *)
(* sector number it was encrypted under (AES-XTS taken to be a perfect     *)
(* cipher).  Attributes and times are left out.                            *)
(***************************************************************************)
EXTENDS Naturals, Sequences, SequencesExt, FiniteSets

CONSTANTS Spelling, Fold, Rank,   \* names, their upper case, their order
          Bytes, Glued,           \* the length of a name in UTF-8; the names that wrong cuts make
          Buffer, Zero, Garbage,  \* what is written; the fill of holes; what a wrong tweak decrypts to
          SECTOR_SIZE, Capacity,
          Path,                   \* the paths that are asked for
          MaxWork, MaxHandles     \* bounds: creations and writes, nodes open at a time

ASSUME WinDiskAssumption ==
  /\ Fold \in [Spelling -> Spelling] /\ Rank \in [Spelling -> Nat] /\ Bytes \in [Spelling -> Nat]
  /\ Glued \subseteq Spelling
  /\ \A a, b \in Spelling : Rank[a] = Rank[b] => a = b
  /\ \A buffer \in Buffer : {Zero, Garbage} \cap Range(buffer) = {} /\ Zero # Garbage
  /\ Buffer \subseteq Seq(UNION {Range(buffer) : buffer \in Buffer})
  /\ SECTOR_SIZE \in Nat \ {0} /\ Capacity \in Nat
  /\ Path \subseteq Seq(Spelling) \ {<< >>} /\ {MaxWork, MaxHandles} \subseteq Nat

VARIABLES nodes, by_path, next_id, opened, deleting, listing,
          writes,     \* the writes made, with next_id what has been used of MaxWork
          content,    \* auxiliary: what was written to each file, by a reference definition
          tangled,    \* auxiliary: a rename replaced a directory that had children, or
                      \* cut a name at the wrong byte
          poisoned    \* a callback panicked while it held the mutex of State

table == <<nodes, by_path, next_id>>
disk == <<table, opened, deleting, listing, writes, content, tangled>>
vars == <<disk, poisoned>>

Root == 1
Ids == DOMAIN nodes
\* Creations and writes share one bound: either many nodes or long contents.
MoreWork == (next_id - 2) + writes < MaxWork

canon(path) == [i \in DOMAIN path |-> Fold[path[i]]]
parent_canon(key) == Front(key)
basename(path) == Last(path)
id_of(key) == {by_path[k] : k \in DOMAIN by_path \cap {key}}

children(table_nodes, key) ==
  {id \in DOMAIN table_nodes : LET c == canon(table_nodes[id].name)
                               IN c # << >> /\ parent_canon(c) = key}
has_children(key) == children(nodes, key) # {}

round_up(n, unit) == ((n + unit - 1) \div unit) * unit
Resize(plain, n) == [i \in 1..n |-> IF i <= Len(plain) THEN plain[i] ELSE Zero]

decrypt(node) ==
  [i \in 1..node.size |->
     IF node.data[i].tweak = (i - 1) \div SECTOR_SIZE THEN node.data[i].byte ELSE Garbage]

\* Mutant: the logical size only grows.
NeverShrinks(node, plain) ==
  LET padded == Resize(plain, round_up(Len(plain), SECTOR_SIZE))
      data == [i \in DOMAIN padded |-> [tweak |-> (i - 1) \div SECTOR_SIZE, byte |-> padded[i]]]
  IN [node EXCEPT !.data = data,
                  !.size = IF Len(plain) < @ /\ @ <= Len(data) THEN @ ELSE Len(plain)]

store(node, plain) ==
  LET padded == Resize(plain, round_up(Len(plain), SECTOR_SIZE))
  IN [node EXCEPT !.data = [i \in DOMAIN padded |->
                              [tweak |-> (i - 1) \div SECTOR_SIZE, byte |-> padded[i]]],
                  !.size = Len(plain)]

Node(name, is_dir) == [name |-> name, is_dir |-> is_dir, data |-> << >>, size |-> 0]
NoListing == [dir |-> 0, marker |-> {}, due |-> {}, over |-> FALSE]

TypeOK ==
  /\ Root \in Ids /\ Ids \subseteq 1..(next_id - 1) /\ next_id \in 2..(MaxWork + 2)
  /\ \A id \in Ids : /\ nodes[id].name \in Seq(Spelling)
                     /\ nodes[id].size <= Capacity
                     /\ Len(nodes[id].data) = round_up(nodes[id].size, SECTOR_SIZE)
  /\ opened \subseteq Ids /\ deleting \subseteq opened /\ listing.dir \in opened \cup {0}

\* ClaveDiskFs::new, mounted by spawn_clave_disk.
Init ==
  /\ nodes = [id \in {Root} |-> Node(<< >>, TRUE)]
  /\ by_path = [key \in {<< >>} |-> Root] /\ next_id = 2
  /\ opened = {} /\ deleting = {} /\ listing = NoListing
  /\ writes = 0 /\ content = [id \in 1..(MaxWork + 1) |-> << >>]
  /\ tangled = FALSE /\ poisoned = FALSE

\* What an enumeration still has to list: the names there from its first page on.
KidNames(table_nodes, id) ==
  {basename(table_nodes[k].name) : k \in children(table_nodes, canon(table_nodes[id].name))}
Watch == listing' = IF listing.dir = 0 THEN listing
                    ELSE [listing EXCEPT !.due = @ \cap KidNames(nodes', listing.dir)]

(***************************************************************************)
(* Names                                                                   *)
(***************************************************************************)
open(path) ==
  \E id \in id_of(canon(path)) :
    /\ id \notin deleting            \* WinFsp: STATUS_DELETE_PENDING
    /\ opened' = opened \cup {id} /\ Cardinality(opened') <= MaxHandles
    /\ UNCHANGED <<table, deleting, listing, writes, content, tangled>>

\* A collision, a missing parent and a parent that is a file are refused.
create(path, is_dir) ==
  LET key == canon(path)
  IN /\ MoreWork
     /\ id_of(key) = {}
     /\ \E parent \in id_of(parent_canon(key)) : nodes[parent].is_dir
     /\ nodes' = [id \in Ids \cup {next_id} |->
                    IF id = next_id THEN Node(path, is_dir) ELSE nodes[id]]
     /\ by_path' = [k \in DOMAIN by_path \cup {key} |-> IF k = key THEN next_id ELSE by_path[k]]
     /\ next_id' = next_id + 1
     /\ opened' = opened \cup {next_id} /\ Cardinality(opened') <= MaxHandles
     /\ Watch /\ UNCHANGED <<deleting, writes, content, tangled>>

\* The answer is Ok, or STATUS_DIRECTORY_NOT_EMPTY and nothing is pending.
set_delete(id, delete_file) ==
  /\ id \in opened \ {Root}
  /\ delete_file => ~(nodes[id].is_dir /\ has_children(canon(nodes[id].name)))
  /\ deleting' = IF delete_file THEN deleting \cup {id} ELSE deleting \ {id}
  /\ UNCHANGED <<table, opened, listing, writes, content, tangled>>

Without(f, gone) == [x \in DOMAIN f \ gone |-> f[x]]
Closed(id) ==
  /\ opened' = opened \ {id} /\ deleting' = deleting \ {id}
  /\ listing' = IF listing.dir = id THEN NoListing
                ELSE IF listing.dir = 0 THEN listing
                ELSE [listing EXCEPT !.due = @ \cap KidNames(nodes', listing.dir)]
  /\ content' = [content EXCEPT ![id] = IF id \in DOMAIN nodes' THEN @ ELSE << >>]
  /\ UNCHANGED <<next_id, writes, tangled>>

\* Mutant: what set_delete found out still holds.
CleanupUnchecked(id) ==
  /\ id \in opened
  /\ IF id \in deleting
     THEN /\ by_path' = Without(by_path, {canon(nodes[id].name)})
          /\ nodes' = Without(nodes, {id})
     ELSE UNCHANGED <<nodes, by_path>>
  /\ Closed(id)

\* WinFsp asks to delete when the last handle of a file to be deleted is closed.
cleanup(id) ==
  LET key == canon(nodes[id].name)
  IN /\ id \in opened
     /\ IF id \in deleting /\ ~(nodes[id].is_dir /\ has_children(key))
        THEN by_path' = Without(by_path, {key}) /\ nodes' = Without(nodes, {id})
        ELSE UNCHANGED <<nodes, by_path>>
     /\ Closed(id)

\* Windows opens the target's parent, and refuses a target that is open or
\* lies below what is renamed.
RenameAllowed(id, path) ==
  LET old == canon(nodes[id].name) key == canon(path)
  IN /\ id \in opened \ {Root}
     /\ \E parent \in id_of(parent_canon(key)) : nodes[parent].is_dir
     /\ ~IsStrictPrefix(old, key)
     /\ \A other \in id_of(key) \ {id} : other \notin opened

affected(id) ==
  {n \in Ids : IsPrefix(canon(nodes[id].name), canon(nodes[n].name))}

PathBytes(name) == FoldLeft(LAMBDA sum, part : sum + 1 + Bytes[part], 0, name)

\* What is affected is found by the keys, but cut at original[old_original.len()..]:
\* where the directory is spelled otherwise, in fewer or more bytes, in the path of
\* what is below it than in its own, the cut is in the wrong place.
Cut(original, i) == PathBytes(SubSeq(original, 1, i))
cut_fits(old, original) == Cut(original, Len(old)) = PathBytes(old)
\* The component that the cut divides: what is left of it is glued to the new name.
Divided(old, original) ==
  {i \in DOMAIN original : Cut(original, i - 1) < PathBytes(old) /\ PathBytes(old) < Cut(original, i)}

Rest(original, i) == SubSeq(original, i + 1, Len(original))
moved(path, old, original) ==
  IF cut_fits(old, original) THEN {path \o Rest(original, Len(old))}
  ELSE {path \o Rest(original, i) : i \in {j \in DOMAIN original : Cut(original, j) = PathBytes(old)}}
       \cup UNION {{Front(path) \o <<glued>> \o Rest(original, i) : glued \in Glued} :
                    i \in Divided(old, original)}
Targets(path, old, moving) ==
  {to \in [moving -> UNION {moved(path, old, nodes[n].name) : n \in moving}] :
     \A n \in moving : to[n] \in moved(path, old, nodes[n].name)}

\* The affected nodes are taken out of the index and put back one by one, in the order
\* of the node table: `settled' are those that had the last word about their key.
Settles(settled, to) ==
  /\ \A m, n \in settled : canon(to[m]) = canon(to[n]) => m = n
  /\ \A n \in DOMAIN to :
       \/ \E m \in settled : canon(to[m]) = canon(to[n])
       \/ \E m \in DOMAIN to \ {n} : canon(nodes[m].name) = canon(to[n])

Moved(to, settled, others, key) ==
  LET kept == Without(nodes, others)
      stale == {canon(nodes[n].name) : n \in DOMAIN to} \cup {key}
  IN /\ Settles(settled, to)
     /\ nodes' = [n \in DOMAIN kept |->
                    IF n \in DOMAIN to THEN [kept[n] EXCEPT !.name = to[n]] ELSE kept[n]]
     /\ by_path' = [k \in (DOMAIN by_path \ stale) \cup {canon(to[n]) : n \in settled} |->
                      IF \E n \in settled : canon(to[n]) = k
                      THEN CHOOSE n \in settled : canon(to[n]) = k ELSE by_path[k]]

rename(id, path, replace_if_exists) ==
  LET key == canon(path)
      others == id_of(key) \ {id}
      old == nodes[id].name
      moving == affected(id) \ others
  IN /\ RenameAllowed(id, path)
     /\ others # {} => replace_if_exists
     /\ \E to \in Targets(path, old, moving), settled \in SUBSET moving :
          Moved(to, settled, others, key)
     /\ tangled' = (\/ tangled
                    \/ \E o \in others : nodes[o].is_dir /\ has_children(key)
                    \/ \E n \in moving : ~cut_fits(old, nodes[n].name))
     /\ content' = [n \in DOMAIN content |-> IF n \in others THEN << >> ELSE content[n]]
     /\ Watch /\ UNCHANGED <<next_id, opened, deleting, writes>>

\* The cut is past the end, or within a character: a panic with the mutex held, after
\* which nothing is served any more (what it leaves in the tables is not looked at).
rename_panics(id, path, replace_if_exists) ==
  /\ RenameAllowed(id, path)
  /\ id_of(canon(path)) \ {id} # {} => replace_if_exists
  /\ \E n \in affected(id) \ (id_of(canon(path)) \ {id}) :
       LET old == nodes[id].name original == nodes[n].name
       IN PathBytes(original) < PathBytes(old) \/ Divided(old, original) # {}
  /\ poisoned' = TRUE /\ UNCHANGED disk

(***************************************************************************)
(* Contents                                                                *)
(***************************************************************************)
Stored(id, plain, reference) ==
  /\ MoreWork /\ writes' = writes + 1
  /\ nodes' = [nodes EXCEPT ![id] = store(@, plain)]
  /\ content' = [content EXCEPT ![id] = reference]
  /\ UNCHANGED <<by_path, next_id, opened, deleting, listing, tangled>>

IsFile(id) == id \in opened /\ ~nodes[id].is_dir

\* What a write of buffer at start leaves of a file, byte by byte.
Written(old, buffer, start, length) ==
  [i \in 1..length |-> IF i \in (start + 1)..(start + Len(buffer)) THEN buffer[i - start]
                       ELSE IF i <= Len(old) THEN old[i] ELSE Zero]

Copy(plain, buffer, start, n) ==
  SubSeq(plain, 1, start) \o SubSeq(buffer, 1, n) \o SubSeq(plain, start + n + 1, Len(plain))

Larger(a, b) == IF a > b THEN a ELSE b
Smaller(a, b) == IF a < b THEN a ELSE b

write(id, buffer, offset, write_to_eof) ==
  LET plain == decrypt(nodes[id])
      start == IF write_to_eof THEN Len(plain) ELSE offset
      end == start + Len(buffer)
  IN /\ IsFile(id)
     /\ end <= Capacity                 \* else STATUS_DISK_FULL
     /\ Stored(id, Copy(Resize(plain, Larger(end, Len(plain))), buffer, start, Len(buffer)),
               Written(content[id], buffer, start, Larger(end, Len(content[id]))))

\* Past the end it is STATUS_END_OF_FILE.
read(id, offset, n) ==
  LET node == nodes[id]
  IN SubSeq(decrypt(node), offset + 1, Smaller(offset + n, node.size))

\* The paging writes of the cache: they never extend a file.
write_constrained(id, buffer, offset) ==
  LET plain == decrypt(nodes[id])
      end == Smaller(offset + Len(buffer), Len(plain))
  IN /\ IsFile(id) /\ offset < Len(plain)
     /\ Stored(id, Copy(plain, buffer, offset, end - offset),
               Written(content[id], buffer, offset, Len(content[id])))

\* An allocation size only shrinks a file.
set_file_size(id, new_size, set_allocation_size) ==
  LET plain == decrypt(nodes[id])
  IN /\ IsFile(id) /\ new_size <= Capacity
     /\ IF set_allocation_size THEN new_size < Len(plain) ELSE new_size # Len(plain)
     /\ Stored(id, Resize(plain, new_size), Written(content[id], << >>, 0, new_size))

overwrite(id) ==
  /\ IsFile(id) /\ MoreWork /\ writes' = writes + 1
  /\ nodes' = [nodes EXCEPT ![id].data = << >>, ![id].size = 0]
  /\ content' = [content EXCEPT ![id] = << >>]
  /\ UNCHANGED <<by_path, next_id, opened, deleting, listing, tangled>>

(***************************************************************************)
(* read_directory: the entries in the order of their upper case; a page    *)
(* starts after the entry that is spelled like the marker, from the start  *)
(* where there is none.  A page has one entry here.  Only a rename that    *)
(* tangles the tables leaves names that differ in case alone side by side; *)
(* they keep the table's order, taken to be that of Rank.                  *)
(***************************************************************************)
ListStart(id) ==
  /\ nodes[id].is_dir /\ listing.dir = 0
  /\ listing' = [NoListing EXCEPT !.dir = id, !.due = KidNames(nodes, id)]
  /\ UNCHANGED <<table, opened, deleting, writes, content, tangled>>

Before(a, b) == \/ Rank[Fold[a]] < Rank[Fold[b]]
                \/ Rank[Fold[a]] = Rank[Fold[b]] /\ Rank[a] < Rank[b]

\* The names after the entry at the marker, and the page that starts with name.
After(names, at) == {name \in names : \A entry \in at : Before(entry, name)}
Page(name) == listing' = [listing EXCEPT !.marker = {name}, !.due = @ \ {name}]

\* Mutant: a marker that is not there any more ends the enumeration.
EndsAtUnknownMarker ==
  LET names == KidNames(nodes, listing.dir)
      at == names \cap listing.marker
      entries == IF at = {} /\ listing.marker # {} THEN {} ELSE After(names, at)
  IN /\ listing.dir # 0 /\ ~listing.over
     /\ \/ entries = {} /\ listing' = [listing EXCEPT !.over = TRUE, !.marker = {}]
        \/ \E name \in entries : (\A other \in entries \ {name} : Before(name, other)) /\ Page(name)
     /\ UNCHANGED <<table, opened, deleting, writes, content, tangled>>

read_directory ==
  LET names == KidNames(nodes, listing.dir)
      entries == After(names, names \cap listing.marker)
  IN /\ listing.dir # 0 /\ ~listing.over
     /\ \/ entries = {} /\ listing' = [listing EXCEPT !.over = TRUE, !.marker = {}]
        \/ \E name \in entries : (\A other \in entries \ {name} : Before(name, other)) /\ Page(name)
     /\ UNCHANGED <<table, opened, deleting, writes, content, tangled>>

Callback ==
  \/ \E path \in Path :
       \/ open(path)
       \/ \E flag \in BOOLEAN : create(path, flag)
       \/ \E id \in opened, flag \in BOOLEAN : rename(id, path, flag)
  \/ open(<< >>)
  \/ \E id \in opened :
       \/ cleanup(id) \/ overwrite(id) \/ ListStart(id)
       \/ \E flag \in BOOLEAN : set_delete(id, flag)
       \/ \E buffer \in Buffer, offset \in 0..Capacity :
            \/ \E flag \in BOOLEAN : write(id, buffer, offset, flag)
            \/ write_constrained(id, buffer, offset)
       \/ \E size \in 0..Capacity, flag \in BOOLEAN : set_file_size(id, size, flag)
  \/ read_directory

\* Every callback takes the mutex, and panics itself where it is poisoned.
Next ==
  /\ ~poisoned
  /\ \/ Callback /\ UNCHANGED poisoned
     \/ \E id \in opened, path \in Path, flag \in BOOLEAN : rename_panics(id, path, flag)

Spec == Init /\ [][Next]_vars

-----------------------------------------------------------------------------
\* The index by path and the node table agree, one node per case-folded path,
\* through every sequence of creations, deletions and renames of directories
\* with what is below them, the directories spelled otherwise in the paths below them
\* included; open and create rely on it.  Excepted are a rename that replaces a
\* directory with children, which leaves them in the table, and one that cuts a name
\* at the wrong byte.
TableExact ==
  ~tangled =>
    /\ DOMAIN by_path = {canon(nodes[id].name) : id \in Ids}
    /\ \A id \in Ids : by_path[canon(nodes[id].name)] = id

\* Nothing is lost from the tree: the parent of every node is a directory in
\* the table.  A directory that was empty when its deletion was requested may
\* have got a child before its last handle is closed.
TreeIntact ==
  ~tangled =>
    \A id \in Ids \ {Root} :
      \E parent \in Ids :
        nodes[parent].is_dir /\ canon(nodes[parent].name) = parent_canon(canon(nodes[id].name))

\* Reading anywhere in a file yields what was written there, zeros in the holes, through
\* every mix of writes, appends, truncations, extensions and renames: the
\* padding of the last sector and its tweaks never show.
ReadBack ==
  \A id \in Ids :
    /\ nodes[id].size = Len(content[id])
    /\ \A offset \in 0..(nodes[id].size - 1), n \in 1..Capacity :
         read(id, offset, n) = SubSeq(content[id], offset + 1, Smaller(offset + n, Len(content[id])))

\* An enumeration that ends has listed every name that was there all along,
\* whatever was created, deleted or renamed between its pages, the entry the
\* marker names included.
ListingComplete == listing.over => listing.due = {}

\* The tables and the tree they stand for are intact together.
TreeExact == TypeOK /\ TableExact /\ TreeIntact

=============================================================================
