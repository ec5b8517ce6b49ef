-------------------------- MODULE WinDiskFsProofs --------------------------
(***************************************************************************)
(* Proofs about WinDiskFs, for any names, paths, buffers, sector and disk  *)
(* sizes, and without bound on the callbacks.                              *)
(***************************************************************************)
EXTENDS WinDiskFs, SequenceTheorems, TLAPS

Byte == {Zero} \cup UNION {Range(buffer) : buffer \in Buffer}
Cipher == [tweak : Nat, byte : Byte]
NodeType == [name : Seq(Spelling), is_dir : BOOLEAN, data : Seq(Cipher), size : Nat]
Slot == 1..(MaxWork + 1)

Padded(plain) == round_up(Len(plain), SECTOR_SIZE)

\* A node holds plain: each byte of it, and the zeros up to the end of its last
\* sector, encrypted under the number of the sector.
Holds(node, plain) ==
  /\ node.size = Len(plain) /\ Len(node.data) = Padded(plain)
  /\ \A i \in 1..Padded(plain) :
       node.data[i] = [tweak |-> (i - 1) \div SECTOR_SIZE,
                       byte |-> IF i <= Len(plain) THEN plain[i] ELSE Zero]

Key(id) == canon(nodes[id].name)
IsListing(l) == l = [dir |-> l.dir, marker |-> l.marker, due |-> l.due, over |-> l.over]

NodesOK ==
  /\ nodes \in [Ids -> NodeType] /\ Root \in Ids /\ Ids \subseteq 1..(next_id - 1)
  /\ next_id \in Nat /\ next_id >= 2 /\ writes \in Nat /\ (next_id - 2) + writes <= MaxWork
  /\ \A id \in Ids : nodes[id].name = << >> <=> id = Root

\* What makes ReadBack inductive: a slot that no node has is empty for the next.
ContentOK ==
  /\ content \in [Slot -> Seq(Byte)]
  /\ \A id \in Ids : Holds(nodes[id], content[id]) /\ nodes[id].size <= Capacity
  /\ \A slot \in Slot \ Ids : content[slot] = << >>

HandlesOK ==
  /\ opened \subseteq Ids /\ deleting \subseteq opened \ {Root}
  /\ listing.dir \in opened \cup {0} /\ IsListing(listing)

\* What the index holds is true even after a rename has tangled the tables.
IndexOK ==
  \A key \in DOMAIN by_path : by_path[key] \in Ids /\ Key(by_path[key]) = key

\* What makes TableExact and TreeIntact inductive: not only the parent, every
\* ancestor of a node is a directory of the table.
Indexed == \A id \in Ids : Key(id) \in DOMAIN by_path /\ by_path[Key(id)] = id
Rooted ==
  \A id \in Ids : \A k \in 0..(Len(Key(id)) - 1) :
    \E dir \in Ids : nodes[dir].is_dir /\ Key(dir) = SubSeq(Key(id), 1, k)
TreeOK == tangled \in BOOLEAN /\ (~tangled => Indexed /\ Rooted)

DiskInv == NodesOK /\ ContentOK /\ HandlesOK /\ IndexOK /\ TreeOK

-----------------------------------------------------------------------------
LEMMA DiskNumbers ==
  /\ SECTOR_SIZE \in Nat /\ SECTOR_SIZE > 0 /\ Capacity \in Nat /\ MaxWork \in Nat
  /\ Buffer \subseteq Seq(Byte) /\ Zero \in Byte
<1>1. Buffer \subseteq Seq(UNION {Range(buffer) : buffer \in Buffer})
  BY WinDiskAssumption
<1>2. UNION {Range(buffer) : buffer \in Buffer} \subseteq Byte
  BY DEF Byte
<1>3. Buffer \subseteq Seq(Byte)
  BY <1>1, <1>2, SeqMonotonic
<1>4. /\ SECTOR_SIZE \in Nat \ {0} /\ Capacity \in Nat /\ MaxWork \in {MaxWork, MaxHandles}
      /\ {MaxWork, MaxHandles} \subseteq Nat
  BY WinDiskAssumption, Zenon
<1> QED BY <1>3, <1>4 DEF Byte

\* A content is padded to whole sectors, which hold it.
LEMMA PaddedBounds ==
  ASSUME NEW n \in Nat
  PROVE  round_up(n, SECTOR_SIZE) \in Nat /\ n <= round_up(n, SECTOR_SIZE)
BY DiskNumbers DEF round_up

LEMMA NothingPadded == round_up(0, SECTOR_SIZE) = 0
BY DiskNumbers DEF round_up

LEMMA ResizeType ==
  ASSUME NEW plain \in Seq(Byte), NEW n \in Nat
  PROVE  /\ Resize(plain, n) \in Seq(Byte) /\ Len(Resize(plain, n)) = n
         /\ \A i \in 1..n : Resize(plain, n)[i] = IF i <= Len(plain) THEN plain[i] ELSE Zero
<1>1. \A i \in 1..n : (IF i <= Len(plain) THEN plain[i] ELSE Zero) \in Byte
  BY DiskNumbers
<1>2. Resize(plain, n) = [i \in 1..n |-> IF i <= Len(plain) THEN plain[i] ELSE Zero]
  BY DEF Resize
<1>3. Resize(plain, n) \in [1..n -> Byte]
  BY <1>1, <1>2
<1>4. Resize(plain, n) \in Seq(Byte) /\ Len(Resize(plain, n)) = n
  BY <1>3, IsASeq
<1> QED BY <1>2, <1>4

\* ClaveDiskFs encrypts by sectors, so that what is stored holds the content.
LEMMA StoreHolds ==
  ASSUME NEW node \in NodeType, NEW plain \in Seq(Byte)
  PROVE  /\ store(node, plain) \in NodeType /\ Holds(store(node, plain), plain)
         /\ store(node, plain).name = node.name /\ store(node, plain).is_dir = node.is_dir
<1>1. Len(plain) \in Nat /\ Padded(plain) \in Nat /\ Len(plain) <= Padded(plain)
  BY PaddedBounds DEF Padded
<1>2. PICK padded : padded = Resize(plain, Padded(plain))
  OBVIOUS
<1>a. /\ padded \in Seq(Byte) /\ Len(padded) = Padded(plain)
      /\ \A i \in 1..Padded(plain) : padded[i] = IF i <= Len(plain) THEN plain[i] ELSE Zero
  BY <1>1, <1>2, ResizeType, Zenon
<1>b. DOMAIN padded = 1..Padded(plain)
  BY <1>a, LenProperties
<1>3. /\ padded \in Seq(Byte) /\ Len(padded) = Padded(plain) /\ DOMAIN padded = 1..Padded(plain)
      /\ \A i \in 1..Padded(plain) : padded[i] = IF i <= Len(plain) THEN plain[i] ELSE Zero
  BY <1>a, <1>b
<1>4. PICK data : data = [i \in 1..Padded(plain) |-> [tweak |-> (i - 1) \div SECTOR_SIZE,
                                                      byte |-> padded[i]]]
  OBVIOUS
<1>5. \A i \in 1..Padded(plain) :
        /\ (i - 1) \div SECTOR_SIZE \in Nat /\ padded[i] \in Byte
        /\ data[i] = [tweak |-> (i - 1) \div SECTOR_SIZE, byte |-> padded[i]]
  <2> TAKE i \in 1..Padded(plain)
  <2>1. (i - 1) \div SECTOR_SIZE \in Nat
    BY <1>1, DiskNumbers
  <2>2. padded[i] \in Byte
    BY <1>1, <1>3, ElementOfSeq
  <2> QED BY <1>4, <2>1, <2>2
<1>6. data \in [1..Padded(plain) -> Cipher]
  BY <1>4, <1>5 DEF Cipher
<1>7. data \in Seq(Cipher) /\ Len(data) = Padded(plain)
  BY <1>1, <1>6, IsASeq
<1>8. store(node, plain) = [node EXCEPT !.data = data, !.size = Len(plain)]
  BY <1>2, <1>3, <1>4 DEF store, Padded
<1>9. /\ store(node, plain) \in NodeType /\ store(node, plain).data = data
      /\ store(node, plain).size = Len(plain)
      /\ store(node, plain).name = node.name /\ store(node, plain).is_dir = node.is_dir
  BY <1>1, <1>7, <1>8 DEF NodeType
<1> QED BY <1>3, <1>5, <1>7, <1>9 DEF Holds

\* And what a node holds is what decrypt yields.
LEMMA DecryptHolds ==
  ASSUME NEW node, NEW plain \in Seq(Byte), Holds(node, plain)
  PROVE  decrypt(node) = plain
<1>1. Len(plain) \in Nat /\ Padded(plain) \in Nat /\ Len(plain) <= Padded(plain)
  BY PaddedBounds DEF Padded
<1>2. ASSUME NEW i \in 1..Len(plain)
      PROVE  /\ node.data[i].tweak = (i - 1) \div SECTOR_SIZE
             /\ node.data[i].byte = plain[i]
  <2>1. i \in 1..Padded(plain) /\ i <= Len(plain)
    BY <1>1
  <2>2. node.data[i] = [tweak |-> (i - 1) \div SECTOR_SIZE,
                        byte |-> IF i <= Len(plain) THEN plain[i] ELSE Zero]
    BY <2>1 DEF Holds
  <2> QED BY <2>1, <2>2
<1>3. decrypt(node) = [i \in 1..Len(plain) |-> plain[i]]
  BY <1>2 DEF decrypt, Holds
<1>4. [i \in 1..Len(plain) |-> plain[i]] = plain
  OBVIOUS
<1> QED BY <1>3, <1>4

LEMMA EmptyHolds ==
  ASSUME NEW node, node.data = << >>, node.size = 0
  PROVE  Holds(node, << >>)
BY NothingPadded DEF Holds, Padded

\* A concatenation, byte by byte.
LEMMA Joined ==
  \A s, t \in Seq(Byte) :
    /\ s \o t \in Seq(Byte) /\ Len(s \o t) = Len(s) + Len(t)
    /\ \A i \in 1..Len(s) : (s \o t)[i] = s[i]
    /\ \A i \in 1..Len(t) : (s \o t)[Len(s) + i] = t[i]
<1> TAKE s, t \in Seq(Byte)
<1> QED BY ConcatProperties

\* The bytes of a buffer, put into a content that is long enough.
LEMMA CopyType ==
  ASSUME NEW plain \in Seq(Byte), NEW buffer \in Seq(Byte), NEW start \in Nat, NEW n \in Nat,
         n <= Len(buffer), start + n <= Len(plain)
  PROVE  /\ Copy(plain, buffer, start, n) \in Seq(Byte)
         /\ Len(Copy(plain, buffer, start, n)) = Len(plain)
         /\ \A i \in 1..Len(plain) : i <= start \/ start + n < i =>
              Copy(plain, buffer, start, n)[i] = plain[i]
         /\ \A i \in 1..Len(plain) : start < i /\ i <= start + n =>
              Copy(plain, buffer, start, n)[i] = buffer[i - start]
<1>1. PICK before, middle, after : /\ before = SubSeq(plain, 1, start)
                                   /\ middle = SubSeq(buffer, 1, n)
                                   /\ after = SubSeq(plain, start + n + 1, Len(plain))
  OBVIOUS
<1>2. /\ before \in Seq(Byte) /\ Len(before) = start
      /\ \A i \in 1..start : before[i] = plain[i]
  BY <1>1
<1>3. /\ middle \in Seq(Byte) /\ Len(middle) = n
      /\ \A i \in 1..n : middle[i] = buffer[i]
  BY <1>1
<1>4. /\ after \in Seq(Byte) /\ Len(after) = Len(plain) - start - n
      /\ \A i \in 1..(Len(plain) - start - n) : after[i] = plain[start + n + i]
  BY <1>1
<1> DEFINE head == before \o middle
<1>6. /\ head \in Seq(Byte) /\ Len(head) = Len(before) + Len(middle)
      /\ \A i \in 1..Len(before) : head[i] = before[i]
      /\ \A i \in 1..Len(middle) : head[Len(before) + i] = middle[i]
  BY <1>2, <1>3, Joined, Zenon
<1> HIDE DEF head
<1> DEFINE whole == head \o after
<1>8. /\ whole \in Seq(Byte) /\ Len(whole) = Len(head) + Len(after)
      /\ \A i \in 1..Len(head) : whole[i] = head[i]
      /\ \A i \in 1..Len(after) : whole[Len(head) + i] = after[i]
  BY <1>4, <1>6, Joined, Zenon
<1>9. whole = Copy(plain, buffer, start, n)
  BY <1>1 DEF Copy, head
<1> HIDE DEF whole
<1>10. Len(whole) = Len(plain) /\ Len(head) = start + n
  BY SMTT(30), <1>2, <1>3, <1>4, <1>6, <1>8
<1>11. ASSUME NEW i \in 1..Len(plain), i <= start PROVE whole[i] = plain[i]
  BY <1>2, <1>3, <1>6, <1>8, <1>10, <1>11
<1>12. ASSUME NEW i \in 1..Len(plain), start < i, i <= start + n PROVE whole[i] = buffer[i - start]
  <2>1. PICK j \in 1..n : i = start + j
    BY <1>12
  <2>2. head[start + j] = middle[j] /\ whole[i] = head[i]
    BY <1>2, <1>3, <1>6, <1>8, <1>10, <1>12, <2>1
  <2>3. i - start = j
    BY <2>1
  <2> QED BY <1>3, <2>1, <2>2, <2>3
<1>13. ASSUME NEW i \in 1..Len(plain), start + n < i PROVE whole[i] = plain[i]
  <2>1. PICK j \in 1..(Len(plain) - start - n) : i = start + n + j
    BY <1>13
  <2>2. whole[start + n + j] = after[j]
    BY <1>4, <1>8, <1>10, <2>1
  <2> QED BY <1>4, <2>1, <2>2
<1> QED BY <1>8, <1>9, <1>10, <1>11, <1>12, <1>13

LEMMA WrittenType ==
  ASSUME NEW old \in Seq(Byte), NEW buffer \in Seq(Byte), NEW start \in Nat, NEW length \in Nat
  PROVE  /\ Written(old, buffer, start, length) \in Seq(Byte)
         /\ Len(Written(old, buffer, start, length)) = length
<1>1. \A i \in 1..length : (IF i \in (start + 1)..(start + Len(buffer)) THEN buffer[i - start]
                            ELSE IF i <= Len(old) THEN old[i] ELSE Zero) \in Byte
  BY DiskNumbers
<1>2. Written(old, buffer, start, length) \in [1..length -> Byte]
  BY <1>1 DEF Written
<1> QED BY <1>2, IsASeq

LEMMA WrittenBytes ==
  ASSUME NEW old \in Seq(Byte), NEW buffer \in Seq(Byte), NEW start \in Nat, NEW length \in Nat,
         NEW i \in 1..length
  PROVE  /\ start < i /\ i <= start + Len(buffer) =>
              Written(old, buffer, start, length)[i] = buffer[i - start]
         /\ i <= start \/ start + Len(buffer) < i =>
              Written(old, buffer, start, length)[i] = IF i <= Len(old) THEN old[i] ELSE Zero
BY DEF Written

\* write leaves of a file what the reference definition says.
LEMMA WriteAsDefined ==
  ASSUME NEW old \in Seq(Byte), NEW buffer \in Seq(Byte), NEW start \in Nat, NEW length \in Nat,
         length = Larger(start + Len(buffer), Len(old))
  PROVE  Copy(Resize(old, length), buffer, start, Len(buffer)) = Written(old, buffer, start, length)
<1>1. /\ start + Len(buffer) <= length /\ Len(old) <= length /\ Len(buffer) \in Nat /\ Len(old) \in Nat
  BY DEF Larger
<1>2. PICK plain : plain = Resize(old, length)
  OBVIOUS
<1>3. /\ plain \in Seq(Byte) /\ Len(plain) = length
      /\ \A i \in 1..length : plain[i] = IF i <= Len(old) THEN old[i] ELSE Zero
  BY <1>2, ResizeType
<1> DEFINE a == Copy(plain, buffer, start, Len(buffer))
<1> DEFINE b == Written(old, buffer, start, length)
<1>5. /\ a \in Seq(Byte) /\ Len(a) = length
      /\ \A i \in 1..length : i <= start \/ start + Len(buffer) < i => a[i] = plain[i]
      /\ \A i \in 1..length : start < i /\ i <= start + Len(buffer) => a[i] = buffer[i - start]
  BY <1>1, <1>3, CopyType
<1>6. b \in Seq(Byte) /\ Len(b) = length
  BY WrittenType
<1>7. ASSUME NEW i \in 1..length PROVE a[i] = b[i]
  <2>b. /\ start < i /\ i <= start + Len(buffer) => b[i] = buffer[i - start]
        /\ i <= start \/ start + Len(buffer) < i =>
              b[i] = IF i <= Len(old) THEN old[i] ELSE Zero
    BY WrittenBytes
  <2> HIDE DEF a, b
  <2>1. CASE start < i /\ i <= start + Len(buffer)
    BY <1>5, <2>b, <2>1
  <2>2. CASE i <= start \/ start + Len(buffer) < i
    BY <1>3, <1>5, <2>b, <2>2
  <2> QED BY <1>1, <2>1, <2>2
<1> HIDE DEF a, b
<1>8. a = b
  BY <1>5, <1>6, <1>7, SeqEqual
<1> QED BY <1>2, <1>8 DEF a, b

\* So does write_constrained, which cuts the buffer at the end of the file.
LEMMA ConstrainedAsDefined ==
  ASSUME NEW old \in Seq(Byte), NEW buffer \in Seq(Byte), NEW start \in Nat, start < Len(old),
         NEW end \in Nat, end = Smaller(start + Len(buffer), Len(old))
  PROVE  Copy(old, buffer, start, end - start) = Written(old, buffer, start, Len(old))
<1>1. PICK n \in Nat : n = end - start
  BY DEF Smaller
<1>2. /\ n <= Len(buffer) /\ start + n <= Len(old) /\ Len(buffer) \in Nat /\ Len(old) \in Nat
      /\ n = Len(buffer) \/ (start + n = Len(old) /\ n <= Len(buffer))
  BY <1>1 DEF Smaller
<1> DEFINE a == Copy(old, buffer, start, n)
<1>3. PICK length \in Nat : length = Len(old)
  BY <1>2
<1> DEFINE b == Written(old, buffer, start, length)
<1>4. /\ a \in Seq(Byte) /\ Len(a) = Len(old)
      /\ \A i \in 1..Len(old) : i <= start \/ start + n < i => a[i] = old[i]
      /\ \A i \in 1..Len(old) : start < i /\ i <= start + n => a[i] = buffer[i - start]
  BY <1>2, CopyType
<1>5. b \in Seq(Byte) /\ Len(b) = length
  BY WrittenType
<1>6. ASSUME NEW i \in 1..Len(old) PROVE a[i] = b[i]
  <2>b. /\ start < i /\ i <= start + Len(buffer) => b[i] = buffer[i - start]
        /\ i <= start \/ start + Len(buffer) < i =>
              b[i] = IF i <= Len(old) THEN old[i] ELSE Zero
    BY <1>3, WrittenBytes
  <2> HIDE DEF a, b
  <2>1. CASE start < i /\ i <= start + n
    BY <1>2, <1>4, <2>b, <2>1
  <2>2. CASE i <= start \/ start + n < i
    BY <1>2, <1>4, <2>b, <2>2
  <2> QED BY <1>2, <2>1, <2>2
<1> HIDE DEF a, b
<1>7. a = b
  BY <1>3, <1>4, <1>5, <1>6, SeqEqual
<1> QED BY <1>1, <1>3, <1>7 DEF a, b

LEMMA ResizeAsDefined ==
  ASSUME NEW old \in Seq(Byte), NEW n \in Nat
  PROVE  Resize(old, n) = Written(old, << >>, 0, n)
<1>1. \A i \in 1..n : i \notin (0 + 1)..(0 + Len(<< >>))
  OBVIOUS
<1> QED BY <1>1 DEF Resize, Written

-----------------------------------------------------------------------------
(* Keys: paths in upper case, their prefixes, and their renaming. *)

LEMMA CutType ==
  ASSUME NEW s \in Seq(Spelling), NEW k \in 0..Len(s)
  PROVE  /\ SubSeq(s, 1, k) \in Seq(Spelling) /\ Len(SubSeq(s, 1, k)) = k
         /\ \A i \in 1..k : SubSeq(s, 1, k)[i] = s[i]
<1>1. k \in Int /\ 1 \in Int /\ \A i \in 1..k : s[i] \in Spelling
  BY ElementOfSeq
<1>2. /\ SubSeq(s, 1, k) \in Seq(Spelling)
      /\ Len(SubSeq(s, 1, k)) = IF 1 <= k THEN k - 1 + 1 ELSE 0
      /\ \A i \in 1..(k - 1 + 1) : SubSeq(s, 1, k)[i] = s[1 + i - 1]
  BY <1>1, SubSeqProperties
<1> QED BY <1>2

LEMMA SameKey ==
  ASSUME NEW s \in Seq(Spelling), NEW t \in Seq(Spelling), Len(s) = Len(t),
         \A i \in 1..Len(s) : s[i] = t[i]
  PROVE  s = t
BY SeqEqual

\* A prefix, byte by byte and as a cut.
LEMMA PrefixMeans ==
  ASSUME NEW s \in Seq(Spelling), NEW t \in Seq(Spelling)
  PROVE  /\ IsPrefix(s, t) <=> Len(s) <= Len(t) /\ \A i \in 1..Len(s) : s[i] = t[i]
         /\ IsPrefix(s, t) => s = SubSeq(t, 1, Len(s))
<1>1. SubSeq(s, 1, Len(s)) = s /\ Len(s) \in Nat /\ Len(t) \in Nat
  BY SubSeqFull
<1>2. ASSUME IsPrefix(s, t)
      PROVE  /\ Len(s) <= Len(t) /\ s = SubSeq(t, 1, Len(s))
             /\ \A i \in 1..Len(s) : s[i] = t[i]
  <2>1. Len(s) <= Len(t) /\ s = SubSeq(t, 1, Len(s)) /\ Len(s) \in 0..Len(t)
    BY <1>1, <1>2 DEF IsPrefix
  <2>2. \A i \in 1..Len(s) : SubSeq(t, 1, Len(s))[i] = t[i]
    BY <2>1, CutType
  <2> QED BY <2>1, <2>2
<1>3. ASSUME Len(s) <= Len(t), \A i \in 1..Len(s) : s[i] = t[i]
      PROVE  IsPrefix(s, t)
  <2>1. Len(s) \in 0..Len(t)
    BY <1>1, <1>3
  <2>2. /\ SubSeq(t, 1, Len(s)) \in Seq(Spelling) /\ Len(SubSeq(t, 1, Len(s))) = Len(s)
        /\ \A i \in 1..Len(s) : SubSeq(t, 1, Len(s))[i] = t[i]
    BY <2>1, CutType
  <2>3. s = SubSeq(t, 1, Len(s))
    BY <1>3, <2>2, SameKey
  <2> QED BY <1>1, <1>3, <2>3 DEF IsPrefix
<1> QED BY <1>2, <1>3

LEMMA PrefixTransitive ==
  ASSUME NEW s \in Seq(Spelling), NEW t \in Seq(Spelling), NEW u \in Seq(Spelling),
         IsPrefix(s, t), IsPrefix(t, u)
  PROVE  IsPrefix(s, u)
<1>1. Len(s) <= Len(t) /\ \A i \in 1..Len(s) : s[i] = t[i]
  BY PrefixMeans
<1>2. Len(t) <= Len(u) /\ \A i \in 1..Len(t) : t[i] = u[i]
  BY PrefixMeans
<1>3. Len(s) <= Len(u) /\ \A i \in 1..Len(s) : s[i] = u[i]
  BY <1>1, <1>2
<1> QED BY <1>3, PrefixMeans

LEMMA CutIsPrefix ==
  ASSUME NEW s \in Seq(Spelling), NEW k \in 0..Len(s)
  PROVE  IsPrefix(SubSeq(s, 1, k), s)
<1>1. /\ SubSeq(s, 1, k) \in Seq(Spelling) /\ Len(SubSeq(s, 1, k)) = k /\ k <= Len(s)
      /\ \A i \in 1..k : SubSeq(s, 1, k)[i] = s[i]
  BY CutType
<1> QED BY <1>1, PrefixMeans

\* Of two prefixes of a key the shorter one is a prefix of the other.
LEMMA PrefixesNest ==
  ASSUME NEW s \in Seq(Spelling), NEW t \in Seq(Spelling), NEW u \in Seq(Spelling),
         IsPrefix(s, u), IsPrefix(t, u), Len(s) <= Len(t)
  PROVE  IsPrefix(s, t)
<1>1. Len(s) <= Len(u) /\ \A i \in 1..Len(s) : s[i] = u[i]
  BY PrefixMeans
<1>2. Len(t) <= Len(u) /\ \A i \in 1..Len(t) : t[i] = u[i]
  BY PrefixMeans
<1>3. \A i \in 1..Len(s) : s[i] = t[i]
  BY <1>1, <1>2
<1> QED BY <1>3, PrefixMeans

LEMMA ProperPrefix ==
  ASSUME NEW s \in Seq(Spelling), NEW t \in Seq(Spelling), IsPrefix(s, t), s # t
  PROVE  Len(s) < Len(t)
<1>1. Len(s) <= Len(t) /\ \A i \in 1..Len(s) : s[i] = t[i]
  BY PrefixMeans
<1>2. Len(s) # Len(t)
  BY <1>1, SameKey
<1> QED BY <1>1, <1>2

LEMMA CanonType ==
  ASSUME NEW path \in Seq(Spelling)
  PROVE  /\ canon(path) \in Seq(Spelling) /\ Len(canon(path)) = Len(path)
         /\ \A i \in 1..Len(path) : canon(path)[i] = Fold[path[i]]
<1>1. DOMAIN path = 1..Len(path) /\ Len(path) \in Nat
  BY LenProperties
<1>2. \A i \in 1..Len(path) : Fold[path[i]] \in Spelling
  BY WinDiskAssumption, ElementOfSeq
<1>3. canon(path) = [i \in 1..Len(path) |-> Fold[path[i]]]
  BY <1>1 DEF canon
<1>4. canon(path) \in [1..Len(path) -> Spelling]
  BY <1>2, <1>3
<1> QED BY <1>1, <1>3, <1>4, IsASeq

\* What a rename makes of the key of something below what is renamed.
Rebased(old, key, c) == key \o SubSeq(c, Len(old) + 1, Len(c))

LEMMA TailType ==
  ASSUME NEW s \in Seq(Spelling), NEW k \in 0..Len(s)
  PROVE  /\ SubSeq(s, k + 1, Len(s)) \in Seq(Spelling)
         /\ Len(SubSeq(s, k + 1, Len(s))) = Len(s) - k
         /\ \A j \in 1..(Len(s) - k) : SubSeq(s, k + 1, Len(s))[j] = s[k + j]
<1>1. k + 1 \in Int /\ Len(s) \in Int /\ \A i \in (k + 1)..Len(s) : s[i] \in Spelling
  BY ElementOfSeq
<1> DEFINE tail == SubSeq(s, k + 1, Len(s))
<1>2. /\ tail \in Seq(Spelling)
      /\ Len(tail) = IF k + 1 <= Len(s) THEN Len(s) - (k + 1) + 1 ELSE 0
      /\ \A i \in 1..(Len(s) - (k + 1) + 1) : tail[i] = s[(k + 1) + i - 1]
  BY <1>1, SubSeqProperties
<1> HIDE DEF tail
<1>3. Len(tail) = Len(s) - k
  BY <1>2
<1>4. ASSUME NEW j \in 1..(Len(s) - k) PROVE tail[j] = s[k + j]
  <2>1. j \in 1..(Len(s) - (k + 1) + 1) /\ (k + 1) + j - 1 = k + j
    OBVIOUS
  <2> QED BY <1>2, <2>1
<1> QED BY <1>2, <1>3, <1>4 DEF tail

LEMMA JoinedKeys ==
  \A s, t \in Seq(Spelling) :
    /\ s \o t \in Seq(Spelling) /\ Len(s \o t) = Len(s) + Len(t)
    /\ \A i \in 1..Len(s) : (s \o t)[i] = s[i]
    /\ \A i \in 1..Len(t) : (s \o t)[Len(s) + i] = t[i]
<1> TAKE s, t \in Seq(Spelling)
<1> QED BY ConcatProperties

LEMMA RebasedType ==
  ASSUME NEW old \in Seq(Spelling), NEW key \in Seq(Spelling), NEW c \in Seq(Spelling),
         Len(old) <= Len(c)
  PROVE  /\ Rebased(old, key, c) \in Seq(Spelling)
         /\ Len(Rebased(old, key, c)) = Len(key) + (Len(c) - Len(old))
         /\ \A i \in 1..Len(key) : Rebased(old, key, c)[i] = key[i]
         /\ \A j \in 1..(Len(c) - Len(old)) : Rebased(old, key, c)[Len(key) + j] = c[Len(old) + j]
<1>1. Len(old) \in 0..Len(c)
  OBVIOUS
<1> DEFINE tail == SubSeq(c, Len(old) + 1, Len(c))
<1>2. /\ tail \in Seq(Spelling) /\ Len(tail) = Len(c) - Len(old)
      /\ \A j \in 1..(Len(c) - Len(old)) : tail[j] = c[Len(old) + j]
  BY <1>1, TailType
<1>3. Rebased(old, key, c) = key \o tail
  BY DEF Rebased
<1> HIDE DEF tail
<1>4. /\ key \o tail \in Seq(Spelling) /\ Len(key \o tail) = Len(key) + Len(tail)
      /\ \A i \in 1..Len(key) : (key \o tail)[i] = key[i]
      /\ \A i \in 1..Len(tail) : (key \o tail)[Len(key) + i] = tail[i]
  BY <1>2, JoinedKeys, Zenon
<1> QED BY <1>2, <1>3, <1>4

\* Renaming moves no two keys onto one.
LEMMA RebasedInjective ==
  ASSUME NEW old \in Seq(Spelling), NEW key \in Seq(Spelling),
         NEW c \in Seq(Spelling), NEW d \in Seq(Spelling), IsPrefix(old, c), IsPrefix(old, d),
         Rebased(old, key, c) = Rebased(old, key, d)
  PROVE  c = d
<1>1. Len(old) <= Len(c) /\ \A i \in 1..Len(old) : old[i] = c[i]
  BY PrefixMeans
<1>2. Len(old) <= Len(d) /\ \A i \in 1..Len(old) : old[i] = d[i]
  BY PrefixMeans
<1>3. /\ Len(Rebased(old, key, c)) = Len(key) + (Len(c) - Len(old))
      /\ \A j \in 1..(Len(c) - Len(old)) : Rebased(old, key, c)[Len(key) + j] = c[Len(old) + j]
  BY <1>1, RebasedType
<1>4. /\ Len(Rebased(old, key, d)) = Len(key) + (Len(d) - Len(old))
      /\ \A j \in 1..(Len(d) - Len(old)) : Rebased(old, key, d)[Len(key) + j] = d[Len(old) + j]
  BY <1>2, RebasedType
<1>5. Len(c) = Len(d)
  BY <1>3, <1>4
<1>6. ASSUME NEW i \in 1..Len(c) PROVE c[i] = d[i]
  <2>1. CASE i <= Len(old)
    BY <1>1, <1>2, <2>1
  <2>2. CASE Len(old) < i
    <3>0. i - Len(old) \in 1..(Len(c) - Len(old)) /\ i = Len(old) + (i - Len(old))
      BY <1>1, <2>2
    <3>1. PICK j \in 1..(Len(c) - Len(old)) : i = Len(old) + j
      BY <3>0
    <3> QED BY <1>3, <1>4, <1>5, <3>1
  <2> QED BY <2>1, <2>2
<1> QED BY <1>5, <1>6, SameKey

\* The key itself starts what a rename makes of a key.
LEMMA RebasedBegins ==
  ASSUME NEW old \in Seq(Spelling), NEW key \in Seq(Spelling), NEW c \in Seq(Spelling),
         Len(old) <= Len(c)
  PROVE  IsPrefix(key, Rebased(old, key, c))
<1>1. /\ Rebased(old, key, c) \in Seq(Spelling)
      /\ Len(Rebased(old, key, c)) = Len(key) + (Len(c) - Len(old))
      /\ \A i \in 1..Len(key) : Rebased(old, key, c)[i] = key[i]
  BY RebasedType
<1>2. Len(key) <= Len(Rebased(old, key, c))
  BY <1>1
<1> QED BY <1>1, <1>2, PrefixMeans

\* The ancestors of a renamed key are those of the new key, and the old
\* ancestors from the renamed one down, renamed.
LEMMA RebasedCut ==
  ASSUME NEW old \in Seq(Spelling), NEW key \in Seq(Spelling), NEW c \in Seq(Spelling),
         IsPrefix(old, c), NEW j \in 0..(Len(c) - Len(old))
  PROVE  /\ Len(old) + j \in 0..Len(c)
         /\ IsPrefix(old, SubSeq(c, 1, Len(old) + j))
         /\ SubSeq(Rebased(old, key, c), 1, Len(key) + j) = Rebased(old, key, SubSeq(c, 1, Len(old) + j))
<1>1. /\ Len(old) <= Len(c) /\ \A i \in 1..Len(old) : old[i] = c[i]
      /\ Len(old) \in Nat /\ Len(c) \in Nat /\ Len(key) \in Nat
  BY PrefixMeans
<1>2. Len(old) + j \in 0..Len(c)
  BY <1>1
<1> DEFINE cut == SubSeq(c, 1, Len(old) + j)
<1>3. /\ cut \in Seq(Spelling) /\ Len(cut) = Len(old) + j
      /\ \A i \in 1..(Len(old) + j) : cut[i] = c[i]
  BY <1>2, CutType
<1> HIDE DEF cut
<1>4. IsPrefix(old, cut)
  <2>1. Len(old) <= Len(cut) /\ \A i \in 1..Len(old) : old[i] = cut[i]
    BY <1>1, <1>3
  <2> QED BY <1>3, <2>1, PrefixMeans
<1> DEFINE r == Rebased(old, key, c)
<1> DEFINE q == Rebased(old, key, cut)
<1>5. /\ r \in Seq(Spelling) /\ Len(r) = Len(key) + (Len(c) - Len(old))
      /\ \A i \in 1..Len(key) : r[i] = key[i]
      /\ \A i \in 1..(Len(c) - Len(old)) : r[Len(key) + i] = c[Len(old) + i]
  BY <1>1, RebasedType
<1>6. /\ q \in Seq(Spelling) /\ Len(q) = Len(key) + (Len(cut) - Len(old))
      /\ \A i \in 1..Len(key) : q[i] = key[i]
      /\ \A i \in 1..(Len(cut) - Len(old)) : q[Len(key) + i] = cut[Len(old) + i]
  <2>1. Len(old) <= Len(cut)
    BY <1>1, <1>3
  <2> HIDE DEF r
  <2> QED BY ZenonT(60), <1>3, <2>1, RebasedType
<1> HIDE DEF r, q
<1> DEFINE t == SubSeq(r, 1, Len(key) + j)
<1>7. /\ t \in Seq(Spelling) /\ Len(t) = Len(key) + j
      /\ \A i \in 1..(Len(key) + j) : t[i] = r[i]
  <2>1. Len(key) + j \in 0..Len(r)
    BY <1>1, <1>5
  <2> QED BY <1>5, <2>1, CutType
<1> HIDE DEF t
<1>8. Len(t) = Len(q)
  BY <1>3, <1>6, <1>7
<1>9. ASSUME NEW i \in 1..Len(t) PROVE t[i] = q[i]
  <2>1. CASE i <= Len(key)
    <3>1. i \in 1..Len(key) /\ i \in 1..(Len(key) + j)
      BY <1>1, <1>7, <2>1
    <3> QED BY <1>5, <1>6, <1>7, <3>1
  <2>2. CASE Len(key) < i
    <3>0. i - Len(key) \in 1..j /\ i = Len(key) + (i - Len(key))
      BY <1>1, <1>7, <2>2
    <3>1. PICK n \in 1..j : i = Len(key) + n
      BY <3>0
    <3>a. n \in 1..(Len(c) - Len(old))
      BY <1>1, <3>1
    <3>2. r[Len(key) + n] = c[Len(old) + n]
      BY <1>5, <3>a
    <3>3. q[Len(key) + n] = cut[Len(old) + n] /\ cut[Len(old) + n] = c[Len(old) + n]
      BY <1>1, <1>3, <1>6, <3>1
    <3> QED BY <1>7, <3>1, <3>2, <3>3
  <2> QED BY <1>1, <1>7, <2>1, <2>2
<1>10. t = q
  BY <1>6, <1>7, <1>8, <1>9, SameKey
<1> QED BY <1>2, <1>4, <1>10 DEF t, q, r, cut

LEMMA RebasedCutAbove ==
  ASSUME NEW old \in Seq(Spelling), NEW key \in Seq(Spelling), NEW c \in Seq(Spelling),
         Len(old) <= Len(c), NEW k \in 0..Len(key)
  PROVE  SubSeq(Rebased(old, key, c), 1, k) = SubSeq(key, 1, k)
<1> DEFINE r == Rebased(old, key, c)
<1>1. /\ r \in Seq(Spelling) /\ Len(r) = Len(key) + (Len(c) - Len(old))
      /\ \A i \in 1..Len(key) : r[i] = key[i]
  BY RebasedType
<1> HIDE DEF r
<1>2. k \in 0..Len(r)
  BY <1>1
<1>3. /\ SubSeq(r, 1, k) \in Seq(Spelling) /\ Len(SubSeq(r, 1, k)) = k
      /\ \A i \in 1..k : SubSeq(r, 1, k)[i] = r[i]
  BY <1>1, <1>2, CutType
<1>4. /\ SubSeq(key, 1, k) \in Seq(Spelling) /\ Len(SubSeq(key, 1, k)) = k
      /\ \A i \in 1..k : SubSeq(key, 1, k)[i] = key[i]
  BY CutType
<1>5. \A i \in 1..k : SubSeq(r, 1, k)[i] = SubSeq(key, 1, k)[i]
  BY <1>1, <1>3, <1>4
<1>6. SubSeq(r, 1, k) = SubSeq(key, 1, k)
  BY <1>3, <1>4, <1>5, SameKey
<1> QED BY <1>6 DEF r

LEMMA CutOfCut ==
  ASSUME NEW s \in Seq(Spelling), NEW k \in 0..Len(s), NEW j \in 0..k
  PROVE  SubSeq(SubSeq(s, 1, k), 1, j) = SubSeq(s, 1, j)
<1> DEFINE t == SubSeq(s, 1, k)
<1>1. t \in Seq(Spelling) /\ Len(t) = k /\ \A i \in 1..k : t[i] = s[i]
  BY CutType
<1> HIDE DEF t
<1>2. j \in 0..Len(t) /\ j \in 0..Len(s)
  BY <1>1
<1>3. /\ SubSeq(t, 1, j) \in Seq(Spelling) /\ Len(SubSeq(t, 1, j)) = j
      /\ \A i \in 1..j : SubSeq(t, 1, j)[i] = t[i]
  BY <1>1, <1>2, CutType
<1>4. /\ SubSeq(s, 1, j) \in Seq(Spelling) /\ Len(SubSeq(s, 1, j)) = j
      /\ \A i \in 1..j : SubSeq(s, 1, j)[i] = s[i]
  BY <1>2, CutType
<1>5. \A i \in 1..j : SubSeq(t, 1, j)[i] = SubSeq(s, 1, j)[i]
  BY <1>1, <1>3, <1>4
<1>6. SubSeq(t, 1, j) = SubSeq(s, 1, j)
  BY <1>3, <1>4, <1>5, SameKey
<1> QED BY <1>6 DEF t

\* rename spells the new name out; its key is the key of the old one, rebased.
LEMMA CanonMoved ==
  ASSUME NEW path \in Seq(Spelling), NEW old \in Seq(Spelling), NEW name \in Seq(Spelling),
         Len(old) <= Len(name)
  PROVE  /\ Rebased(old, path, name) \in Seq(Spelling)
         /\ canon(Rebased(old, path, name)) = Rebased(canon(old), canon(path), canon(name))
<1> DEFINE m == Rebased(old, path, name)
<1>1. /\ m \in Seq(Spelling) /\ Len(m) = Len(path) + (Len(name) - Len(old))
      /\ \A i \in 1..Len(path) : m[i] = path[i]
      /\ \A i \in 1..(Len(name) - Len(old)) : m[Len(path) + i] = name[Len(old) + i]
  BY RebasedType
<1> HIDE DEF m
<1>2. PICK o \in Seq(Spelling) : o = canon(old) /\ Len(o) = Len(old)
  BY CanonType
<1>3. PICK p \in Seq(Spelling) :
        p = canon(path) /\ Len(p) = Len(path) /\ \A i \in 1..Len(path) : p[i] = Fold[path[i]]
  BY CanonType
<1>4. PICK c \in Seq(Spelling) :
        c = canon(name) /\ Len(c) = Len(name) /\ \A i \in 1..Len(name) : c[i] = Fold[name[i]]
  BY CanonType
<1> DEFINE r == Rebased(o, p, c)
<1>5. /\ r \in Seq(Spelling) /\ Len(r) = Len(p) + (Len(c) - Len(o))
      /\ \A i \in 1..Len(p) : r[i] = p[i]
      /\ \A i \in 1..(Len(c) - Len(o)) : r[Len(p) + i] = c[Len(o) + i]
  <2>1. Len(o) <= Len(c)
    BY <1>2, <1>4
  <2>2. r \in Seq(Spelling) /\ Len(r) = Len(p) + (Len(c) - Len(o))
    BY <2>1, RebasedType
  <2>3. ASSUME NEW i \in 1..Len(p) PROVE r[i] = p[i]
    BY <2>1, RebasedType
  <2>4. ASSUME NEW i \in 1..(Len(c) - Len(o)) PROVE r[Len(p) + i] = c[Len(o) + i]
    BY <2>1, RebasedType
  <2> QED BY <2>2, <2>3, <2>4
<1> HIDE DEF r
<1> DEFINE cm == canon(m)
<1>6. cm \in Seq(Spelling) /\ Len(cm) = Len(m) /\ \A i \in 1..Len(m) : cm[i] = Fold[m[i]]
  BY <1>1, CanonType
<1> HIDE DEF cm
<1>7. Len(cm) = Len(r)
  BY <1>1, <1>2, <1>3, <1>4, <1>5, <1>6
<1>8. ASSUME NEW i \in 1..Len(cm) PROVE cm[i] = r[i]
  <2>1. CASE i <= Len(path)
    <3>1. i \in 1..Len(path) /\ i \in 1..Len(m) /\ i \in 1..Len(p)
      BY <1>3, <1>6, <2>1
    <3>2. cm[i] = Fold[m[i]] /\ m[i] = path[i] /\ r[i] = p[i] /\ p[i] = Fold[path[i]]
      BY <1>1, <1>3, <1>5, <1>6, <3>1
    <3> QED BY <3>2
  <2>2. CASE Len(path) < i
    <3>0. i - Len(path) \in 1..(Len(name) - Len(old)) /\ i = Len(path) + (i - Len(path))
      BY <1>1, <1>6, <2>2
    <3>1. PICK n \in 1..(Len(name) - Len(old)) : i = Len(path) + n
      BY <3>0
    <3>2. m[i] = name[Len(old) + n] /\ cm[i] = Fold[m[i]]
      BY <1>1, <1>6, <3>1
    <3>a. n \in 1..(Len(c) - Len(o)) /\ Len(p) + n = i /\ Len(o) + n = Len(old) + n
      BY <1>2, <1>3, <1>4, <3>1
    <3>b. r[i] = c[Len(old) + n]
      BY <1>5, <3>a
    <3>c. Len(old) + n \in 1..Len(name)
      BY <3>1
    <3>3. r[i] = c[Len(old) + n] /\ c[Len(old) + n] = Fold[name[Len(old) + n]]
      BY <1>4, <3>b, <3>c
    <3> QED BY <3>2, <3>3
  <2> QED BY <1>1, <2>1, <2>2
<1>9. cm = r
  BY <1>5, <1>6, <1>7, <1>8, SameKey
<1> QED BY <1>1, <1>2, <1>3, <1>4, <1>9 DEF cm, r, m

-----------------------------------------------------------------------------
(* A rename, on the keys c of the nodes I and the directories D among them. *)

OneNodePerKey(I, c) == \A m, n \in I : c[m] = c[n] => m = n
AncestorsAre(I, D, c) ==
  \A n \in I : \A k \in 0..(Len(c[n]) - 1) : \E d \in D : c[d] = SubSeq(c[n], 1, k)

\* Where a directory has something below it, it has a child.
LEMMA ChildBelow ==
  ASSUME NEW I, NEW D \in SUBSET I, NEW c \in [I -> Seq(Spelling)],
         OneNodePerKey(I, c), AncestorsAre(I, D, c),
         NEW o \in I, NEW n \in I, IsPrefix(c[o], c[n]), c[o] # c[n]
  PROVE  o \in D /\ \E child \in I : c[child] # << >> /\ Front(c[child]) = c[o]
<1>1. PICK key \in Seq(Spelling) : key = c[o]
  OBVIOUS
<1>2. PICK below \in Seq(Spelling) : below = c[n]
  OBVIOUS
<1>3. Len(key) < Len(below) /\ Len(key) \in Nat /\ Len(below) \in Nat
  BY <1>1, <1>2, ProperPrefix
<1>4. SubSeq(below, 1, Len(key)) = key
  BY <1>1, <1>2, PrefixMeans
<1>5. PICK d \in D : c[d] = SubSeq(below, 1, Len(key))
  <2>1. Len(key) \in 0..(Len(below) - 1)
    BY <1>3
  <2> QED BY <1>2, <2>1 DEF AncestorsAre
<1>6. d = o
  BY <1>1, <1>4, <1>5 DEF OneNodePerKey
<1>7. CASE Len(below) = Len(key) + 1
  <2>1. Len(below) - 1 = Len(key) /\ below # << >>
    BY <1>3, <1>7
  <2>2. Front(c[n]) = key
    BY <1>2, <1>4, <2>1 DEF Front
  <2> QED BY <1>1, <1>2, <1>5, <1>6, <2>1, <2>2
<1>8. CASE Len(below) # Len(key) + 1
  <2>1. /\ Len(key) + 1 \in 0..(Len(below) - 1) /\ Len(key) + 1 \in 0..Len(below)
        /\ Len(key) \in 0..(Len(key) + 1) /\ Len(key) + 1 - 1 = Len(key)
    BY <1>3, <1>8
  <2>2. PICK e \in D : c[e] = SubSeq(below, 1, Len(key) + 1)
    BY <1>2, <2>1 DEF AncestorsAre
  <2>3. Len(c[e]) = Len(key) + 1
    BY <2>1, <2>2, CutType
  <2>4. Front(c[e]) = SubSeq(SubSeq(below, 1, Len(key) + 1), 1, Len(key))
    BY <2>1, <2>2, <2>3 DEF Front
  <2>5. SubSeq(SubSeq(below, 1, Len(key) + 1), 1, Len(key)) = SubSeq(below, 1, Len(key))
    BY <2>1, CutOfCut
  <2>6. c[e] # << >>
    BY <1>3, <2>3
  <2> QED BY <1>1, <1>4, <1>5, <1>6, <2>4, <2>5, <2>6
<1> QED BY <1>7, <1>8

\* What is kept of a rename: M moves below key, the rest R stays, and nothing
\* that stays is above what moves or below where it goes.
Moves(D, c, e, old, key, M, R) ==
  /\ \A n \in M : e[n] = Rebased(old, key, c[n]) /\ IsPrefix(old, c[n])
  /\ \A n \in R : e[n] = c[n] /\ ~IsPrefix(old, c[n]) /\ ~IsPrefix(key, c[n])
  /\ \A k \in 0..(Len(key) - 1) : \E d \in D \cap R : c[d] = SubSeq(key, 1, k)

LEMMA MovedOnePerKey ==
  ASSUME NEW I, NEW c \in [I -> Seq(Spelling)], OneNodePerKey(I, c),
         NEW M \in SUBSET I, NEW R \in SUBSET I, NEW D, NEW e,
         NEW old \in Seq(Spelling), NEW key \in Seq(Spelling), Moves(D, c, e, old, key, M, R)
  PROVE  OneNodePerKey(M \cup R, e)
<1>1. \A n \in M : /\ e[n] = Rebased(old, key, c[n]) /\ IsPrefix(old, c[n])
                   /\ c[n] \in Seq(Spelling)
  BY DEF Moves
<1>2. \A n \in R : e[n] = c[n] /\ ~IsPrefix(key, c[n])
  BY DEF Moves
<1>3. ASSUME NEW n \in M PROVE IsPrefix(key, e[n])
  <2>1. Len(old) <= Len(c[n])
    BY <1>1, PrefixMeans
  <2> QED BY <1>1, <2>1, RebasedBegins
<1>4. ASSUME NEW m \in M, NEW n \in M, e[m] = e[n] PROVE m = n
  <2>1. Rebased(old, key, c[m]) = Rebased(old, key, c[n])
    BY <1>1, <1>4
  <2>2. c[m] = c[n]
    BY <1>1, <2>1, RebasedInjective
  <2> QED BY <2>2 DEF OneNodePerKey
<1>5. ASSUME NEW m \in M, NEW n \in R PROVE e[m] # e[n]
  BY <1>2, <1>3
<1>6. ASSUME NEW m \in R, NEW n \in R, e[m] = e[n] PROVE m = n
  BY <1>2, <1>6 DEF OneNodePerKey
<1> QED BY <1>4, <1>5, <1>6 DEF OneNodePerKey

LEMMA MovedAncestors ==
  ASSUME NEW I, NEW D \in SUBSET I, NEW c \in [I -> Seq(Spelling)], AncestorsAre(I, D, c),
         NEW M \in SUBSET I, NEW R \in SUBSET I, NEW e,
         NEW old \in Seq(Spelling), NEW key \in Seq(Spelling), Moves(D, c, e, old, key, M, R),
         \A n \in I : IsPrefix(old, c[n]) => n \in M,
         \A n \in I : ~IsPrefix(old, c[n]) /\ c[n] # key => n \in R
  PROVE  AncestorsAre(M \cup R, D \cap (M \cup R), e)
<1>1. \A n \in M : /\ e[n] = Rebased(old, key, c[n]) /\ IsPrefix(old, c[n])
                   /\ c[n] \in Seq(Spelling)
  BY DEF Moves
<1>2. \A n \in R : e[n] = c[n] /\ ~IsPrefix(key, c[n]) /\ ~IsPrefix(old, c[n])
  BY DEF Moves
<1>3. ASSUME NEW k \in 0..(Len(key) - 1)
      PROVE  \E d \in D \cap (M \cup R) : e[d] = SubSeq(key, 1, k)
  <2>1. PICK d \in D \cap R : c[d] = SubSeq(key, 1, k)
    BY DEF Moves
  <2> QED BY <1>2, <2>1
<1>4. ASSUME NEW n \in M, NEW k \in 0..(Len(e[n]) - 1)
      PROVE  \E d \in D \cap (M \cup R) : e[d] = SubSeq(e[n], 1, k)
  <2>1. PICK b \in Seq(Spelling) : b = c[n] /\ IsPrefix(old, b) /\ e[n] = Rebased(old, key, b)
    BY <1>1
  <2>2. Len(old) <= Len(b)
    BY <2>1, PrefixMeans
  <2>3. Len(Rebased(old, key, b)) = Len(key) + (Len(b) - Len(old))
    BY <2>2, RebasedType
  <2>4. /\ Len(e[n]) = Len(key) + (Len(b) - Len(old))
        /\ Len(key) \in Nat /\ Len(b) \in Nat /\ Len(old) \in Nat
    BY <2>1, <2>3
  <2>5. CASE k < Len(key)
    <3>1. k \in 0..(Len(key) - 1) /\ k \in 0..Len(key)
      BY <2>4, <2>5
    <3>2. SubSeq(Rebased(old, key, b), 1, k) = SubSeq(key, 1, k)
      BY <2>2, <3>1, RebasedCutAbove
    <3> QED BY <1>3, <2>1, <3>1, <3>2
  <2>6. CASE Len(key) <= k
    <3>0. k - Len(key) \in 0..(Len(b) - Len(old) - 1) /\ k = Len(key) + (k - Len(key))
      BY <2>4, <2>6
    <3>1. PICK j \in 0..(Len(b) - Len(old) - 1) : k = Len(key) + j
      BY <3>0
    <3>2. j \in 0..(Len(b) - Len(old)) /\ Len(old) + j \in 0..(Len(b) - 1)
      BY <2>2, <2>4, <3>1
    <3>3. /\ IsPrefix(old, SubSeq(b, 1, Len(old) + j))
          /\ SubSeq(Rebased(old, key, b), 1, Len(key) + j) =
               Rebased(old, key, SubSeq(b, 1, Len(old) + j))
      BY <2>1, <3>2, RebasedCut
    <3>4. PICK d \in D : c[d] = SubSeq(b, 1, Len(old) + j)
      BY <2>1, <3>2 DEF AncestorsAre
    <3>5. d \in M
      BY <3>3, <3>4
    <3>6. e[d] = Rebased(old, key, SubSeq(b, 1, Len(old) + j))
      BY <1>1, <3>4, <3>5
    <3>7. e[d] = SubSeq(e[n], 1, k)
      BY <2>1, <3>1, <3>3, <3>6
    <3> QED BY <3>5, <3>7
  <2> QED BY <2>4, <2>5, <2>6
<1>5. ASSUME NEW n \in R, NEW k \in 0..(Len(e[n]) - 1)
      PROVE  \E d \in D \cap (M \cup R) : e[d] = SubSeq(e[n], 1, k)
  <2>1. PICK b \in Seq(Spelling) : b = c[n] /\ e[n] = b /\ ~IsPrefix(key, b) /\ ~IsPrefix(old, b)
    BY <1>2
  <2>2. PICK d \in D : c[d] = SubSeq(b, 1, k)
    BY <2>1 DEF AncestorsAre
  <2>a. k \in 0..Len(b)
    BY <2>1
  <2>3. c[d] \in Seq(Spelling) /\ IsPrefix(c[d], b)
    BY <2>a, <2>2, CutIsPrefix
  <2>4. c[d] # key
    BY <2>1, <2>3
  <2>5. ~IsPrefix(old, c[d])
    BY <2>1, <2>3, PrefixTransitive
  <2>6. d \in R
    BY <2>4, <2>5
  <2> QED BY <1>2, <2>1, <2>2, <2>6
<1> QED BY <1>4, <1>5 DEF AncestorsAre

\* The directories above a key whose parent is a directory.
LEMMA AncestorsOfKey ==
  ASSUME NEW I, NEW D \in SUBSET I, NEW c \in [I -> Seq(Spelling)], AncestorsAre(I, D, c),
         NEW key \in Seq(Spelling), key # << >>, NEW parent \in D, c[parent] = Front(key),
         NEW k \in 0..(Len(key) - 1)
  PROVE  \E d \in D : c[d] = SubSeq(key, 1, k)
<1>1. /\ c[parent] = SubSeq(key, 1, Len(key) - 1) /\ Len(key) \in Nat /\ Len(key) # 0
      /\ Len(key) - 1 \in 0..Len(key) /\ k \in 0..(Len(key) - 1)
  BY EmptySeq DEF Front
<1>2. Len(c[parent]) = Len(key) - 1
  <2>1. PICK h \in 0..Len(key) : h = Len(key) - 1
    BY <1>1
  <2>2. Len(SubSeq(key, 1, h)) = h
    BY CutType
  <2> QED BY <1>1, <2>1, <2>2
<1>3. CASE k = Len(key) - 1
  BY <1>1, <1>3
<1>4. CASE k # Len(key) - 1
  <2>1. k \in 0..(Len(c[parent]) - 1)
    BY <1>1, <1>2, <1>4
  <2>2. PICK d \in D : c[d] = SubSeq(c[parent], 1, k)
    BY <2>1 DEF AncestorsAre
  <2>3. SubSeq(SubSeq(key, 1, Len(key) - 1), 1, k) = SubSeq(key, 1, k)
    BY <1>1, CutOfCut
  <2> QED BY <1>1, <2>2, <2>3
<1> QED BY <1>3, <1>4

\* A rename onto a key whose parent is a directory, that does not go below what
\* is renamed, and that replaces at most one node without children, Moves.
LEMMA RenameMoves ==
  ASSUME NEW I, NEW D \in SUBSET I, NEW c \in [I -> Seq(Spelling)],
         OneNodePerKey(I, c), AncestorsAre(I, D, c),
         NEW id \in I, NEW old \in Seq(Spelling), old = c[id],
         NEW key \in Seq(Spelling), key # << >>,
         NEW parent \in D, c[parent] = Front(key),
         ~IsStrictPrefix(old, key),
         \A o \in D : c[o] = key /\ o # id =>
            ~ \E child \in I : c[child] # << >> /\ Front(c[child]) = key,
         NEW M \in SUBSET I, NEW R \in SUBSET I, NEW e,
         \A n \in I : n \in M <=> IsPrefix(old, c[n]),
         \A n \in I : n \in R <=> ~IsPrefix(old, c[n]) /\ c[n] # key,
         \A n \in M : e[n] = Rebased(old, key, c[n]),
         \A n \in R : e[n] = c[n]
  PROVE  Moves(D, c, e, old, key, M, R)
<1>1. ASSUME NEW n \in R, IsPrefix(key, c[n]) PROVE FALSE
  <2>1. /\ c[n] \in Seq(Spelling) /\ Len(key) \in Nat /\ Len(c[n]) \in Nat /\ c[n] # key
        /\ ~IsPrefix(old, c[n])
    OBVIOUS
  <2>2. Len(key) < Len(c[n])
    BY <1>1, <2>1, ProperPrefix
  <2>3. key = SubSeq(c[n], 1, Len(key))
    BY <1>1, <2>1, PrefixMeans
  <2>4. PICK d \in D : c[d] = key
    <3>1. Len(key) \in 0..(Len(c[n]) - 1)
      BY <2>1, <2>2
    <3>2. PICK d \in D : c[d] = SubSeq(c[n], 1, Len(key))
      BY <3>1 DEF AncestorsAre
    <3> QED BY <2>3, <3>2
  <2>5. d # id
    BY <1>1, <2>1, <2>4
  <2>6. \E child \in I : c[child] # << >> /\ Front(c[child]) = c[d]
    BY <1>1, <2>1, <2>4, ChildBelow
  <2> QED BY <2>4, <2>5, <2>6
<1>2. ASSUME NEW k \in 0..(Len(key) - 1)
      PROVE  \E d \in D \cap R : c[d] = SubSeq(key, 1, k)
  <2>2. Len(key) \in Nat /\ k \in 0..Len(key) /\ k < Len(key)
    OBVIOUS
  <2>4. PICK d \in D : c[d] = SubSeq(key, 1, k)
    BY AncestorsOfKey
  <2>5. Len(c[d]) = k /\ c[d] \in Seq(Spelling) /\ IsPrefix(c[d], key)
    BY <2>2, <2>4, CutType, CutIsPrefix
  <2>6. c[d] # key
    BY <2>2, <2>5
  <2>7. ~IsPrefix(old, c[d])
    <3> SUFFICES ASSUME IsPrefix(old, c[d]) PROVE FALSE
      OBVIOUS
    <3>1. IsPrefix(old, key)
      BY <2>5, PrefixTransitive
    <3>2. Len(old) <= Len(c[d])
      BY <2>5, PrefixMeans
    <3>3. old # key
      BY <2>2, <2>5, <3>2
    <3> QED BY <3>1, <3>3 DEF IsStrictPrefix
  <2> QED BY <2>4, <2>6, <2>7
<1> QED BY <1>1, <1>2 DEF Moves

-----------------------------------------------------------------------------
(* The invariant, one callback at a time. *)

LEMMA NodeFacts ==
  ASSUME NodesOK
  PROVE  /\ Ids \subseteq Slot
         /\ \A id \in Ids : /\ nodes[id] \in NodeType /\ nodes[id].name \in Seq(Spelling)
                            /\ Key(id) \in Seq(Spelling) /\ Len(Key(id)) = Len(nodes[id].name)
                            /\ Key(id) = << >> <=> id = Root
<1>1. Ids \subseteq Slot
  BY DiskNumbers DEF NodesOK, Slot
<1>2. ASSUME NEW id \in Ids
      PROVE  /\ nodes[id] \in NodeType /\ nodes[id].name \in Seq(Spelling)
             /\ Key(id) \in Seq(Spelling) /\ Len(Key(id)) = Len(nodes[id].name)
             /\ Key(id) = << >> <=> id = Root
  <2>1. nodes[id] \in NodeType /\ nodes[id].name \in Seq(Spelling)
    BY DEF NodesOK, NodeType
  <2>2. Key(id) \in Seq(Spelling) /\ Len(Key(id)) = Len(nodes[id].name)
    BY <2>1, CanonType DEF Key
  <2>3. Key(id) = << >> <=> nodes[id].name = << >>
    BY <2>1, <2>2, EmptySeq
  <2> QED BY <2>1, <2>2, <2>3 DEF NodesOK
<1> QED BY <1>1, <1>2

LEMMA EmptyCanon == canon(<< >>) = << >>
<1>1. << >> \in Seq(Spelling) /\ Len(<< >>) = 0
  OBVIOUS
<1>2. canon(<< >>) \in Seq(Spelling) /\ Len(canon(<< >>)) = 0
  BY <1>1, CanonType
<1> QED BY <1>2, EmptySeq

LEMMA InitDisk == Init => DiskInv
<1> SUFFICES ASSUME Init PROVE DiskInv
  OBVIOUS
<1>1. Ids = {Root} /\ nodes[Root] = Node(<< >>, TRUE) /\ Root = 1
  BY DEF Init, Ids, Root
<1>2. Node(<< >>, TRUE) \in NodeType
  BY DEF Node, NodeType
<1>3. NodesOK
  BY <1>1, <1>2, DiskNumbers DEF Init, NodesOK, Node
<1>4. ContentOK
  <2>1. content \in [Slot -> Seq(Byte)] /\ \A slot \in Slot : content[slot] = << >>
    BY DEF Init, Slot
  <2>2. Holds(nodes[Root], << >>) /\ nodes[Root].size = 0
    BY <1>1, EmptyHolds DEF Node
  <2>3. Root \in Slot
    BY <1>1, DiskNumbers DEF Slot
  <2>4. content[Root] = << >>
    BY <2>1, <2>3
  <2>5. \A id \in Ids : Holds(nodes[id], content[id]) /\ nodes[id].size <= Capacity
    <3>1. Holds(nodes[Root], content[Root])
      BY <2>2, <2>4
    <3>2. nodes[Root].size <= Capacity
      BY <2>2, DiskNumbers
    <3> QED BY <1>1, <3>1, <3>2
  <2> QED BY <2>1, <2>5 DEF ContentOK
<1>5. HandlesOK
  BY DEF Init, HandlesOK, NoListing, IsListing
<1>6. Key(Root) = << >>
  BY <1>1, EmptyCanon DEF Key, Node
<1>7. DOMAIN by_path = {<< >>} /\ by_path[<< >>] = Root
  BY DEF Init
<1>8. IndexOK
  BY <1>1, <1>6, <1>7 DEF IndexOK
<1>9. Indexed
  BY <1>1, <1>6, <1>7 DEF Indexed
<1>10. Rooted
  <2>1. \A id \in Ids : Len(Key(id)) = 0
    BY <1>1, <1>6
  <2> QED BY <2>1 DEF Rooted
<1> QED BY <1>3, <1>4, <1>5, <1>8, <1>9, <1>10 DEF Init, TreeOK, DiskInv

\* open, set_delete and the enumerations change handles only.
LEMMA TableKept ==
  ASSUME DiskInv, UNCHANGED <<table, writes, content, tangled>>
  PROVE  NodesOK' /\ ContentOK' /\ IndexOK' /\ TreeOK'
<1>1. /\ nodes' = nodes /\ by_path' = by_path /\ next_id' = next_id /\ writes' = writes
      /\ content' = content /\ tangled' = tangled
  BY DEF table
<1>2. NodesOK' /\ ContentOK'
  BY <1>1 DEF DiskInv, NodesOK, ContentOK, Ids, Holds
<1>3. IndexOK' /\ TreeOK'
  BY <1>1 DEF DiskInv, IndexOK, TreeOK, Indexed, Rooted, Ids, Key
<1> QED BY <1>2, <1>3

LEMMA NamesKept ==
  ASSUME DiskInv, Ids' = Ids, by_path' = by_path, tangled' = tangled,
         \A id \in Ids : nodes'[id].name = nodes[id].name /\ nodes'[id].is_dir = nodes[id].is_dir
  PROVE  IndexOK' /\ TreeOK'
<1>1. \A id \in Ids : Key(id)' = Key(id)
  BY DEF Key
<1>2. IndexOK'
  BY <1>1 DEF DiskInv, IndexOK
<1>3. Indexed => Indexed'
  BY <1>1 DEF Indexed
<1>4. Rooted => Rooted'
  BY <1>1 DEF Rooted
<1> QED BY <1>2, <1>3, <1>4 DEF DiskInv, TreeOK

\* A file is stored: the invariant holds when what is stored is the reference.
LEMMA StoredDisk ==
  ASSUME DiskInv, NEW id \in opened, NEW plain \in Seq(Byte), Len(plain) <= Capacity,
         nodes' = [nodes EXCEPT ![id] = nodes'[id]],
         nodes'[id] \in NodeType, Holds(nodes'[id], plain),
         nodes'[id].name = nodes[id].name, nodes'[id].is_dir = nodes[id].is_dir,
         MoreWork, writes' = writes + 1, content' = [content EXCEPT ![id] = plain],
         UNCHANGED <<by_path, next_id, opened, deleting, listing, tangled>>
  PROVE  DiskInv'
<1>1. NodesOK /\ ContentOK /\ HandlesOK /\ id \in Ids /\ id \in Slot
  BY NodeFacts DEF DiskInv, HandlesOK
<1>2. Ids' = Ids /\ \A n \in Ids : n # id => nodes'[n] = nodes[n]
  BY DEF Ids
<1>3. nodes' \in [Ids -> NodeType]
  BY <1>1 DEF NodesOK
<1>4. NodesOK'
  BY <1>1, <1>2, <1>3, DiskNumbers DEF NodesOK, MoreWork
<1>5. ContentOK'
  <2>1. content' \in [Slot -> Seq(Byte)]
    BY <1>1 DEF ContentOK
  <2>2. \A n \in Slot : content'[n] = IF n = id THEN plain ELSE content[n]
    BY <1>1 DEF ContentOK
  <2>3. ASSUME NEW n \in Ids PROVE Holds(nodes'[n], content'[n]) /\ nodes'[n].size <= Capacity
    <3>1. n \in Slot
      BY <1>1, NodeFacts
    <3>2. CASE n = id
      BY <2>2, <3>1, <3>2 DEF Holds
    <3>3. CASE n # id
      BY <1>1, <1>2, <2>2, <3>1, <3>3 DEF ContentOK
    <3> QED BY <3>2, <3>3
  <2> QED BY <1>1, <1>2, <2>1, <2>2, <2>3 DEF ContentOK
<1>6. HandlesOK'
  BY <1>1, <1>2 DEF HandlesOK
<1>7. IndexOK' /\ TreeOK'
  BY <1>1, <1>2, NamesKept
<1> QED BY <1>4, <1>5, <1>6, <1>7 DEF DiskInv

LEMMA StoredStep ==
  ASSUME DiskInv, NEW id \in opened, NEW plain \in Seq(Byte), Len(plain) <= Capacity,
         Stored(id, plain, plain)
  PROVE  DiskInv'
<1>1. id \in Ids /\ nodes[id] \in NodeType
  BY NodeFacts DEF DiskInv, HandlesOK
<1>2. nodes' = [nodes EXCEPT ![id] = store(nodes[id], plain)] /\ nodes \in [Ids -> NodeType]
  BY DEF Stored, DiskInv, NodesOK
<1>3. nodes'[id] = store(nodes[id], plain)
  BY <1>1, <1>2
<1>4. /\ nodes'[id] \in NodeType /\ Holds(nodes'[id], plain)
      /\ nodes'[id].name = nodes[id].name /\ nodes'[id].is_dir = nodes[id].is_dir
  BY <1>1, <1>3, StoreHolds
<1>5. nodes' = [nodes EXCEPT ![id] = nodes'[id]]
  BY <1>2, <1>3
<1>6. /\ MoreWork /\ writes' = writes + 1 /\ content' = [content EXCEPT ![id] = plain]
      /\ UNCHANGED <<by_path, next_id, opened, deleting, listing, tangled>>
  BY DEF Stored
<1> QED BY <1>4, <1>5, <1>6, StoredDisk

LEMMA WhatIsHeld ==
  ASSUME DiskInv, NEW id \in opened
  PROVE  /\ id \in Ids /\ content[id] \in Seq(Byte) /\ decrypt(nodes[id]) = content[id]
         /\ Len(content[id]) <= Capacity
<1>1. id \in Ids /\ id \in Slot
  BY NodeFacts DEF DiskInv, HandlesOK
<1>2. content[id] \in Seq(Byte) /\ Holds(nodes[id], content[id]) /\ nodes[id].size <= Capacity
  BY <1>1 DEF DiskInv, ContentOK
<1> QED BY <1>1, <1>2, DecryptHolds DEF Holds

LEMMA WriteStep ==
  ASSUME DiskInv, NEW id \in opened, NEW buffer \in Buffer, NEW offset \in 0..Capacity,
         NEW flag \in BOOLEAN, write(id, buffer, offset, flag)
  PROVE  DiskInv'
<1>1. PICK old \in Seq(Byte) : old = content[id] /\ decrypt(nodes[id]) = old /\ Len(old) <= Capacity
  BY WhatIsHeld
<1>2. buffer \in Seq(Byte) /\ Len(buffer) \in Nat /\ Len(old) \in Nat /\ Capacity \in Nat
  BY DiskNumbers
<1>3. PICK start \in Nat : start = IF flag THEN Len(old) ELSE offset
  BY <1>2
<1>4. PICK length \in Nat : length = Larger(start + Len(buffer), Len(old))
  BY <1>2 DEF Larger
<1> DEFINE plain == Written(old, buffer, start, length)
<1>5. plain \in Seq(Byte) /\ Len(plain) = length
  BY <1>2, WrittenType
<1>6. Copy(Resize(old, length), buffer, start, Len(buffer)) = plain
  BY <1>2, <1>4, WriteAsDefined
<1> HIDE DEF plain
<1>7. start + Len(buffer) <= Capacity
  BY <1>1, <1>3 DEF write
<1>8. Len(plain) <= Capacity
  BY <1>1, <1>2, <1>4, <1>5, <1>7 DEF Larger
<1>9. Stored(id, Copy(Resize(old, length), buffer, start, Len(buffer)),
             Written(old, buffer, start, length))
  BY <1>1, <1>3, <1>4 DEF write
<1>10. Stored(id, plain, plain)
  BY <1>6, <1>9 DEF plain
<1> QED BY <1>5, <1>8, <1>10, StoredStep

LEMMA ConstrainedStep ==
  ASSUME DiskInv, NEW id \in opened, NEW buffer \in Buffer, NEW offset \in 0..Capacity,
         write_constrained(id, buffer, offset)
  PROVE  DiskInv'
<1>1. PICK old \in Seq(Byte) : old = content[id] /\ decrypt(nodes[id]) = old /\ Len(old) <= Capacity
  BY WhatIsHeld
<1>2. /\ buffer \in Seq(Byte) /\ Len(buffer) \in Nat /\ Len(old) \in Nat /\ Capacity \in Nat
      /\ offset \in Nat
  BY DiskNumbers
<1>3. offset < Len(old)
  BY <1>1 DEF write_constrained
<1>4. PICK end \in Nat : end = Smaller(offset + Len(buffer), Len(old))
  BY <1>2 DEF Smaller
<1>a. PICK length \in Nat : length = Len(old)
  BY <1>2
<1> DEFINE plain == Written(old, buffer, offset, length)
<1>5. plain \in Seq(Byte) /\ Len(plain) = length
  BY <1>2, WrittenType
<1>6. Copy(old, buffer, offset, end - offset) = Written(old, buffer, offset, Len(old))
  BY <1>2, <1>3, <1>4, ConstrainedAsDefined
<1> HIDE DEF plain
<1>7. Stored(id, Copy(old, buffer, offset, end - offset), Written(old, buffer, offset, Len(old)))
  BY <1>1, <1>4 DEF write_constrained
<1>8. Stored(id, plain, plain)
  BY <1>6, <1>7, <1>a DEF plain
<1>9. Len(plain) <= Capacity
  BY <1>1, <1>5, <1>a
<1> QED BY <1>5, <1>8, <1>9, StoredStep

LEMMA ResizeStep ==
  ASSUME DiskInv, NEW id \in opened, NEW size \in 0..Capacity, NEW flag \in BOOLEAN,
         set_file_size(id, size, flag)
  PROVE  DiskInv'
<1>1. PICK old \in Seq(Byte) : old = content[id] /\ decrypt(nodes[id]) = old
  BY WhatIsHeld
<1>2. size \in Nat /\ size <= Capacity
  BY DiskNumbers
<1> DEFINE plain == Resize(old, size)
<1>3. plain \in Seq(Byte) /\ Len(plain) = size
  BY <1>2, ResizeType
<1>4. plain = Written(old, << >>, 0, size)
  BY <1>2, ResizeAsDefined
<1>5. Stored(id, Resize(old, size), Written(old, << >>, 0, size))
  BY <1>1 DEF set_file_size
<1> HIDE DEF plain
<1>6. Stored(id, plain, plain)
  BY <1>4, <1>5 DEF plain
<1> QED BY <1>2, <1>3, <1>6, StoredStep

LEMMA OverwriteStep ==
  ASSUME DiskInv, NEW id \in opened, overwrite(id)
  PROVE  DiskInv'
<1>1. id \in Ids /\ nodes[id] \in NodeType /\ nodes \in [Ids -> NodeType]
  BY NodeFacts DEF DiskInv, HandlesOK, NodesOK
<1>2. nodes' = [nodes EXCEPT ![id].data = << >>, ![id].size = 0]
  BY DEF overwrite
<1>3. nodes'[id] = [nodes[id] EXCEPT !.data = << >>, !.size = 0]
  BY <1>1, <1>2
<1>4. /\ nodes'[id] \in NodeType /\ nodes'[id].data = << >> /\ nodes'[id].size = 0
      /\ nodes'[id].name = nodes[id].name /\ nodes'[id].is_dir = nodes[id].is_dir
  <2>1. << >> \in Seq(Cipher) /\ 0 \in Nat
    OBVIOUS
  <2> QED BY <1>1, <1>3, <2>1 DEF NodeType
<1>5. nodes' = [nodes EXCEPT ![id] = nodes'[id]]
  BY <1>1, <1>2, <1>3
<1>6. Holds(nodes'[id], << >>)
  BY <1>4, EmptyHolds
<1>7. << >> \in Seq(Byte) /\ Len(<< >>) <= Capacity
  BY DiskNumbers
<1>8. /\ MoreWork /\ writes' = writes + 1 /\ content' = [content EXCEPT ![id] = << >>]
      /\ UNCHANGED <<by_path, next_id, opened, deleting, listing, tangled>>
  BY DEF overwrite
<1> QED BY <1>4, <1>5, <1>6, <1>7, <1>8, StoredDisk

LEMMA OpenStep ==
  ASSUME DiskInv, NEW path, open(path)
  PROVE  DiskInv'
<1>1. PICK id \in id_of(canon(path)) :
        /\ opened' = opened \cup {id}
        /\ UNCHANGED <<table, deleting, listing, writes, content, tangled>>
  BY DEF open
<1>2. id \in Ids
  BY <1>1 DEF id_of, DiskInv, IndexOK
<1>3. HandlesOK'
  BY <1>1, <1>2 DEF DiskInv, HandlesOK, Ids, table
<1> QED BY <1>1, <1>3, TableKept DEF DiskInv

LEMMA SetDeleteStep ==
  ASSUME DiskInv, NEW id \in opened, NEW flag \in BOOLEAN, set_delete(id, flag)
  PROVE  DiskInv'
<1>1. HandlesOK'
  BY DEF set_delete, DiskInv, HandlesOK, Ids, table
<1>2. UNCHANGED <<table, writes, content, tangled>>
  BY DEF set_delete
<1> QED BY <1>1, <1>2, TableKept DEF DiskInv

LEMMA ListStartStep ==
  ASSUME DiskInv, NEW id \in opened, ListStart(id)
  PROVE  DiskInv'
<1>1. HandlesOK'
  BY DEF ListStart, DiskInv, HandlesOK, Ids, table, NoListing, IsListing
<1>2. UNCHANGED <<table, writes, content, tangled>>
  BY DEF ListStart
<1> QED BY <1>1, <1>2, TableKept DEF DiskInv

LEMMA ReadDirectoryStep ==
  ASSUME DiskInv, read_directory
  PROVE  DiskInv'
<1>1. /\ UNCHANGED <<table, opened, deleting, writes, content, tangled>>
      /\ \/ listing' = [listing EXCEPT !.over = TRUE, !.marker = {}]
         \/ \E name : listing' = [listing EXCEPT !.marker = {name}, !.due = listing.due \ {name}]
  BY DEF read_directory, Page
<1>2. HandlesOK'
  BY <1>1 DEF DiskInv, HandlesOK, Ids, table, IsListing
<1> QED BY <1>1, <1>2, TableKept DEF DiskInv

-----------------------------------------------------------------------------
(* The callbacks that change names. *)

Keys == [id \in Ids |-> Key(id)]
Dirs == {id \in Ids : nodes[id].is_dir}

\* The invariant of the tree, on keys.
LEMMA TreeMeans ==
  ASSUME NodesOK, IndexOK
  PROVE  /\ Keys \in [Ids -> Seq(Spelling)] /\ Dirs \in SUBSET Ids
         /\ \A id \in Ids : Keys[id] = Key(id)
         /\ Indexed => OneNodePerKey(Ids, Keys)
         /\ Rooted <=> AncestorsAre(Ids, Dirs, Keys)
<1>1. Keys \in [Ids -> Seq(Spelling)] /\ Dirs \in SUBSET Ids /\ \A id \in Ids : Keys[id] = Key(id)
  BY NodeFacts DEF Keys, Dirs
<1>2. Indexed => OneNodePerKey(Ids, Keys)
  BY <1>1 DEF Indexed, OneNodePerKey
<1>3. ASSUME Rooted PROVE AncestorsAre(Ids, Dirs, Keys)
  <2> SUFFICES ASSUME NEW n \in Ids, NEW k \in 0..(Len(Keys[n]) - 1)
               PROVE  \E d \in Dirs : Keys[d] = SubSeq(Keys[n], 1, k)
    BY DEF AncestorsAre
  <2>1. PICK d \in Ids : nodes[d].is_dir /\ Key(d) = SubSeq(Key(n), 1, k)
    BY <1>1, <1>3 DEF Rooted
  <2> QED BY <1>1, <2>1 DEF Dirs
<1>4. ASSUME AncestorsAre(Ids, Dirs, Keys) PROVE Rooted
  <2> SUFFICES ASSUME NEW n \in Ids, NEW k \in 0..(Len(Key(n)) - 1)
               PROVE  \E d \in Ids : nodes[d].is_dir /\ Key(d) = SubSeq(Key(n), 1, k)
    BY DEF Rooted
  <2>1. PICK d \in Dirs : Keys[d] = SubSeq(Keys[n], 1, k)
    BY <1>1, <1>4 DEF AncestorsAre
  <2> QED BY <1>1, <2>1 DEF Dirs
<1> QED BY <1>1, <1>2, <1>3, <1>4

LEMMA ChildrenMeans ==
  ASSUME NEW key
  PROVE  has_children(key) <=> \E child \in Ids : Key(child) # << >> /\ Front(Key(child)) = key
BY DEF has_children, children, parent_canon, Key, Ids

LEMMA WatchKept ==
  ASSUME IsListing(listing), Watch
  PROVE  IsListing(listing') /\ listing'.dir = listing.dir
<1>1. CASE listing.dir = 0
  BY <1>1 DEF Watch
<1>2. CASE listing.dir # 0
  <2>1. listing' = [listing EXCEPT !.due = listing.due \cap KidNames(nodes', listing.dir)]
    BY <1>2 DEF Watch
  <2> QED BY <2>1 DEF IsListing
<1> QED BY <1>1, <1>2

LEMMA CreateStep ==
  ASSUME DiskInv, NEW path \in Path, NEW flag \in BOOLEAN, create(path, flag)
  PROVE  DiskInv'
<1>0. PICK new : new = next_id
  OBVIOUS
<1>1. PICK key \in Seq(Spelling) : key = canon(path) /\ key # << >>
  <2>1. path \in Seq(Spelling) /\ path # << >>
    BY WinDiskAssumption
  <2>2. canon(path) \in Seq(Spelling) /\ Len(canon(path)) = Len(path)
    BY <2>1, CanonType
  <2>3. canon(path) # << >>
    BY <2>1, <2>2, EmptySeq
  <2> QED BY <2>2, <2>3
<1>2. NodesOK /\ ContentOK /\ HandlesOK /\ IndexOK /\ TreeOK
  BY DEF DiskInv
<1>3. /\ MoreWork /\ id_of(key) = {} /\ \E p \in id_of(Front(key)) : nodes[p].is_dir
      /\ nodes' = [id \in Ids \cup {new} |-> IF id = new THEN Node(path, flag) ELSE nodes[id]]
      /\ by_path' = [k \in DOMAIN by_path \cup {key} |-> IF k = key THEN new ELSE by_path[k]]
      /\ next_id' = next_id + 1 /\ opened' = opened \cup {new}
      /\ Watch /\ UNCHANGED <<deleting, writes, content, tangled>>
  BY <1>0, <1>1 DEF create, parent_canon
<1>4. new \in Nat /\ new \notin Ids /\ new \in Slot /\ new # Root
  BY <1>0, <1>2, <1>3, DiskNumbers DEF NodesOK, MoreWork, Slot, Root
<1>5. Ids' = Ids \cup {new} /\ nodes'[new] = Node(path, flag) /\ \A id \in Ids : nodes'[id] = nodes[id]
  BY <1>3, <1>4 DEF Ids
<1>6. Node(path, flag) \in NodeType /\ path # << >>
  BY WinDiskAssumption DEF Node, NodeType
<1>7. NodesOK'
  <2>1. nodes' \in [Ids' -> NodeType]
    <3>1. DOMAIN nodes' = Ids' /\ nodes' = [id \in Ids' |-> nodes'[id]]
      BY <1>3, <1>5
    <3>2. \A id \in Ids' : nodes'[id] \in NodeType
      BY <1>2, <1>5, <1>6 DEF NodesOK
    <3> QED BY <3>1, <3>2
  <2>2. \A id \in Ids' : nodes'[id].name = << >> <=> id = Root
    BY <1>2, <1>4, <1>5, <1>6 DEF NodesOK, Node
  <2>3. /\ Root \in Ids' /\ Ids' \subseteq 1..(next_id' - 1) /\ next_id' \in Nat /\ next_id' >= 2
        /\ writes' \in Nat /\ (next_id' - 2) + writes' <= MaxWork
    BY <1>0, <1>2, <1>3, <1>5, DiskNumbers DEF NodesOK, MoreWork
  <2> QED BY <2>1, <2>2, <2>3 DEF NodesOK
<1>8. ContentOK'
  <2>1. Holds(nodes'[new], content[new]) /\ nodes'[new].size <= Capacity
    <3>1. content[new] = << >>
      BY <1>2, <1>4 DEF ContentOK
    <3>2. nodes'[new].data = << >> /\ nodes'[new].size = 0
      BY <1>5 DEF Node
    <3> QED BY <3>1, <3>2, EmptyHolds, DiskNumbers
  <2>2. content' = content
    BY <1>3
  <2>3. \A id \in Ids' : Holds(nodes'[id], content'[id]) /\ nodes'[id].size <= Capacity
    BY <1>2, <1>5, <2>1, <2>2 DEF ContentOK
  <2> QED BY <1>2, <1>5, <2>2, <2>3 DEF ContentOK
<1>9. HandlesOK'
  <2>1. IsListing(listing') /\ listing'.dir = listing.dir
    BY <1>2, <1>3, WatchKept DEF HandlesOK
  <2> QED BY <1>2, <1>3, <1>5, <2>1 DEF HandlesOK
<1>10. Key(new)' = key /\ \A id \in Ids : Key(id)' = Key(id)
  BY <1>1, <1>5 DEF Key, Node
<1>11. key \notin DOMAIN by_path
  BY <1>3 DEF id_of
<1>12. /\ DOMAIN by_path' = DOMAIN by_path \cup {key} /\ by_path'[key] = new
       /\ \A k \in DOMAIN by_path : by_path'[k] = by_path[k]
  BY <1>3, <1>11
<1>13. IndexOK'
  BY <1>2, <1>5, <1>10, <1>12 DEF IndexOK
<1>14. Indexed => Indexed'
  BY <1>5, <1>10, <1>11, <1>12 DEF Indexed
<1>15. Rooted => Rooted'
  <2> SUFFICES ASSUME Rooted, NEW id \in Ids', NEW k \in 0..(Len(Key(id)') - 1)
               PROVE  \E dir \in Ids' : nodes'[dir].is_dir /\ Key(dir)' = SubSeq(Key(id)', 1, k)
    BY DEF Rooted
  <2>1. CASE id \in Ids
    <3>1. PICK dir \in Ids : nodes[dir].is_dir /\ Key(dir) = SubSeq(Key(id), 1, k)
      BY <1>10, <2>1 DEF Rooted
    <3> QED BY <1>5, <1>10, <2>1, <3>1
  <2>2. CASE id = new
    <3>1. PICK p \in Dirs : Keys[p] = Front(key)
      <4>1. PICK p \in id_of(Front(key)) : nodes[p].is_dir
        BY <1>3
      <4>2. p \in Ids /\ Key(p) = Front(key)
        BY <1>2, <4>1 DEF IndexOK, id_of
      <4> QED BY <1>2, <4>1, <4>2, TreeMeans DEF Dirs
    <3>2. k \in 0..(Len(key) - 1)
      BY <1>10, <2>2
    <3>3. /\ Keys \in [Ids -> Seq(Spelling)] /\ Dirs \in SUBSET Ids
          /\ AncestorsAre(Ids, Dirs, Keys)
      BY <1>2, TreeMeans
    <3>4. PICK dir \in Dirs : Keys[dir] = SubSeq(key, 1, k)
      BY <1>1, <3>1, <3>2, <3>3, AncestorsOfKey
    <3>5. dir \in Ids /\ nodes[dir].is_dir /\ Key(dir) = SubSeq(key, 1, k)
      BY <1>2, <3>4, TreeMeans DEF Dirs
    <3> QED BY <1>5, <1>10, <2>2, <3>5
  <2> QED BY <1>5, <2>1, <2>2
<1>16. TreeOK'
  BY <1>2, <1>3, <1>14, <1>15 DEF TreeOK
<1> QED BY <1>7, <1>8, <1>9, <1>13, <1>16 DEF DiskInv

LEMMA CleanupStep ==
  ASSUME DiskInv, NEW id \in opened, cleanup(id)
  PROVE  DiskInv'
<1>1. NodesOK /\ ContentOK /\ HandlesOK /\ IndexOK /\ TreeOK
  BY DEF DiskInv
<1>2. /\ id \in Ids /\ id \in Slot /\ opened' = opened \ {id} /\ deleting' = deleting \ {id}
      /\ UNCHANGED <<next_id, writes, tangled>>
      /\ content' = [content EXCEPT ![id] = IF id \in Ids' THEN content[id] ELSE << >>]
  BY <1>1, NodeFacts DEF cleanup, Closed, HandlesOK, Ids
<1>3. /\ IsListing(listing')
      /\ listing'.dir = 0 \/ (listing'.dir = listing.dir /\ listing.dir # id)
  <2>1. IsListing(listing)
    BY <1>1 DEF HandlesOK
  <2>2. CASE listing.dir = id
    BY <2>2 DEF cleanup, Closed, NoListing, IsListing
  <2>3. CASE listing.dir # id /\ listing.dir = 0
    BY <2>1, <2>3 DEF cleanup, Closed
  <2>4. CASE listing.dir # id /\ listing.dir # 0
    <3>1. listing' = [listing EXCEPT !.due = listing.due \cap KidNames(nodes', listing.dir)]
      BY <2>4 DEF cleanup, Closed
    <3> QED BY <2>1, <2>4, <3>1 DEF IsListing
  <2> QED BY <2>2, <2>3, <2>4
<1>4. CASE ~(id \in deleting /\ ~(nodes[id].is_dir /\ has_children(Key(id))))
  <2>1. nodes' = nodes /\ by_path' = by_path
    BY <1>4 DEF cleanup, Key
  <2>2. content' = content
    BY <1>1, <1>2, <2>1 DEF Ids, ContentOK
  <2>3. UNCHANGED <<table, writes, content, tangled>>
    BY <1>2, <2>1, <2>2 DEF table
  <2>4. HandlesOK'
    BY <1>1, <1>2, <1>3, <2>1 DEF HandlesOK, Ids
  <2> QED BY <2>3, <2>4, TableKept DEF DiskInv
<1>5. CASE id \in deleting /\ ~(nodes[id].is_dir /\ has_children(Key(id)))
  <2>1. by_path' = Without(by_path, {Key(id)}) /\ nodes' = Without(nodes, {id})
    BY <1>5 DEF cleanup, Key
  <2>2. /\ Ids' = Ids \ {id} /\ \A n \in Ids' : nodes'[n] = nodes[n]
        /\ nodes' = [n \in Ids' |-> nodes[n]]
    BY <2>1 DEF Without, Ids
  <2>3. /\ DOMAIN by_path' = DOMAIN by_path \ {Key(id)}
        /\ \A k \in DOMAIN by_path' : by_path'[k] = by_path[k]
    BY <2>1 DEF Without
  <2>4. id # Root
    BY <1>1, <1>5 DEF HandlesOK
  <2>5. NodesOK'
    BY <1>1, <1>2, <2>2, <2>4 DEF NodesOK
  <2>6. content' = [content EXCEPT ![id] = << >>]
    BY <1>2, <2>2
  <2>7. ContentOK'
    <3>1. << >> \in Seq(Byte)
      OBVIOUS
    <3>2. /\ content' \in [Slot -> Seq(Byte)] /\ content'[id] = << >>
          /\ \A n \in Slot : n # id => content'[n] = content[n]
      BY <1>1, <1>2, <2>6, <3>1 DEF ContentOK
    <3>3. ASSUME NEW n \in Ids' PROVE Holds(nodes'[n], content'[n]) /\ nodes'[n].size <= Capacity
      <4>1. n \in Ids /\ n # id /\ n \in Slot
        BY <1>1, <2>2, NodeFacts
      <4> QED BY <1>1, <2>2, <3>2, <4>1 DEF ContentOK
    <3> QED BY <1>1, <2>2, <3>2, <3>3 DEF ContentOK
  <2>8. HandlesOK'
    BY <1>1, <1>2, <1>3, <2>2 DEF HandlesOK
  <2>9. \A n \in Ids' : Key(n)' = Key(n)
    BY <2>2 DEF Key
  <2>10. IndexOK'
    BY <1>1, <2>2, <2>3, <2>9 DEF IndexOK
  <2>11. Indexed => Indexed'
    BY <1>2, <2>2, <2>3, <2>9 DEF Indexed
  <2>12. Indexed /\ Rooted => Rooted'
    <3> SUFFICES ASSUME Indexed, Rooted, NEW n \in Ids', NEW k \in 0..(Len(Key(n)') - 1)
                 PROVE  \E dir \in Ids' : nodes'[dir].is_dir /\ Key(dir)' = SubSeq(Key(n)', 1, k)
      BY DEF Rooted
    <3>1. n \in Ids /\ k \in 0..(Len(Key(n)) - 1) /\ Key(n) \in Seq(Spelling)
      BY <1>1, <2>2, <2>9, NodeFacts
    <3>2. PICK dir \in Ids : nodes[dir].is_dir /\ Key(dir) = SubSeq(Key(n), 1, k)
      BY <3>1 DEF Rooted
    <3>3. dir # id
      <4> SUFFICES ASSUME dir = id PROVE FALSE
        OBVIOUS
      <4>1. k \in 0..Len(Key(n)) /\ k # Len(Key(n))
        BY <3>1
      <4>2. IsPrefix(Key(id), Key(n)) /\ Key(id) # Key(n)
        BY <3>1, <3>2, <4>1, CutIsPrefix, CutType
      <4>3. /\ Keys \in [Ids -> Seq(Spelling)] /\ Dirs \in SUBSET Ids
            /\ OneNodePerKey(Ids, Keys) /\ AncestorsAre(Ids, Dirs, Keys)
            /\ \A m \in Ids : Keys[m] = Key(m)
        BY <1>1, TreeMeans
      <4>4. \E child \in Ids : Keys[child] # << >> /\ Front(Keys[child]) = Keys[id]
        <5>1. IsPrefix(Keys[id], Keys[n]) /\ Keys[id] # Keys[n]
          BY <1>2, <3>1, <4>2, <4>3
        <5> QED BY <1>2, <3>1, <4>3, <5>1, ChildBelow
      <4>5. has_children(Key(id))
        BY <1>2, <4>3, <4>4, ChildrenMeans
      <4> QED BY <1>5, <3>2, <4>5
    <3> QED BY <2>2, <2>9, <3>2, <3>3
  <2>13. TreeOK'
    BY <1>1, <1>2, <2>11, <2>12 DEF TreeOK
  <2> QED BY <2>5, <2>7, <2>8, <2>10, <2>13 DEF DiskInv
<1> QED BY <1>4, <1>5

\* Wherever the cut falls, what comes out is a path, and the renamed one where it fits.
LEMMA MovedType ==
  ASSUME NEW path \in Seq(Spelling), path # << >>, NEW old \in Seq(Spelling),
         NEW original \in Seq(Spelling), Len(old) <= Len(original),
         NEW t \in moved(path, old, original)
  PROVE  /\ t \in Seq(Spelling) /\ t # << >>
         /\ cut_fits(old, original) => t = Rebased(old, path, original)
<1>1. ASSUME NEW i \in 0..Len(original)
      PROVE  Rest(original, i) \in Seq(Spelling) /\ Len(Rest(original, i)) \in Nat
  BY TailType DEF Rest
<1>2. Len(old) \in 0..Len(original) /\ DOMAIN original \subseteq 0..Len(original)
      /\ Len(path) \in Nat /\ Len(path) # 0
  BY EmptySeq
<1>3. CASE cut_fits(old, original)
  <2>a. moved(path, old, original) = {path \o Rest(original, Len(old))}
    BY <1>3 DEF moved
  <2>1. t = path \o Rest(original, Len(old))
    BY <2>a
  <2>2. t \in Seq(Spelling) /\ Len(t) = Len(path) + Len(Rest(original, Len(old)))
    BY <1>1, <1>2, <2>1, JoinedKeys
  <2>3. t # << >>
    BY <1>1, <1>2, <2>2
  <2> QED BY <2>1, <2>2, <2>3 DEF Rebased, Rest
<1>4. ASSUME ~cut_fits(old, original), NEW i \in DOMAIN original, t = path \o Rest(original, i)
      PROVE  t \in Seq(Spelling) /\ t # << >>
  <2>1. t \in Seq(Spelling) /\ Len(t) = Len(path) + Len(Rest(original, i))
    BY <1>1, <1>2, <1>4, JoinedKeys
  <2> QED BY <1>1, <1>2, <2>1
<1>5. ASSUME ~cut_fits(old, original), NEW i \in DOMAIN original, NEW glued \in Glued,
             t = Front(path) \o <<glued>> \o Rest(original, i)
      PROVE  t \in Seq(Spelling) /\ t # << >>
  <2>1. Front(path) \in Seq(Spelling)
    <3>1. Len(path) - 1 \in 0..Len(path)
      BY <1>2
    <3> QED BY <3>1, CutType DEF Front
  <2>2. <<glued>> \in Seq(Spelling) /\ Len(<<glued>>) = 1
    BY WinDiskAssumption
  <2>3. /\ Front(path) \o <<glued>> \in Seq(Spelling)
        /\ Len(Front(path) \o <<glued>>) = Len(Front(path)) + 1
    BY <2>1, <2>2, JoinedKeys
  <2>4. t \in Seq(Spelling) /\ Len(t) = Len(Front(path)) + 1 + Len(Rest(original, i))
    BY <1>1, <1>2, <1>5, <2>3, JoinedKeys
  <2>5. Len(Front(path)) \in Nat
    BY <2>1
  <2> QED BY <1>1, <1>2, <2>4, <2>5
<1>6. CASE ~cut_fits(old, original)
  <2>1. \/ \E i \in DOMAIN original : t = path \o Rest(original, i)
        \/ \E i \in DOMAIN original, glued \in Glued : t = Front(path) \o <<glued>> \o Rest(original, i)
    <3>1. moved(path, old, original) =
            {path \o Rest(original, i) : i \in {j \in DOMAIN original : Cut(original, j) = PathBytes(old)}}
            \cup UNION {{Front(path) \o <<glued>> \o Rest(original, i) : glued \in Glued} :
                         i \in Divided(old, original)}
      BY <1>6 DEF moved
    <3>2. Divided(old, original) \subseteq DOMAIN original
      BY DEF Divided
    <3>3. CASE t \in {path \o Rest(original, i) : i \in {j \in DOMAIN original : Cut(original, j) = PathBytes(old)}}
      BY <3>3
    <3>4. CASE t \in UNION {{Front(path) \o <<glued>> \o Rest(original, i) : glued \in Glued} :
                              i \in Divided(old, original)}
      <4>1. PICK i \in Divided(old, original) :
              t \in {Front(path) \o <<glued>> \o Rest(original, i) : glued \in Glued}
        BY <3>4
      <4> QED BY <3>2, <4>1
    <3> QED BY <3>1, <3>3, <3>4
  <2> QED BY <1>4, <1>5, <1>6, <2>1
<1> QED BY <1>3, <1>6

LEMMA RenameStep ==
  ASSUME DiskInv, NEW id \in opened, NEW path \in Path, NEW flag \in BOOLEAN,
         rename(id, path, flag)
  PROVE  DiskInv'
<1>1. NodesOK /\ ContentOK /\ HandlesOK /\ IndexOK /\ TreeOK
  BY DEF DiskInv
<1>2. /\ id \in Ids /\ id # Root /\ path \in Seq(Spelling) /\ path # << >>
      /\ nodes[id].name \in Seq(Spelling)
  BY <1>1, WinDiskAssumption, NodeFacts DEF HandlesOK, rename, RenameAllowed
<1>3. PICK key \in Seq(Spelling) : key = canon(path) /\ Len(key) = Len(path) /\ key # << >>
  <2>1. canon(path) \in Seq(Spelling) /\ Len(canon(path)) = Len(path)
    BY <1>2, CanonType
  <2>2. canon(path) # << >>
    BY <1>2, <2>1, EmptySeq
  <2> QED BY <2>1, <2>2
<1>4. PICK old \in Seq(Spelling) : old = Key(id) /\ Len(old) = Len(nodes[id].name) /\ old # << >>
  BY <1>1, <1>2, NodeFacts
<1>5. PICK others : others = id_of(key) \ {id}
  OBVIOUS
<1>6. PICK moving : moving = affected(id) \ others
  OBVIOUS
<1>7. PICK to, settled :
        /\ settled \in SUBSET moving
        /\ \A n \in moving : to[n] \in moved(path, nodes[id].name, nodes[n].name)
        /\ DOMAIN to = moving /\ Settles(settled, to)
        /\ nodes' = [n \in DOMAIN Without(nodes, others) |->
                       IF n \in moving
                       THEN [Without(nodes, others)[n] EXCEPT !.name = to[n]]
                       ELSE Without(nodes, others)[n]]
        /\ by_path' = [k \in (DOMAIN by_path \ ({canon(nodes[n].name) : n \in moving} \cup {key}))
                             \cup {canon(to[n]) : n \in settled} |->
                         IF \E n \in settled : canon(to[n]) = k
                         THEN CHOOSE n \in settled : canon(to[n]) = k ELSE by_path[k]]
  <2>1. PICK to \in Targets(path, nodes[id].name, moving), settled \in SUBSET moving :
          Moved(to, settled, others, key)
    BY <1>3, <1>5, <1>6 DEF rename
  <2>2. DOMAIN to = moving /\ \A n \in moving : to[n] \in moved(path, nodes[id].name, nodes[n].name)
    BY <2>1 DEF Targets
  <2>3. /\ Settles(settled, to)
        /\ nodes' = [n \in DOMAIN Without(nodes, others) |->
                       IF n \in moving
                       THEN [Without(nodes, others)[n] EXCEPT !.name = to[n]]
                       ELSE Without(nodes, others)[n]]
        /\ by_path' = [k \in (DOMAIN by_path \ ({canon(nodes[n].name) : n \in moving} \cup {key}))
                             \cup {canon(to[n]) : n \in settled} |->
                         IF \E n \in settled : canon(to[n]) = k
                         THEN CHOOSE n \in settled : canon(to[n]) = k ELSE by_path[k]]
    BY <2>1, <2>2 DEF Moved
  <2> QED BY <2>2, <2>3
<1>8. /\ RenameAllowed(id, path) /\ Watch /\ UNCHANGED <<next_id, opened, deleting, writes>>
      /\ tangled' = (\/ tangled
                     \/ \E o \in others : nodes[o].is_dir /\ has_children(key)
                     \/ \E n \in moving : ~cut_fits(nodes[id].name, nodes[n].name))
      /\ content' = [n \in DOMAIN content |-> IF n \in others THEN << >> ELSE content[n]]
  BY <1>3, <1>5, <1>6 DEF rename
<1>9. \A n \in Ids : n \in moving <=> IsPrefix(old, Key(n)) /\ n \notin others
  BY <1>4, <1>6 DEF affected, Key
<1>a. moving \subseteq Ids
  BY <1>6 DEF affected
<1>10. others \subseteq Ids /\ \A o \in others : Key(o) = key /\ o # id
  BY <1>1, <1>5 DEF IndexOK, id_of
<1>11. Root \notin others /\ others \cap opened = {}
  <2>1. Root \notin others
    BY <1>1, <1>3, <1>10, NodeFacts
  <2>2. \A o \in others : o \notin opened
    BY <1>3, <1>5, <1>8 DEF RenameAllowed
  <2> QED BY <2>1, <2>2
\* What the names and the index become.
<1>12. /\ Ids' = Ids \ others
       /\ nodes' = [n \in Ids' |-> IF n \in moving THEN [nodes[n] EXCEPT !.name = to[n]] ELSE nodes[n]]
  <2>1. DOMAIN Without(nodes, others) = Ids \ others
    BY DEF Without, Ids
  <2>2. \A n \in Ids \ others : Without(nodes, others)[n] = nodes[n]
    BY DEF Without, Ids
  <2>3. Ids' = Ids \ others
    BY <1>7, <2>1 DEF Ids
  <2> QED BY <1>7, <2>1, <2>2, <2>3
<1>13. ASSUME NEW n \in moving
       PROVE  /\ n \in Ids' /\ to[n] \in Seq(Spelling) /\ to[n] # << >> /\ IsPrefix(old, Key(n))
              /\ cut_fits(nodes[id].name, nodes[n].name) => canon(to[n]) = Rebased(old, key, Key(n))
  <2>1. n \in Ids /\ n \in Ids' /\ IsPrefix(old, Key(n))
    BY <1>6, <1>9, <1>12, <1>a
  <2>2. /\ nodes[n].name \in Seq(Spelling) /\ Key(n) \in Seq(Spelling)
        /\ Len(Key(n)) = Len(nodes[n].name)
    BY <1>1, <2>1, NodeFacts
  <2>3. Len(nodes[id].name) <= Len(nodes[n].name)
    BY <1>4, <2>1, <2>2, PrefixMeans
  <2>4. /\ to[n] \in Seq(Spelling) /\ to[n] # << >>
        /\ cut_fits(nodes[id].name, nodes[n].name) =>
             to[n] = Rebased(nodes[id].name, path, nodes[n].name)
    BY <1>2, <1>7, <2>2, <2>3, MovedType
  <2>5. canon(Rebased(nodes[id].name, path, nodes[n].name)) =
          Rebased(canon(nodes[id].name), canon(path), canon(nodes[n].name))
    BY <1>2, <2>2, <2>3, CanonMoved
  <2> QED BY <1>3, <1>4, <2>1, <2>4, <2>5 DEF Key
<1>14. ASSUME NEW n \in Ids'
       PROVE  /\ n \in Ids /\ nodes'[n] \in NodeType
              /\ n \in moving => nodes'[n].name = to[n]
              /\ n \notin moving => nodes'[n].name = nodes[n].name
              /\ nodes'[n].is_dir = nodes[n].is_dir
              /\ nodes'[n].data = nodes[n].data /\ nodes'[n].size = nodes[n].size
  <2>1. n \in Ids /\ nodes[n] \in NodeType
    BY <1>1, <1>12, NodeFacts
  <2>2. CASE n \in moving
    <3>1. nodes'[n] = [nodes[n] EXCEPT !.name = to[n]]
      BY <1>12, <2>2
    <3>2. to[n] \in Seq(Spelling)
      BY <1>13, <2>2
    <3> QED BY <2>1, <2>2, <3>1, <3>2 DEF NodeType
  <2>3. CASE n \notin moving
    BY <1>12, <2>1, <2>3
  <2> QED BY <2>2, <2>3
<1>15. Root \notin moving
  <2> SUFFICES ASSUME Root \in moving PROVE FALSE
    OBVIOUS
  <2>1. Key(Root) = << >> /\ IsPrefix(old, Key(Root)) /\ << >> \in Seq(Spelling) /\ Len(<< >>) = 0
    BY <1>1, <1>13, <1>a, NodeFacts
  <2>2. Len(old) <= 0
    BY <2>1, PrefixMeans
  <2> QED BY <1>4, <2>2, EmptySeq
<1>16. NodesOK'
  <2>1. nodes' \in [Ids' -> NodeType]
    BY <1>12, <1>14
  <2>2. \A n \in Ids' : nodes'[n].name = << >> <=> n = Root
    BY ZenonT(60), <1>1, <1>13, <1>14, <1>15 DEF NodesOK
  <2> QED BY <1>1, <1>8, <1>11, <1>12, <2>1, <2>2 DEF NodesOK
<1>17. ContentOK'
  <2>1. << >> \in Seq(Byte)
    OBVIOUS
  <2>2. /\ content' \in [Slot -> Seq(Byte)]
        /\ \A n \in Slot : content'[n] = IF n \in others THEN << >> ELSE content[n]
    BY <1>1, <1>8, <2>1 DEF ContentOK
  <2>3. ASSUME NEW n \in Ids' PROVE Holds(nodes'[n], content'[n]) /\ nodes'[n].size <= Capacity
    <3>1. n \in Ids /\ n \in Slot /\ n \notin others
      BY <1>1, <1>12, NodeFacts
    <3>2. Holds(nodes[n], content[n]) /\ nodes[n].size <= Capacity /\ content'[n] = content[n]
      BY <1>1, <2>2, <3>1 DEF ContentOK
    <3> QED BY <1>14, <3>2 DEF Holds
  <2> QED BY <1>1, <1>12, <2>2, <2>3 DEF ContentOK
<1>18. HandlesOK'
  <2>1. IsListing(listing') /\ listing'.dir = listing.dir
    BY <1>1, <1>8, WatchKept DEF HandlesOK
  <2> QED BY <1>1, <1>8, <1>11, <1>12, <2>1 DEF HandlesOK
<1>b. PICK e : e = [n \in Ids' |-> canon(nodes'[n].name)]
  OBVIOUS
<1>19. /\ \A n \in moving : e[n] = canon(to[n])
       /\ \A n \in Ids' \ moving : e[n] = Key(n)
  BY <1>13, <1>14, <1>b DEF Key
<1>20. PICK stale : stale = {Key(n) : n \in moving} \cup {key}
  OBVIOUS
<1>21. by_path' = [k \in (DOMAIN by_path \ stale) \cup {canon(to[n]) : n \in settled} |->
                     IF \E n \in settled : canon(to[n]) = k
                     THEN CHOOSE n \in settled : canon(to[n]) = k ELSE by_path[k]]
  BY <1>7, <1>20 DEF Key
<1>22. /\ DOMAIN by_path' = (DOMAIN by_path \ stale) \cup {canon(to[n]) : n \in settled}
       /\ \A k \in DOMAIN by_path' :
            \/ \E n \in moving : by_path'[k] = n /\ e[n] = k
            \/ k \in DOMAIN by_path \ stale /\ by_path'[k] = by_path[k]
  <2>1. DOMAIN by_path' = (DOMAIN by_path \ stale) \cup {canon(to[n]) : n \in settled}
    BY <1>21
  <2> SUFFICES ASSUME NEW k \in DOMAIN by_path'
               PROVE  \/ \E n \in moving : by_path'[k] = n /\ e[n] = k
                      \/ k \in DOMAIN by_path \ stale /\ by_path'[k] = by_path[k]
    BY <2>1
  <2>2. CASE \E n \in settled : canon(to[n]) = k
    <3>1. by_path'[k] = CHOOSE n \in settled : canon(to[n]) = k
      BY <1>21, <2>1, <2>2
    <3>2. by_path'[k] \in settled /\ canon(to[by_path'[k]]) = k
      BY <2>2, <3>1
    <3> QED BY <1>7, <1>19, <3>2
  <2>3. CASE ~ \E n \in settled : canon(to[n]) = k
    BY <1>21, <2>1, <2>3
  <2> QED BY <2>2, <2>3
<1>23. IndexOK'
  <2> SUFFICES ASSUME NEW k \in DOMAIN by_path' PROVE by_path'[k] \in Ids' /\ e[by_path'[k]] = k
    BY <1>b DEF IndexOK, Key
  <2>1. CASE \E n \in moving : by_path'[k] = n /\ e[n] = k
    BY <1>13, <2>1
  <2>2. CASE k \in DOMAIN by_path \ stale /\ by_path'[k] = by_path[k]
    <3>1. PICK n \in Ids : n = by_path[k] /\ Key(n) = k
      BY <1>1, <2>2 DEF IndexOK
    <3>2. n \notin others /\ n \notin moving
      BY <1>10, <1>20, <2>2, <3>1
    <3> QED BY <1>12, <1>19, <2>2, <3>1, <3>2
  <2> QED BY <1>22, <2>1, <2>2
<1>24. ASSUME ~tangled' PROVE Indexed' /\ Rooted'
  <2>1. /\ Indexed /\ Rooted /\ \A o \in others : ~(nodes[o].is_dir /\ has_children(key))
        /\ \A n \in moving : cut_fits(nodes[id].name, nodes[n].name)
    BY <1>1, <1>8, <1>24 DEF TreeOK
  <2>2. /\ Keys \in [Ids -> Seq(Spelling)] /\ Dirs \in SUBSET Ids
        /\ \A n \in Ids : Keys[n] = Key(n)
        /\ OneNodePerKey(Ids, Keys) /\ AncestorsAre(Ids, Dirs, Keys)
    BY <1>1, <2>1, TreeMeans
  <2>3. ~IsStrictPrefix(old, key)
    BY <1>3, <1>4, <1>8 DEF RenameAllowed, Key
  <2>4. \A n \in Ids : Key(n) = key => n = id \/ n \in others
    BY <1>5, <2>1 DEF Indexed, id_of
  <2>5. \A n \in Ids : n \in moving <=> IsPrefix(old, Keys[n])
    <3> SUFFICES ASSUME NEW n \in Ids, IsPrefix(old, Key(n)), n \in others PROVE FALSE
      BY <1>9, <2>2
    <3>1. Key(n) = key /\ n # id
      BY <1>10
    <3>2. old = key
      BY <2>3, <3>1 DEF IsStrictPrefix
    <3>3. Key(n) = Key(id)
      BY <1>4, <3>1, <3>2
    <3> QED BY <1>2, <2>1, <3>1, <3>3 DEF Indexed
  <2> DEFINE R == Ids' \ moving
  <2> DEFINE M == moving
  <2>6. R \in SUBSET Ids /\ M \in SUBSET Ids /\ Ids' = M \cup R
    BY <1>12, <1>13, <1>a
  <2>7. \A n \in Ids : n \in R <=> ~IsPrefix(old, Keys[n]) /\ Keys[n] # key
    <3>1. IsPrefix(old, Keys[id])
      BY <1>2, <1>4, <2>2, PrefixMeans
    <3> QED BY <1>10, <1>12, <2>2, <2>4, <2>5, <3>1
  <2>8. \E parent \in Dirs : Keys[parent] = Front(key)
    <3>1. PICK parent \in id_of(Front(key)) : nodes[parent].is_dir
      BY <1>3, <1>8 DEF RenameAllowed, parent_canon
    <3>2. parent \in Ids /\ Key(parent) = Front(key)
      BY <1>1, <3>1 DEF IndexOK, id_of
    <3> QED BY <2>2, <3>1, <3>2 DEF Dirs
  <2>9. \A o \in Dirs : Keys[o] = key /\ o # id =>
          ~ \E child \in Ids : Keys[child] # << >> /\ Front(Keys[child]) = key
    <3> SUFFICES ASSUME NEW o \in Dirs, Keys[o] = key, o # id,
                        NEW child \in Ids, Keys[child] # << >>, Front(Keys[child]) = key
                 PROVE  FALSE
      OBVIOUS
    <3>1. o \in others /\ nodes[o].is_dir
      BY <2>2, <2>4 DEF Dirs
    <3>2. has_children(key)
      BY <2>2, ChildrenMeans
    <3> QED BY <2>1, <3>1, <3>2
  <2>11. /\ \A n \in M : e[n] = Rebased(old, key, Keys[n])
         /\ \A n \in R : e[n] = Keys[n]
    BY <1>13, <1>19, <2>1, <2>2, <2>6
  <2>12. Keys[id] = old
    BY <1>2, <1>4, <2>2
  <2> HIDE DEF R, M
  <2>13. PICK parent \in Dirs : Keys[parent] = Front(key)
    BY <2>8
  <2>14. \A n \in Ids : n \in M <=> IsPrefix(old, Keys[n])
    BY <2>5 DEF M
  <2>15. Moves(Dirs, Keys, e, old, key, M, R)
    <3>1. Keys \in [Ids -> Seq(Spelling)] /\ Dirs \in SUBSET Ids
      BY <2>2
    <3>2. OneNodePerKey(Ids, Keys) /\ AncestorsAre(Ids, Dirs, Keys)
      BY <2>2
    <3>3. M \in SUBSET Ids /\ R \in SUBSET Ids
      BY <2>6
    <3>4. key # << >> /\ id \in Ids /\ old = Keys[id]
      BY <1>2, <1>3, <2>12
    <3> QED BY <2>3, <2>7, <2>9, <2>11, <2>13, <2>14, <3>1, <3>2, <3>3, <3>4, RenameMoves, ZenonT(60)
  <2>16. OneNodePerKey(M \cup R, e)
    BY <2>2, <2>6, <2>15, MovedOnePerKey
  <2>17. AncestorsAre(M \cup R, Dirs \cap (M \cup R), e)
    <3>1. Keys \in [Ids -> Seq(Spelling)] /\ Dirs \in SUBSET Ids
      BY <2>2
    <3>2. AncestorsAre(Ids, Dirs, Keys)
      BY <2>2
    <3>3. M \in SUBSET Ids /\ R \in SUBSET Ids
      BY <2>6
    <3>4. \A n \in Ids : IsPrefix(old, Keys[n]) => n \in M
      BY <2>14
    <3>5. \A n \in Ids : ~IsPrefix(old, Keys[n]) /\ Keys[n] # key => n \in R
      BY <2>7
    <3> QED BY <2>15, <3>1, <3>2, <3>3, <3>4, <3>5, MovedAncestors, ZenonT(60)
  <2>18. Keys' = e
    BY <1>b DEF Keys, Key
  <2>19. Dirs' = Dirs \cap Ids'
    BY <1>14, <2>6 DEF Dirs
  <2>20. Rooted'
    <3>1. (NodesOK /\ IndexOK => (Rooted <=> AncestorsAre(Ids, Dirs, Keys)))'
      BY TreeMeans, PTL
    <3>2. AncestorsAre(Ids, Dirs, Keys)'
      BY <2>6, <2>17, <2>18, <2>19 DEF AncestorsAre
    <3> QED BY <1>16, <1>23, <3>1, <3>2
  <2>21. ASSUME NEW m \in Ids', NEW n \in Ids', e[m] = e[n] PROVE m = n
    BY <2>6, <2>16, <2>21 DEF OneNodePerKey
  <2>a. moving = M
    BY DEF M
  \* No node goes where another one that moves was, so each has the last word on its key.
  <2>b. ASSUME NEW m \in moving, NEW n \in moving, Key(m) = e[n] PROVE m = n
    <3>1. m \in Ids /\ n \in Ids /\ Keys[m] = Key(m) /\ Keys[n] = Key(n)
          /\ Key(m) \in Seq(Spelling) /\ Key(n) \in Seq(Spelling)
      BY <1>1, <1>a, <2>2, NodeFacts
    <3>2. IsPrefix(old, Key(m)) /\ IsPrefix(old, Key(n)) /\ e[n] = Rebased(old, key, Key(n))
      BY <1>13, <2>a, <2>11, <3>1
    <3>3. IsPrefix(key, Key(m))
      <4>1. Len(old) <= Len(Key(n))
        BY <3>1, <3>2, PrefixMeans
      <4> QED BY <2>b, <3>1, <3>2, <4>1, RebasedBegins
    <3>4. CASE old = key
      <4>1. Rebased(old, key, Key(n)) = Key(n)
        <5>1. Len(old) <= Len(Key(n)) /\ old = SubSeq(Key(n), 1, Len(old))
          BY <3>1, <3>2, PrefixMeans
        <5>a. PICK c \in Seq(Spelling) : c = Key(n) /\ Len(old) <= Len(c)
          BY <3>1, <5>1
        <5>b. /\ Rebased(old, old, c) \in Seq(Spelling)
              /\ Len(Rebased(old, old, c)) = Len(old) + (Len(c) - Len(old))
              /\ \A i \in 1..Len(old) : Rebased(old, old, c)[i] = old[i]
              /\ \A j \in 1..(Len(c) - Len(old)) : Rebased(old, old, c)[Len(old) + j] = c[Len(old) + j]
          BY <5>a, RebasedType
        <5>2. /\ Rebased(old, key, Key(n)) \in Seq(Spelling)
              /\ Len(Rebased(old, key, Key(n))) = Len(Key(n))
              /\ \A i \in 1..Len(old) : Rebased(old, key, Key(n))[i] = old[i]
              /\ \A j \in 1..(Len(Key(n)) - Len(old)) :
                   Rebased(old, key, Key(n))[Len(old) + j] = Key(n)[Len(old) + j]
          BY <3>4, <5>a, <5>b
        <5>3. ASSUME NEW i \in 1..Len(Key(n)) PROVE Rebased(old, key, Key(n))[i] = Key(n)[i]
          <6>1. CASE i <= Len(old)
            BY <3>1, <3>2, <5>2, <6>1, PrefixMeans
          <6>2. CASE Len(old) < i
            <7>1. i - Len(old) \in 1..(Len(Key(n)) - Len(old)) /\ Len(old) + (i - Len(old)) = i
              BY <3>1, <6>2
            <7> QED BY <5>2, <7>1
          <6> QED BY <3>1, <6>1, <6>2
        <5> QED BY <3>1, <5>2, <5>3, SameKey
      <4> QED BY <2>2, <2>b, <3>1, <3>2, <4>1 DEF OneNodePerKey
    <3>5. CASE old # key
      <4>1. IsPrefix(key, old)
        <5>1. CASE Len(key) <= Len(old)
          BY <3>1, <3>2, <3>3, <5>1, PrefixesNest
        <5>2. CASE Len(old) <= Len(key)
          BY <2>3, <3>1, <3>2, <3>3, <3>5, <5>2, PrefixesNest DEF IsStrictPrefix
        <5> QED BY <5>1, <5>2
      <4>2. key = SubSeq(old, 1, Len(key)) /\ Len(key) \in 0..(Len(old) - 1)
        BY <3>5, <4>1, PrefixMeans, ProperPrefix
      <4>3. PICK o \in Dirs : Keys[o] = key
        BY <1>2, <2>2, <2>12, <4>2 DEF AncestorsAre
      <4>4. o \in Ids /\ o # id
        BY <2>2, <2>12, <3>5, <4>3
      <4>5. \E child \in Ids : Keys[child] # << >> /\ Front(Keys[child]) = Keys[o]
        BY <1>2, <2>2, <2>12, <3>5, <4>1, <4>3, <4>4, ChildBelow
      <4> QED BY <2>9, <4>3, <4>4, <4>5
    <3> QED BY <3>4, <3>5
  <2>c. settled = moving
    <3> SUFFICES ASSUME NEW n \in moving PROVE n \in settled
      BY <1>7
    <3>1. CASE \E m \in settled : canon(to[m]) = canon(to[n])
      <4>1. PICK m \in settled : e[m] = e[n]
        BY <1>7, <1>19, <3>1
      <4>2. m \in M \cup R /\ n \in M \cup R
        BY <1>7, <2>a
      <4> QED BY <2>16, <4>1, <4>2 DEF OneNodePerKey
    <3>2. CASE \E m \in moving \ {n} : canon(nodes[m].name) = canon(to[n])
      BY <1>19, <2>b, <3>2 DEF Key
    <3> QED BY <1>7, <3>1, <3>2 DEF Settles
  <2>22. Indexed'
    <3> SUFFICES ASSUME NEW n \in Ids'
                 PROVE  e[n] \in DOMAIN by_path' /\ by_path'[e[n]] = n
      BY <1>b DEF Indexed, Key
    <3>1. e[n] \in DOMAIN by_path'
      <4>1. CASE n \in moving
        BY <1>19, <1>22, <2>c, <4>1
      <4>2. CASE n \notin moving
        <5>1. n \in Ids /\ n \notin others /\ e[n] = Key(n) /\ Key(n) \in DOMAIN by_path
          BY <1>12, <1>19, <2>1, <4>2 DEF Indexed
        <5>2. Key(n) # key
          BY <1>9, <1>4, <2>4, <2>5, <2>12, <4>2, <5>1, PrefixMeans, <1>2
        <5>3. \A m \in moving : Key(m) # Key(n)
          BY <1>a, <2>2, <4>2, <5>1 DEF OneNodePerKey
        <5> QED BY <1>20, <1>22, <5>1, <5>2, <5>3
      <4> QED BY <4>1, <4>2
    <3>2. by_path'[e[n]] \in Ids' /\ e[by_path'[e[n]]] = e[n]
      BY <1>23, <1>b, <3>1 DEF IndexOK, Key
    <3> QED BY <2>21, <3>1, <3>2
  <2> QED BY <2>20, <2>22
<1>25. tangled' \in BOOLEAN
  BY <1>8
<1>26. TreeOK'
  BY <1>24, <1>25 DEF TreeOK
<1> QED BY <1>16, <1>17, <1>18, <1>23, <1>26 DEF DiskInv

-----------------------------------------------------------------------------
\* A rename that panics leaves the tables alone.
LEMMA StepIsCallback == [Next]_vars => Callback \/ UNCHANGED disk
BY DEF Next, vars, rename_panics

LEMMA DiskStep == DiskInv /\ [Next]_vars => DiskInv'
<1> SUFFICES ASSUME DiskInv, Callback \/ UNCHANGED disk PROVE DiskInv'
  BY StepIsCallback
<1>1. ASSUME NEW path \in Path, open(path) PROVE DiskInv'
  BY <1>1, OpenStep
<1>2. ASSUME NEW path \in Path, NEW flag \in BOOLEAN, create(path, flag) PROVE DiskInv'
  BY <1>2, CreateStep
<1>3. ASSUME NEW path \in Path, NEW id \in opened, NEW flag \in BOOLEAN, rename(id, path, flag)
      PROVE  DiskInv'
  BY <1>3, RenameStep
<1>4. CASE open(<< >>)
  BY <1>4, OpenStep
<1>5. ASSUME NEW id \in opened, cleanup(id) \/ overwrite(id) \/ ListStart(id) PROVE DiskInv'
  BY <1>5, CleanupStep, OverwriteStep, ListStartStep
<1>6. ASSUME NEW id \in opened, NEW flag \in BOOLEAN, set_delete(id, flag) PROVE DiskInv'
  BY <1>6, SetDeleteStep
<1>7. ASSUME NEW id \in opened, NEW buffer \in Buffer, NEW offset \in 0..Capacity,
             NEW flag \in BOOLEAN, write(id, buffer, offset, flag)
      PROVE  DiskInv'
  BY <1>7, WriteStep
<1>8. ASSUME NEW id \in opened, NEW buffer \in Buffer, NEW offset \in 0..Capacity,
             write_constrained(id, buffer, offset)
      PROVE  DiskInv'
  BY <1>8, ConstrainedStep
<1>9. ASSUME NEW id \in opened, NEW size \in 0..Capacity, NEW flag \in BOOLEAN,
             set_file_size(id, size, flag)
      PROVE  DiskInv'
  BY <1>9, ResizeStep
<1>10. CASE read_directory
  BY <1>10, ReadDirectoryStep
<1>11. CASE UNCHANGED disk
  <2>1. HandlesOK'
    BY <1>11 DEF disk, table, DiskInv, HandlesOK, Ids
  <2>2. UNCHANGED <<table, writes, content, tangled>>
    BY <1>11 DEF disk
  <2> QED BY <2>1, <2>2, TableKept DEF DiskInv
<1> QED
  BY <1>1, <1>2, <1>3, <1>4, <1>5, <1>6, <1>7, <1>8, <1>9, <1>10, <1>11 DEF Callback

\* The tables satisfy the invariant after any callbacks.
THEOREM DiskHolds == Spec => []DiskInv
<1>1. DiskInv /\ [Next]_vars => DiskInv'
  BY DiskStep
<1> QED BY <1>1, InitDisk, PTL DEF Spec

\* ReadBack: read answers what was written, through padding, sectors and tweaks,
\* for every sector size, capacity and buffer.
THEOREM ReadsBack == Spec => []ReadBack
<1>1. DiskInv => ReadBack
  <2> SUFFICES ASSUME DiskInv, NEW id \in Ids
               PROVE  /\ nodes[id].size = Len(content[id])
                      /\ \A offset \in 0..(nodes[id].size - 1), n \in 1..Capacity :
                           read(id, offset, n) = SubSeq(content[id], offset + 1,
                                                        Smaller(offset + n, Len(content[id])))
    BY DEF ReadBack
  <2>1. id \in Slot
    BY NodeFacts DEF DiskInv
  <2>2. content[id] \in Seq(Byte) /\ Holds(nodes[id], content[id])
    BY <2>1 DEF DiskInv, ContentOK
  <2>3. nodes[id].size = Len(content[id]) /\ decrypt(nodes[id]) = content[id]
    BY <2>2, DecryptHolds DEF Holds
  <2> QED BY <2>3 DEF read
<1> QED BY <1>1, DiskHolds, PTL

\* TreeExact: the index, the node table and the tree agree after any creations,
\* deletions and renames of directories with what is below them, for any case folding and
\* any lengths of the names in bytes, until a rename replaces a directory that has children
\* or cuts the name of a node at the wrong byte.
THEOREM TreeStaysExact == Spec => []TreeExact
<1>1. DiskInv => TypeOK
  <2> SUFFICES ASSUME DiskInv PROVE TypeOK
    OBVIOUS
  <2>1. NodesOK /\ ContentOK /\ HandlesOK
    BY DEF DiskInv
  <2>2. next_id \in 2..(MaxWork + 2) /\ Root \in Ids /\ Ids \subseteq 1..(next_id - 1)
    BY <2>1, DiskNumbers DEF NodesOK
  <2>3. \A id \in Ids : /\ nodes[id].name \in Seq(Spelling) /\ nodes[id].size <= Capacity
                        /\ Len(nodes[id].data) = round_up(nodes[id].size, SECTOR_SIZE)
    BY <2>1, NodeFacts DEF ContentOK, Holds, Padded
  <2> QED BY <2>1, <2>2, <2>3 DEF HandlesOK, TypeOK
<1>2. DiskInv => TableExact
  <2> SUFFICES ASSUME DiskInv, ~tangled
               PROVE  /\ DOMAIN by_path = {canon(nodes[id].name) : id \in Ids}
                      /\ \A id \in Ids : by_path[canon(nodes[id].name)] = id
    BY DEF TableExact
  <2>1. IndexOK /\ Indexed
    BY DEF DiskInv, TreeOK
  <2> QED BY <2>1 DEF IndexOK, Indexed, Key
<1>3. DiskInv => TreeIntact
  <2> SUFFICES ASSUME DiskInv, ~tangled, NEW id \in Ids \ {Root}
               PROVE  \E parent \in Ids :
                        nodes[parent].is_dir /\ canon(nodes[parent].name) = parent_canon(canon(nodes[id].name))
    BY DEF TreeIntact
  <2>1. Rooted
    BY DEF DiskInv, TreeOK
  <2>2. Key(id) \in Seq(Spelling) /\ Key(id) # << >>
    BY NodeFacts DEF DiskInv
  <2>3. Len(Key(id)) - 1 \in 0..(Len(Key(id)) - 1)
    BY <2>2, EmptySeq
  <2>4. PICK parent \in Ids :
          nodes[parent].is_dir /\ Key(parent) = SubSeq(Key(id), 1, Len(Key(id)) - 1)
    BY <2>1, <2>3 DEF Rooted
  <2> QED BY <2>4 DEF parent_canon, Front, Key
<1> QED BY <1>1, <1>2, <1>3, DiskHolds, PTL DEF TreeExact

-----------------------------------------------------------------------------
(* Enumerations. *)

\* What makes ListingComplete inductive: what an enumeration still has to list
\* is there, and after the entry that its last page ended with.
ListingOK ==
  /\ listing.marker \subseteq Spelling
  /\ listing.dir = 0 => listing.due = {}
  /\ listing.dir # 0 => listing.due \subseteq KidNames(nodes, listing.dir)
  /\ listing.over => listing.due = {}
  /\ \A entry \in listing.marker, name \in listing.due : Before(entry, name)

LEMMA KidsSpelled ==
  ASSUME NodesOK, NEW id \in Ids
  PROVE  KidNames(nodes, id) \subseteq Spelling
<1> SUFFICES ASSUME NEW k \in children(nodes, Key(id)) PROVE basename(nodes[k].name) \in Spelling
  BY DEF KidNames, Key
<1>1. k \in Ids /\ Key(k) # << >>
  BY DEF children, Key, Ids
<1>2. nodes[k].name \in Seq(Spelling) /\ Key(k) \in Seq(Spelling) /\ Len(Key(k)) = Len(nodes[k].name)
  BY <1>1, NodeFacts
<1>3. Len(nodes[k].name) \in 1..Len(nodes[k].name)
  BY <1>1, <1>2, EmptySeq
<1>4. nodes[k].name[Len(nodes[k].name)] \in Spelling
  BY <1>2, <1>3, ElementOfSeq
<1> QED BY <1>4 DEF basename, Last

LEMMA KidsKept ==
  ASSUME NEW id \in Ids, Ids' = Ids, \A n \in Ids : nodes'[n].name = nodes[n].name
  PROVE  KidNames(nodes', id) = KidNames(nodes, id)
<1>1. DOMAIN nodes' = DOMAIN nodes
  BY DEF Ids
<1>2. canon(nodes'[id].name) = canon(nodes[id].name)
  OBVIOUS
<1>3. ASSUME NEW key PROVE children(nodes', key) = children(nodes, key)
  BY <1>1 DEF children, Ids
<1>4. PICK kids : kids = children(nodes, canon(nodes[id].name)) /\ kids \subseteq Ids
  BY DEF children, Ids
<1>5. \A k \in kids : basename(nodes'[k].name) = basename(nodes[k].name)
  BY <1>4
<1> QED BY <1>2, <1>3, <1>4, <1>5 DEF KidNames

\* A callback that changes names takes out what is not there any more.
LEMMA DueShrinks ==
  ASSUME ListingOK, IsListing(listing), Watch
  PROVE  ListingOK'
<1>1. CASE listing.dir = 0
  BY <1>1 DEF Watch, ListingOK
<1>2. CASE listing.dir # 0
  <2>1. listing' = [listing EXCEPT !.due = listing.due \cap KidNames(nodes', listing.dir)]
    BY <1>2 DEF Watch
  <2>2. /\ listing'.dir = listing.dir /\ listing'.marker = listing.marker
        /\ listing'.over = listing.over
        /\ listing'.due = listing.due \cap KidNames(nodes', listing.dir)
    BY <2>1 DEF IsListing
  <2> QED BY <1>2, <2>2 DEF ListingOK
<1> QED BY <1>1, <1>2

LEMMA NextPage ==
  ASSUME DiskInv, ListingOK, read_directory
  PROVE  ListingOK'
<1> DEFINE names == KidNames(nodes, listing.dir)
           entries == After(names, names \cap listing.marker)
<1>1. /\ listing.dir # 0 /\ ~listing.over /\ nodes' = nodes
      /\ \/ entries = {} /\ listing' = [listing EXCEPT !.over = TRUE, !.marker = {}]
         \/ \E name \in entries : /\ \A other \in entries \ {name} : Before(name, other)
                                  /\ Page(name)
  BY DEF read_directory, table
<1>2. IsListing(listing) /\ listing.dir \in Ids /\ NodesOK
  BY <1>1 DEF DiskInv, HandlesOK
<1>3. names \subseteq Spelling
  BY <1>2, KidsSpelled
<1>4. listing.due \subseteq entries
  BY <1>1 DEF ListingOK, After
<1> HIDE DEF entries
<1>5. CASE entries = {} /\ listing' = [listing EXCEPT !.over = TRUE, !.marker = {}]
  <2>1. listing'.dir = listing.dir /\ listing'.marker = {} /\ listing'.due = listing.due
    BY <1>2, <1>5 DEF IsListing
  <2> QED BY <1>4, <1>5, <2>1 DEF ListingOK
<1>6. ASSUME NEW name \in entries, Page(name), \A other \in entries \ {name} : Before(name, other)
      PROVE  ListingOK'
  <2>1. /\ listing'.dir = listing.dir /\ listing'.marker = {name}
        /\ listing'.due = listing.due \ {name} /\ listing'.over = listing.over
    BY <1>2, <1>6 DEF IsListing, Page
  <2>2. name \in Spelling
    BY <1>3 DEF entries, After
  <2>3. \A other \in listing'.due : Before(name, other)
    BY <1>4, <1>6, <2>1
  <2>4. listing'.due \subseteq KidNames(nodes', listing'.dir)
    BY <1>1, <2>1 DEF ListingOK
  <2>5. ~listing'.over
    BY <1>1, <2>1
  <2> QED BY <1>1, <2>1, <2>2, <2>3, <2>4, <2>5 DEF ListingOK
<1> QED BY <1>1, <1>5, <1>6

LEMMA ListingStep ==
  ASSUME DiskInv, ListingOK, Callback \/ UNCHANGED disk
  PROVE  ListingOK'
<1>0. /\ IsListing(listing) /\ NodesOK /\ opened \subseteq Ids
      /\ listing.dir \in opened \cup {0} /\ 0 \notin Ids
  BY DEF DiskInv, HandlesOK, NodesOK
<1>1. ASSUME Ids' = Ids, \A n \in Ids : nodes'[n].name = nodes[n].name, listing' = listing
      PROVE  ListingOK'
  <2>1. listing.dir # 0 => KidNames(nodes', listing.dir) = KidNames(nodes, listing.dir)
    BY <1>0, <1>1, KidsKept
  <2> QED BY <1>1, <2>1 DEF ListingOK
<1>2. ASSUME UNCHANGED table, UNCHANGED listing PROVE ListingOK'
  BY <1>1, <1>2 DEF table, Ids
<1>3. ASSUME NEW id \in opened, NEW plain, NEW reference, Stored(id, plain, reference)
      PROVE  ListingOK'
  <2>1. nodes' = [nodes EXCEPT ![id] = store(nodes[id], plain)] /\ listing' = listing
    BY <1>3 DEF Stored
  <2>2. nodes \in [Ids -> NodeType] /\ id \in Ids /\ nodes[id] \in NodeType
    BY <1>0 DEF NodesOK
  <2>3. store(nodes[id], plain).name = nodes[id].name
    BY <2>2 DEF store, NodeType
  <2>4. Ids' = Ids /\ \A n \in Ids : nodes'[n].name = nodes[n].name
    BY <2>1, <2>2, <2>3 DEF Ids
  <2> QED BY <1>1, <2>1, <2>4
<1>4. ASSUME NEW id \in opened, overwrite(id) PROVE ListingOK'
  <2>1. nodes' = [nodes EXCEPT ![id].data = << >>, ![id].size = 0] /\ listing' = listing
    BY <1>4 DEF overwrite
  <2>2. nodes \in [Ids -> NodeType] /\ id \in Ids /\ nodes[id] \in NodeType
    BY <1>0 DEF NodesOK
  <2>3. Ids' = Ids /\ \A n \in Ids : nodes'[n].name = nodes[n].name
    BY <2>1, <2>2 DEF Ids, NodeType
  <2> QED BY <1>1, <2>1, <2>3
<1>5. ASSUME NEW id \in opened, ListStart(id) PROVE ListingOK'
  <2>1. nodes' = nodes /\ listing' = [dir |-> id, marker |-> {}, due |-> KidNames(nodes, id), over |-> FALSE]
    BY <1>5 DEF ListStart, NoListing, table
  <2>2. id # 0
    BY <1>0
  <2> QED BY <2>1, <2>2 DEF ListingOK
<1>6. ASSUME NEW id \in opened, cleanup(id) PROVE ListingOK'
  <2>1. listing' = IF listing.dir = id THEN NoListing
                   ELSE IF listing.dir = 0 THEN listing
                   ELSE [listing EXCEPT !.due = listing.due \cap KidNames(nodes', listing.dir)]
    BY <1>6 DEF cleanup, Closed
  <2>2. CASE listing.dir = id
    BY <2>1, <2>2 DEF NoListing, ListingOK
  <2>3. CASE listing.dir # id
    <3>1. Watch
      BY <2>1, <2>3 DEF Watch
    <3> QED BY <1>0, <3>1, DueShrinks
  <2> QED BY <2>2, <2>3
<1>7. ASSUME NEW path \in Path, NEW id \in opened, NEW flag \in BOOLEAN, rename(id, path, flag)
      PROVE  ListingOK'
  <2>1. Watch
    BY <1>7 DEF rename
  <2> QED BY <1>0, <2>1, DueShrinks
<1>8. ASSUME NEW path \in Path, NEW flag \in BOOLEAN, create(path, flag) PROVE ListingOK'
  <2>1. Watch
    BY <1>8 DEF create
  <2> QED BY <1>0, <2>1, DueShrinks
<1>9. ASSUME NEW path, open(path) PROVE ListingOK'
  BY <1>2, <1>9 DEF open
<1>10. ASSUME NEW id \in opened, NEW flag \in BOOLEAN, set_delete(id, flag) PROVE ListingOK'
  BY <1>2, <1>10 DEF set_delete
<1>11. ASSUME NEW id \in opened, NEW buffer \in Buffer, NEW offset \in 0..Capacity,
              \/ \E flag \in BOOLEAN : write(id, buffer, offset, flag)
              \/ write_constrained(id, buffer, offset)
       PROVE  ListingOK'
  BY <1>3, <1>11 DEF write, write_constrained
<1>12. ASSUME NEW id \in opened, NEW size \in 0..Capacity, NEW flag \in BOOLEAN,
              set_file_size(id, size, flag)
       PROVE  ListingOK'
  BY <1>3, <1>12 DEF set_file_size
<1>13. CASE read_directory
  BY <1>13, NextPage
<1>14. CASE UNCHANGED disk
  BY <1>2, <1>14 DEF disk
<1> QED
  BY <1>4, <1>5, <1>6, <1>7, <1>8, <1>9, <1>10, <1>11, <1>12, <1>13, <1>14 DEF Callback

\* ListingComplete: read_directory skips no name that was there all along, for
\* any names and whatever the callbacks between its pages change, the entry
\* that the marker names included.
THEOREM NothingSkipped == Spec => []ListingComplete
<1>1. Init => ListingOK
  BY DEF Init, NoListing, ListingOK
<1>2. ListingOK => ListingComplete
  BY DEF ListingOK, ListingComplete
<1>3. DiskInv /\ ListingOK /\ [Next]_vars => ListingOK'
  BY ListingStep, StepIsCallback
<1> QED BY <1>1, <1>2, <1>3, DiskHolds, PTL DEF Spec

=============================================================================
