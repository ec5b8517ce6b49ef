---------------------------- MODULE AuditProofs ----------------------------
(***************************************************************************)
(* Proofs about the audit trail, for every set of events, keys, users and  *)
(* workspaces, every set of faults and every bound: first the way from a   *)
(* device's spool to the gateway's ledger (AuditSync), then what the       *)
(* gateway's stores keep of the ledger and of the directory                *)
(* (GatewayStores).                                                        *)
(***************************************************************************)
EXTENDS AuditSync, GatewayStores, TLAPS, WellFoundedInduction, SequenceTheorems, FiniteSetTheorems

(***************************************************************************)
(* The operators of AuditChain: what Retain keeps, what VerifyBatch        *)
(* accepts, and that a genuine batch is accepted.                          *)
(***************************************************************************)
\* A nonempty set of naturals has a least element.
LEMMA LeastNat ==
  ASSUME NEW T \in SUBSET Nat, T # {}
  PROVE  \E m \in T : \A k \in T : m <= k
<1> DEFINE R == {ss \in Nat \X Nat : ss[1] < ss[2]}
<1>1. IsWellFoundedOn(R, Nat)
  BY NatLessThanWellFounded DEF OpToRel
<1>2. PICK m \in T : \A y \in T : ~ (<<y, m>> \in R)
  <2> HIDE DEF R
  <2> QED BY <1>1, WFMin
<1>3. \A y \in T : y < m => <<y, m>> \in R
  OBVIOUS
<1>4. \A y \in T : ~ (y < m)
  BY <1>2, <1>3
<1> QED BY <1>4

\* Induction up to N, for a claim given as the set G of the indices where it holds.
LEMMA IndexInduction ==
  ASSUME NEW N \in Nat, NEW G, 0 \in G,
         \A i \in 1..N : i - 1 \in G => i \in G
  PROVE  \A i \in 0..N : i \in G
<1> DEFINE Bad == (0..N) \ G
<1> SUFFICES ASSUME Bad # {} PROVE FALSE
  OBVIOUS
<1>1. Bad \in SUBSET Nat
  OBVIOUS
<1>2. PICK k \in Bad : \A l \in Bad : k <= l
  <2> HIDE DEF Bad
  <2> QED BY <1>1, LeastNat
<1>3. k \in 1..N /\ k - 1 \in 0..N /\ k - 1 \notin Bad
  BY <1>2
<1> QED BY <1>3

\* First picks the least element, so the entry that verify_batch reports is one
\* that fails.
LEMMA FirstIsBad ==
  ASSUME NEW T \in SUBSET Nat, T # {}
  PROVE  First(T) \in T
<1>1. \E i \in T : \A j \in T : i <= j
  BY LeastNat
<1> QED BY <1>1 DEF First

\* One step of Vec::retain, given the results for shorter prefixes.
RetainStep(entries, n, f, i) ==
  IF i = 0 THEN << >>
  ELSE IF entries[i].seq > n THEN Append(f[i - 1], entries[i])
  ELSE f[i - 1]

\* The recursive function inside Retain exists, for every prefix of the entries.
LEMMA RetainFunction ==
  ASSUME NEW entries, NEW n, NEW m \in Nat
  PROVE  \E f : f = [i \in 0..m |-> RetainStep(entries, n, f, i)]
<1> DEFINE Q(k) == \E f : f = [i \in 0..k |-> RetainStep(entries, n, f, i)]
           Bad == {k \in Nat : ~Q(k)}
<1> SUFFICES ASSUME Bad # {} PROVE FALSE
  BY DEF Bad
<1>1. PICK k \in Bad : \A l \in Bad : k <= l
  BY LeastNat
<1>2. k # 0
  <2>1. [i \in 0..0 |-> << >>] = [i \in 0..0 |-> RetainStep(entries, n, [j \in 0..0 |-> << >>], i)]
    BY DEF RetainStep
  <2>2. Q(0)
    BY <2>1
  <2> QED BY <2>2
<1>3. Q(k - 1)
  <2> HIDE DEF Q
  <2> QED BY <1>1, <1>2
<1>4. PICK f : f = [i \in 0..(k - 1) |-> RetainStep(entries, n, f, i)]
  BY <1>3
<1> DEFINE g == [i \in 0..k |-> IF i = k THEN RetainStep(entries, n, f, k) ELSE f[i]]
<1>5. \A i \in 0..k : g[i] = RetainStep(entries, n, g, i)
  <2> TAKE i \in 0..k
  <2>1. i # 0 => g[i - 1] = f[i - 1]
    OBVIOUS
  <2>2. RetainStep(entries, n, g, i) = RetainStep(entries, n, f, i)
    BY <2>1 DEF RetainStep
  <2>3. g[i] = RetainStep(entries, n, f, i)
    <3>1. CASE i = k
      BY <3>1
    <3>2. CASE i # k
      <4>1. i \in 0..(k - 1)
        BY <3>2
      <4>2. f[i] = RetainStep(entries, n, f, i)
        BY <4>1, <1>4
      <4> QED BY <4>2, <3>2
    <3> QED BY <3>1, <3>2
  <2> QED BY <2>2, <2>3
<1>6. g = [i \in 0..k |-> RetainStep(entries, n, g, i)]
  <2> HIDE DEF g
  <2>1. \E h : g = [i \in 0..k |-> h[i]]
    BY DEF g
  <2> QED BY <1>5, <2>1
<1>7. Q(k)
  BY <1>6
<1> QED BY <1>7, <1>1

LEMMA RetainUnfold ==
  ASSUME NEW entries, Len(entries) \in Nat, NEW n
  PROVE  \E f : /\ Retain(entries, n) = f[Len(entries)]
               /\ \A i \in 0..Len(entries) : f[i] = RetainStep(entries, n, f, i)
<1> DEFINE Fix(f) == f = [i \in 0..Len(entries) |-> RetainStep(entries, n, f, i)]
<1>1. \E f : Fix(f)
  BY RetainFunction
<1>2. Retain(entries, n) = (CHOOSE f : Fix(f))[Len(entries)]
  BY DEF Retain, RetainStep
<1>3. Fix(CHOOSE f : Fix(f))
  <2> HIDE DEF Fix
  <2> QED BY <1>1
<1>4. PICK f : f = (CHOOSE g : Fix(g))
  OBVIOUS
<1>5. Retain(entries, n) = f[Len(entries)] /\ Fix(f)
  <2> HIDE DEF Fix
  <2> QED BY <1>2, <1>3, <1>4
<1>6. \A i \in 0..Len(entries) : f[i] = RetainStep(entries, n, f, i)
  BY <1>5
<1> QED BY <1>5, <1>6

\* confirm_through leaves a sequence of spool entries.
LEMMA RetainType ==
  ASSUME NEW S, NEW entries \in Seq(S), NEW n
  PROVE  Retain(entries, n) \in Seq(S)
<1>1. Len(entries) \in Nat
  OBVIOUS
<1>2. PICK f : /\ Retain(entries, n) = f[Len(entries)]
               /\ \A i \in 0..Len(entries) : f[i] = RetainStep(entries, n, f, i)
  BY <1>1, RetainUnfold
<1> DEFINE G == {i \in 0..Len(entries) : f[i] \in Seq(S)}
<1>3. 0 \in G
  <2>1. f[0] = << >>
    BY <1>1, <1>2 DEF RetainStep
  <2>2. << >> \in Seq(S)
    BY EmptySeq
  <2>3. f[0] \in Seq(S) /\ 0 \in 0..Len(entries)
    BY <1>1, <2>1, <2>2
  <2> QED BY <2>3
<1>4. ASSUME NEW i \in 1..Len(entries), i - 1 \in G PROVE i \in G
  <2>1. f[i - 1] \in Seq(S) /\ entries[i] \in S
    BY <1>4
  <2>2. f[i] = RetainStep(entries, n, f, i) /\ i # 0
    BY <1>2
  <2>3. CASE entries[i].seq > n
    <3>1. f[i] = Append(f[i - 1], entries[i])
      BY <2>2, <2>3 DEF RetainStep
    <3>2. f[i] \in Seq(S)
      BY <3>1, <2>1, AppendProperties
    <3> QED BY <3>2, <1>1
  <2>4. CASE ~(entries[i].seq > n)
    <3>1. f[i] = f[i - 1]
      BY <2>2, <2>4 DEF RetainStep
    <3> QED BY <3>1, <2>1
  <2> QED BY <2>3, <2>4
<1>5. \A i \in 0..Len(entries) : i \in G
  <2> HIDE DEF G
  <2> QED BY <1>1, <1>3, <1>4, IndexInduction
<1> QED BY <1>1, <1>2, <1>5

\* Chains of links may be joined in any grouping.
LEMMA HashAssociative ==
  \A s, t, u \in Seq(Link) : (s \o t) \o u = s \o (t \o u)
<1> TAKE s, t, u \in Seq(Link)
<1> QED BY ConcatAssociative

\* On a spool numbered k+1, k+2, ... confirm_through(n) drops exactly the entries
\* up to n.
LEMMA RetainSuffix ==
  ASSUME NEW S, NEW entries \in Seq(S), NEW k \in Nat, NEW n \in Nat,
         k <= n, n <= k + Len(entries),
         \A i \in 1..Len(entries) : entries[i].seq = k + i
  PROVE  Retain(entries, n) = SubSeq(entries, n - k + 1, Len(entries))
<1> DEFINE cut == n - k
<1>1. Len(entries) \in Nat /\ cut \in 0..Len(entries)
  OBVIOUS
<1>2. PICK f : /\ Retain(entries, n) = f[Len(entries)]
               /\ \A i \in 0..Len(entries) : f[i] = RetainStep(entries, n, f, i)
  BY <1>1, RetainUnfold
<1> DEFINE G == {i \in 0..Len(entries) : f[i] = SubSeq(entries, cut + 1, i)}
<1>3. 0 \in G
  <2>1. f[0] = << >>
    BY <1>1, <1>2 DEF RetainStep
  <2>2. SubSeq(entries, cut + 1, 0) = << >>
    BY <1>1, SubSeqEmpty
  <2>3. 0 \in 0..Len(entries)
    BY <1>1
  <2> HIDE DEF cut
  <2> QED BY <2>1, <2>2, <2>3
<1>4. ASSUME NEW i \in 1..Len(entries), i - 1 \in G PROVE i \in G
  <2>1. f[i - 1] = SubSeq(entries, cut + 1, i - 1) /\ entries[i].seq = k + i
    BY <1>4
  <2>2. f[i] = RetainStep(entries, n, f, i) /\ i # 0 /\ i \in 0..Len(entries)
    BY <1>2
  <2>3. CASE i > cut
    <3>1. f[i] = Append(f[i - 1], entries[i])
      BY <2>1, <2>2, <2>3 DEF RetainStep
    <3>2. cut + 1 \in 1..Len(entries) /\ i \in (cut + 1)..Len(entries)
      BY <1>1, <2>3
    <3>3. SubSeq(entries, cut + 1, i) = SubSeq(entries, cut + 1, i - 1) \o <<entries[i]>>
      BY <3>2, SubSeqRecursiveSecond
    <3>4. SubSeq(entries, cut + 1, i - 1) \in Seq(S) /\ entries[i] \in S
      <4>1. \A j \in (cut + 1)..(i - 1) : entries[j] \in S
        BY <3>2, <1>1
      <4>2. cut + 1 \in Int /\ i - 1 \in Int
        BY <3>2
      <4> HIDE DEF cut
      <4> QED BY <4>1, <4>2, SubSeqProperties
    <3>5. Append(SubSeq(entries, cut + 1, i - 1), entries[i]) = SubSeq(entries, cut + 1, i)
      BY <3>3, <3>4, AppendIsConcat
    <3> HIDE DEF cut
    <3> QED BY <3>1, <3>5, <2>1, <2>2
  <2>4. CASE i <= cut
    <3>1. f[i] = f[i - 1]
      BY <2>1, <2>2, <2>4 DEF RetainStep
    <3>2. SubSeq(entries, cut + 1, i - 1) = SubSeq(entries, cut + 1, i)
      <4>1. cut + 1 \in Int /\ i - 1 \in Int /\ i \in Int
        BY <1>1
      <4>2. i < cut + 1 /\ i - 1 < cut + 1
        BY <1>1, <2>4
      <4> HIDE DEF cut
      <4>3. SubSeq(entries, cut + 1, i) = << >>
        BY <4>1, <4>2, SubSeqEmpty
      <4>4. SubSeq(entries, cut + 1, i - 1) = << >>
        BY <4>1, <4>2, SubSeqEmpty
      <4> QED BY <4>3, <4>4
    <3> QED BY <3>1, <3>2, <2>1, <2>2
  <2> QED BY <1>1, <2>3, <2>4
<1>5. \A i \in 0..Len(entries) : i \in G
  <2> HIDE DEF G
  <2> QED BY <1>1, <1>3, <1>4, IndexInduction
<1> QED BY <1>1, <1>2, <1>5

-----------------------------------------------------------------------------
(* What verify_batch accepts. *)

\* The links that a batch adds to the chain.
LinksOf(next_seq, entries) ==
  [i \in 1..Len(entries) |-> [seq |-> next_seq + i - 1, event |-> entries[i].event]]

LEMMA LinksOfType ==
  ASSUME NEW next_seq \in Nat \ {0}, NEW entries \in Seq(SpoolEntry)
  PROVE  /\ LinksOf(next_seq, entries) \in Seq(Link)
         /\ Len(LinksOf(next_seq, entries)) = Len(entries)
<1>1. ASSUME NEW i \in 1..Len(entries) PROVE LinksOf(next_seq, entries)[i] \in Link
  <2>1. entries[i] \in SpoolEntry
    OBVIOUS
  <2>2. entries[i].event \in Event /\ next_seq + i - 1 \in Nat
    BY <2>1 DEF SpoolEntry
  <2>3. LinksOf(next_seq, entries)[i] = [seq |-> next_seq + i - 1, event |-> entries[i].event]
    BY DEF LinksOf
  <2> QED BY <2>2, <2>3 DEF Link
<1>2. Len(entries) \in Nat
  OBVIOUS
<1> QED BY <1>1, <1>2 DEF LinksOf

\* verify_batch answers Ok only for a batch every entry of which passed its three
\* checks, whose last hash is the signed head, and whose signature is by the key.
LEMMA VerifyOk ==
  ASSUME NEW prev, NEW next_seq, NEW batch, NEW key,
         VerifyBatch(prev, next_seq, batch, key) = "Ok"
  PROVE  /\ \A i \in 1..Len(batch.entries) :
                EntryError(prev, next_seq, batch.entries, i) = "Ok"
         /\ Running(prev, batch.entries, Len(batch.entries) + 1) = batch.head
         /\ SignatureError(batch, key) = "Ok"
<1> DEFINE bad == BadEntries(prev, next_seq, batch.entries)
<1>1. bad = {}
  <2> SUFFICES ASSUME bad # {} PROVE FALSE
    OBVIOUS
  <2>1. bad \in SUBSET Nat
    BY DEF BadEntries
  <2>2. First(bad) \in bad
    <3> HIDE DEF bad
    <3> QED BY <2>1, FirstIsBad
  <2>3. EntryError(prev, next_seq, batch.entries, First(bad)) # "Ok"
    BY <2>2 DEF BadEntries
  <2> QED BY <2>3 DEF VerifyBatch
<1>2. \A i \in 1..Len(batch.entries) :
        EntryError(prev, next_seq, batch.entries, i) = "Ok"
  BY <1>1 DEF BadEntries
<1> QED BY <1>1, <1>2 DEF VerifyBatch

\* The head of an accepted batch is the previous head extended by the batch's own
\* events, numbered from next_seq on: nothing in between can have been left out.
LEMMA VerifiedHead ==
  ASSUME NEW prev \in ChainHash, NEW next_seq \in Nat \ {0},
         NEW batch \in SignedSpoolBatch, NEW key \in Key,
         VerifyBatch(prev, next_seq, batch, key) = "Ok"
  PROVE  /\ batch.head = prev \o LinksOf(next_seq, batch.entries)
         /\ batch.signature = [by |-> key, over |-> batch.head]
<1> DEFINE entries == batch.entries
           links == LinksOf(next_seq, entries)
           N == Len(entries)
<1>1. entries \in Seq(SpoolEntry) /\ N \in Nat
  BY DEF SignedSpoolBatch
<1>2. links \in Seq(Link) /\ Len(links) = N
  BY <1>1, LinksOfType
<1>3. prev \in Seq(Link)
  BY DEF ChainHash
<1>4. \A i \in 1..N : EntryError(prev, next_seq, entries, i) = "Ok"
  BY VerifyOk
<1> DEFINE upTo(i) == prev \o SubSeq(links, 1, i)
           G == {i \in 0..N : Running(prev, entries, i + 1) = upTo(i)}
<1>5. 0 \in G
  <2>1. SubSeq(links, 1, 0) = << >>
    BY SubSeqEmpty
  <2>2. prev \o << >> = prev
    BY <1>3, ConcatEmptySeq
  <2>3. upTo(0) = prev
    BY <2>1, <2>2
  <2>4. Running(prev, entries, 0 + 1) = prev
    BY DEF Running
  <2>5. 0 \in 0..N
    BY <1>1
  <2> HIDE DEF upTo, links, entries, N
  <2> QED BY <2>3, <2>4, <2>5
<1>6. ASSUME NEW i \in 1..N, i - 1 \in G PROVE i \in G
  <2> DEFINE e == entries[i]
  <2>1. e.seq = next_seq + i - 1 /\ e.prev = Running(prev, entries, i)
          /\ EntryHash(e.seq, e.prev, e.event) = e.hash
    BY <1>4 DEF EntryError
  <2>2. Running(prev, entries, i) = prev \o SubSeq(links, 1, i - 1)
    BY <1>6
  <2>3. Running(prev, entries, i + 1) = e.hash
    BY DEF Running
  <2>4. links[i] = [seq |-> e.seq, event |-> e.event] /\ links[i] \in Link
    BY <2>1, <1>1, <1>2 DEF LinksOf
  <2>5. e.hash = Append(prev \o SubSeq(links, 1, i - 1), links[i])
    BY <2>1, <2>2, <2>4 DEF EntryHash
  <2>6. SubSeq(links, 1, i - 1) \in Seq(Link)
    BY <1>1, <1>2, SubSeqProperties
  <2>7. SubSeq(links, 1, i) = SubSeq(links, 1, i - 1) \o <<links[i]>>
    BY <1>1, <1>2, SubSeqRecursiveSecond
  <2>8. <<links[i]>> \in Seq(Link)
    BY <2>4
  <2>9. e.hash = prev \o SubSeq(links, 1, i)
    <3>1. prev \o SubSeq(links, 1, i - 1) \in Seq(Link)
      BY <1>3, <2>6, ConcatProperties
    <3>2. e.hash = (prev \o SubSeq(links, 1, i - 1)) \o <<links[i]>>
      BY <3>1, <2>4, <2>5, AppendIsConcat
    <3>3. (prev \o SubSeq(links, 1, i - 1)) \o <<links[i]>>
            = prev \o (SubSeq(links, 1, i - 1) \o <<links[i]>>)
      <4> DEFINE t == SubSeq(links, 1, i - 1)
                 u == <<links[i]>>
      <4>1. prev \in Seq(Link) /\ t \in Seq(Link) /\ u \in Seq(Link)
        BY <1>3, <2>6, <2>8
      <4> HIDE DEF t, u
      <4>2. (prev \o t) \o u = prev \o (t \o u)
        BY <4>1, HashAssociative
      <4> QED BY <4>2 DEF t, u
    <3> HIDE DEF links, e
    <3> QED BY <3>2, <3>3, <2>7
  <2>10. Running(prev, entries, i + 1) = upTo(i) /\ i \in 0..N
    BY <2>3, <2>9
  <2> HIDE DEF upTo, links, entries, e, N
  <2> QED BY <2>10
<1>7. \A i \in 0..N : i \in G
  <2> HIDE DEF G
  <2> QED BY <1>1, <1>5, <1>6, IndexInduction
<1>8. batch.head = prev \o SubSeq(links, 1, N)
  <2>1. Running(prev, entries, N + 1) = batch.head
    BY VerifyOk
  <2>2. Running(prev, entries, N + 1) = upTo(N)
    <3> HIDE DEF upTo, entries
    <3> QED BY <1>1, <1>7
  <2> QED BY <2>1, <2>2
<1>9. SubSeq(links, 1, N) = links
  BY <1>2, SubSeqFull
<1>10. batch.signature = [by |-> key, over |-> batch.head]
  BY VerifyOk DEF SignatureError
<1> QED BY <1>8, <1>9, <1>10

\* Extending a numbered chain by numbered links extends its events by theirs.
LEMMA ExtendChain ==
  ASSUME NEW h \in Seq(Link), NEW links \in Seq(Link), NEW evs \in Seq(Event),
         WellNumbered(h), Len(evs) = Len(links),
         \A i \in 1..Len(links) : links[i].seq = Len(h) + i /\ links[i].event = evs[i]
  PROVE  /\ WellNumbered(h \o links)
         /\ EventsOf(h \o links) = EventsOf(h) \o evs
         /\ Len(h \o links) = Len(h) + Len(links)
<1> DEFINE t == h \o links
<1>1. /\ t \in Seq(Link) /\ Len(t) = Len(h) + Len(links)
      /\ \A i \in 1..(Len(h) + Len(links)) :
            t[i] = IF i <= Len(h) THEN h[i] ELSE links[i - Len(h)]
  BY ConcatProperties
<1> HIDE DEF t
<1>2. Len(h) \in Nat /\ Len(links) \in Nat
  OBVIOUS
<1>3. \A i \in 1..Len(t) : i > Len(h) => i - Len(h) \in 1..Len(links)
  BY <1>1, <1>2
<1>4. WellNumbered(t)
  <2>1. ASSUME NEW i \in 1..Len(t) PROVE t[i].seq = i
    <3>1. CASE i <= Len(h)
      <4>1. i \in 1..Len(h)
        BY <3>1, <1>2
      <4> QED BY <4>1, <3>1, <1>1 DEF WellNumbered
    <3>2. CASE i > Len(h)
      <4>1. t[i] = links[i - Len(h)] /\ i - Len(h) \in 1..Len(links)
        BY <3>2, <1>1, <1>2, <1>3
      <4>2. links[i - Len(h)].seq = Len(h) + (i - Len(h))
        BY <4>1
      <4> QED BY <4>1, <4>2, <1>2
    <3> QED BY <3>1, <3>2, <1>2
  <2> QED BY <2>1 DEF WellNumbered
<1>5. ASSUME NEW s \in Seq(Link)
      PROVE  /\ EventsOf(s) \in Seq(Event) /\ Len(EventsOf(s)) = Len(s)
             /\ \A i \in 1..Len(s) : EventsOf(s)[i] = s[i].event
  <2>1. ASSUME NEW i \in 1..Len(s) PROVE s[i].event \in Event
    <3>1. s[i] \in Link
      BY ElementOfSeq
    <3> QED BY <3>1 DEF Link
  <2>2. Len(s) \in Nat
    OBVIOUS
  <2> QED BY <2>1, <2>2 DEF EventsOf
<1> DEFINE u == EventsOf(h) \o evs
<1>6. /\ u \in Seq(Event) /\ Len(u) = Len(h) + Len(links)
      /\ \A i \in 1..(Len(h) + Len(links)) :
            u[i] = IF i <= Len(h) THEN EventsOf(h)[i] ELSE evs[i - Len(h)]
  <2>1. EventsOf(h) \in Seq(Event) /\ Len(EventsOf(h)) = Len(h)
    BY <1>5
  <2>2. /\ u \in Seq(Event) /\ Len(u) = Len(EventsOf(h)) + Len(evs)
        /\ \A i \in 1..(Len(EventsOf(h)) + Len(evs)) :
              u[i] = IF i <= Len(EventsOf(h)) THEN EventsOf(h)[i]
                     ELSE evs[i - Len(EventsOf(h))]
    <3> HIDE DEF u
    <3>1. \A a, b \in Seq(Event) :
            /\ a \o b \in Seq(Event) /\ Len(a \o b) = Len(a) + Len(b)
            /\ \A i \in 1..(Len(a) + Len(b)) : (a \o b)[i] =
                  IF i <= Len(a) THEN a[i] ELSE b[i - Len(a)]
      BY ConcatProperties
    <3> QED BY <3>1, <2>1 DEF u
  <2> HIDE DEF u
  <2> QED BY <2>1, <2>2
<1> HIDE DEF u
<1>7. ASSUME NEW i \in 1..Len(t) PROVE EventsOf(t)[i] = u[i]
  <2>1. EventsOf(t)[i] = t[i].event
    BY <1>1, <1>5
  <2>2. CASE i <= Len(h)
    <3>1. i \in 1..Len(h)
      BY <2>2, <1>2
    <3>2. EventsOf(h)[i] = h[i].event
      BY <3>1, <1>5
    <3> QED BY <2>1, <2>2, <3>2, <1>1, <1>6
  <2>3. CASE i > Len(h)
    <3>1. i - Len(h) \in 1..Len(links) /\ ~(i <= Len(h))
      BY <2>3, <1>2, <1>3
    <3> QED BY <2>1, <3>1, <1>1, <1>6
  <2> QED BY <2>2, <2>3, <1>2
<1>8. EventsOf(t) = u
  BY <1>1, <1>5, <1>6, <1>7, SeqEqual
<1> QED BY <1>1, <1>4, <1>8 DEF t, u

\* An accepted batch, seen from a ledger that holds the numbered chain h: the new
\* head is signed by the key, numbered, and adds the batch's events in order.
LEMMA AcceptedBatch ==
  ASSUME NEW h \in ChainHash, NEW batch \in SignedSpoolBatch, NEW key \in Key,
         WellNumbered(h), VerifyBatch(h, Len(h) + 1, batch, key) = "Ok"
  PROVE  /\ EntryEvents(batch.entries) \in Seq(Event)
         /\ Len(EntryEvents(batch.entries)) = Len(batch.entries)
         /\ WellNumbered(batch.head)
         /\ EventsOf(batch.head) = EventsOf(h) \o EntryEvents(batch.entries)
         /\ Len(batch.head) = Len(h) + Len(batch.entries)
         /\ batch.signature = [by |-> key, over |-> batch.head]
<1> DEFINE links == LinksOf(Len(h) + 1, batch.entries)
           evs == EntryEvents(batch.entries)
<1>1. h \in Seq(Link) /\ Len(h) \in Nat /\ Len(h) + 1 \in Nat \ {0}
  BY DEF ChainHash
<1>2. batch.entries \in Seq(SpoolEntry) /\ Len(batch.entries) \in Nat
  BY DEF SignedSpoolBatch
<1>3. batch.head = h \o links /\ batch.signature = [by |-> key, over |-> batch.head]
  BY <1>1, VerifiedHead
<1>4. links \in Seq(Link) /\ Len(links) = Len(batch.entries)
  BY <1>1, <1>2, LinksOfType
<1>5. \A i \in 1..Len(batch.entries) : batch.entries[i].event \in Event
  <2> TAKE i \in 1..Len(batch.entries)
  <2>1. batch.entries[i] \in SpoolEntry
    BY <1>2, ElementOfSeq
  <2> QED BY <2>1 DEF SpoolEntry
<1>6. evs \in Seq(Event) /\ Len(evs) = Len(batch.entries)
  BY <1>2, <1>5 DEF EntryEvents
<1>7. \A i \in 1..Len(links) : links[i].seq = Len(h) + i /\ links[i].event = evs[i]
  BY <1>1, <1>2, <1>4 DEF LinksOf, EntryEvents
<1>8. /\ WellNumbered(h \o links)
      /\ EventsOf(h \o links) = EventsOf(h) \o evs
      /\ Len(h \o links) = Len(h) + Len(links)
  <2>1. Len(evs) = Len(links)
    BY <1>4, <1>6
  <2> HIDE DEF links, evs
  <2> QED BY <1>1, <1>4, <1>6, <1>7, <2>1, ExtendChain, Zenon
<1> QED BY <1>3, <1>4, <1>6, <1>8

-----------------------------------------------------------------------------
(* Prefixes of a chain, and the entries they stand for. *)

LEMMA PrefixFacts ==
  \A h \in Seq(Link) : \A k \in 0..Len(h) :
    /\ SubSeq(h, 1, k) \in Seq(Link) /\ Len(SubSeq(h, 1, k)) = k
    /\ \A i \in 1..k : SubSeq(h, 1, k)[i] = h[i]
<1> TAKE h \in Seq(Link)
<1> TAKE k \in 0..Len(h)
<1>1. Len(h) \in Nat /\ 1 \in Int /\ k \in Int /\ \A i \in 1..k : h[i] \in Link
  OBVIOUS
<1>2. /\ SubSeq(h, 1, k) \in Seq(Link)
      /\ Len(SubSeq(h, 1, k)) = IF 1 <= k THEN k - 1 + 1 ELSE 0
      /\ \A i \in 1..(k - 1 + 1) : SubSeq(h, 1, k)[i] = h[1 + i - 1]
  BY <1>1, SubSeqProperties
<1> QED BY <1>1, <1>2

LEMMA PrefixFull == \A h \in Seq(Link) : SubSeq(h, 1, Len(h)) = h
BY SubSeqFull

\* Chains are equal when they have the same links.
LEMMA SameLinks ==
  \A s, t \in Seq(Link) : Len(s) = Len(t) /\ (\A i \in 1..Len(s) : s[i] = t[i]) => s = t
BY SeqEqual

LEMMA PrefixOfPrefix ==
  \A h \in Seq(Link) : \A k \in 0..Len(h) : \A m \in 0..k :
    SubSeq(SubSeq(h, 1, k), 1, m) = SubSeq(h, 1, m)
<1> TAKE h \in Seq(Link)
<1> TAKE k \in 0..Len(h)
<1> TAKE m \in 0..k
<1>1. PICK p \in Seq(Link) : p = SubSeq(h, 1, k) /\ Len(p) = k /\ \A i \in 1..k : p[i] = h[i]
  BY PrefixFacts
<1>2. PICK q \in Seq(Link) : q = SubSeq(p, 1, m) /\ Len(q) = m /\ \A i \in 1..m : q[i] = p[i]
  BY <1>1, PrefixFacts
<1>3. PICK r \in Seq(Link) : r = SubSeq(h, 1, m) /\ Len(r) = m /\ \A i \in 1..m : r[i] = h[i]
  <2>1. m \in 0..Len(h)
    OBVIOUS
  <2> QED BY <2>1, PrefixFacts
<1>4. \A i \in 1..m : q[i] = r[i]
  BY <1>1, <1>2, <1>3
<1>5. q = r
  BY <1>2, <1>3, <1>4, SameLinks
<1> QED BY <1>1, <1>2, <1>3, <1>5

LEMMA AppendedChain ==
  \A h \in Seq(Link), l \in Link :
    /\ Append(h, l) \in Seq(Link) /\ Len(Append(h, l)) = Len(h) + 1
    /\ Append(h, l)[Len(h) + 1] = l
    /\ \A i \in 1..Len(h) : Append(h, l)[i] = h[i]
<1> TAKE h \in Seq(Link), l \in Link
<1> QED BY AppendProperties

LEMMA PrefixAppend ==
  \A h \in Seq(Link), l \in Link : \A k \in 0..Len(h) :
    SubSeq(Append(h, l), 1, k) = SubSeq(h, 1, k)
<1> TAKE h \in Seq(Link), l \in Link
<1> TAKE k \in 0..Len(h)
<1>1. PICK g \in Seq(Link) : g = Append(h, l) /\ Len(g) = Len(h) + 1 /\ \A i \in 1..Len(h) : g[i] = h[i]
  BY AppendedChain
<1>2. PICK q \in Seq(Link) : q = SubSeq(g, 1, k) /\ Len(q) = k /\ \A i \in 1..k : q[i] = g[i]
  <2>1. k \in 0..Len(g)
    BY <1>1
  <2> QED BY <2>1, PrefixFacts
<1>3. PICK r \in Seq(Link) : r = SubSeq(h, 1, k) /\ Len(r) = k /\ \A i \in 1..k : r[i] = h[i]
  BY PrefixFacts
<1>4. \A i \in 1..k : q[i] = r[i]
  BY <1>1, <1>2, <1>3
<1>5. q = r
  BY <1>2, <1>3, <1>4, SameLinks
<1> QED BY <1>1, <1>2, <1>3, <1>5

LEMMA PrefixNext ==
  \A h \in Seq(Link) : \A k \in 1..Len(h) : Append(SubSeq(h, 1, k - 1), h[k]) = SubSeq(h, 1, k)
<1> TAKE h \in Seq(Link)
<1> TAKE k \in 1..Len(h)
<1>1. PICK p \in Seq(Link) :
        p = SubSeq(h, 1, k - 1) /\ Len(p) = k - 1 /\ \A i \in 1..(k - 1) : p[i] = h[i]
  <2>1. k - 1 \in 0..Len(h)
    OBVIOUS
  <2> QED BY <2>1, PrefixFacts
<1>2. PICK r \in Seq(Link) : r = SubSeq(h, 1, k) /\ Len(r) = k /\ \A i \in 1..k : r[i] = h[i]
  <2>1. k \in 0..Len(h)
    OBVIOUS
  <2> QED BY <2>1, PrefixFacts
<1>3. h[k] \in Link
  OBVIOUS
<1>4. PICK g \in Seq(Link) : /\ g = Append(p, h[k]) /\ Len(g) = Len(p) + 1 /\ g[Len(p) + 1] = h[k]
                             /\ \A i \in 1..Len(p) : g[i] = p[i]
  BY <1>3, AppendedChain
<1>5. Len(g) = k
  BY <1>1, <1>4
<1>6. ASSUME NEW i \in 1..k PROVE g[i] = r[i]
  <2>1. CASE i = k
    BY <1>1, <1>2, <1>4, <2>1
  <2>2. CASE i # k
    <3>1. i \in 1..(k - 1)
      BY <2>2
    <3> QED BY <1>1, <1>2, <1>4, <3>1
  <2> QED BY <2>1, <2>2
<1>7. g = r
  BY <1>2, <1>5, <1>6, SameLinks
<1> QED BY <1>1, <1>2, <1>4, <1>7

\* The entry that link n of a chain stands for.
EntryAt(h, n) ==
  [seq |-> n, prev |-> SubSeq(h, 1, n - 1), event |-> h[n].event, hash |-> SubSeq(h, 1, n)]

LEMMA EntryAtType ==
  \A h \in Seq(Link) : \A n \in 1..Len(h) : EntryAt(h, n) \in SpoolEntry
<1> TAKE h \in Seq(Link)
<1> TAKE n \in 1..Len(h)
<1>1. n - 1 \in 0..Len(h) /\ n \in 0..Len(h) /\ n \in Nat
  OBVIOUS
<1>2. SubSeq(h, 1, n - 1) \in ChainHash /\ SubSeq(h, 1, n) \in ChainHash
  BY <1>1, PrefixFacts DEF ChainHash
<1>3. h[n].event \in Event
  <2>1. h[n] \in Link
    OBVIOUS
  <2> QED BY <2>1 DEF Link
<1> QED BY <1>1, <1>2, <1>3 DEF EntryAt, SpoolEntry

\* A longer chain stands for the same entries, and one more.
LEMMA EntryAtStable ==
  \A h \in Seq(Link), l \in Link : \A n \in 1..Len(h) : EntryAt(Append(h, l), n) = EntryAt(h, n)
<1> TAKE h \in Seq(Link), l \in Link
<1> TAKE n \in 1..Len(h)
<1>1. n - 1 \in 0..Len(h) /\ n \in 0..Len(h)
  OBVIOUS
<1>2. /\ SubSeq(Append(h, l), 1, n - 1) = SubSeq(h, 1, n - 1)
      /\ SubSeq(Append(h, l), 1, n) = SubSeq(h, 1, n)
  BY <1>1, PrefixAppend
<1>3. Append(h, l)[n] = h[n]
  BY AppendedChain
<1> QED BY <1>2, <1>3 DEF EntryAt

\* In a numbered chain, the entry of a link carries the hash of its own fields.
LEMMA EntryAtSound ==
  ASSUME NEW h \in Seq(Link), WellNumbered(h), NEW n \in 1..Len(h)
  PROVE  EntryHash(EntryAt(h, n).seq, EntryAt(h, n).prev, EntryAt(h, n).event) = EntryAt(h, n).hash
<1>1. h[n] = [seq |-> n, event |-> h[n].event]
  <2>1. h[n] \in Link /\ h[n].seq = n
    BY DEF WellNumbered
  <2> QED BY <2>1 DEF Link
<1>2. Append(SubSeq(h, 1, n - 1), h[n]) = SubSeq(h, 1, n)
  BY PrefixNext
<1> QED BY <1>1, <1>2 DEF EntryAt, EntryHash

\* A batch of consecutive entries of the chain, signed over the last of them, is
\* accepted where the ledger holds the chain up to the first: verify_batch refuses
\* nothing that the device ships in order.
LEMMA HonestAccepted ==
  ASSUME NEW h \in Seq(Link), WellNumbered(h), NEW key \in Key, NEW batch,
         NEW N \in Nat, N = Len(batch.entries), N # 0, NEW lo \in Nat, lo + N <= Len(h),
         \A j \in 1..N : batch.entries[j] = EntryAt(h, lo + j),
         batch.head = SubSeq(h, 1, lo + N),
         batch.signature = [by |-> key, over |-> batch.head]
  PROVE  VerifyBatch(SubSeq(h, 1, lo), lo + 1, batch, key) = "Ok"
<1>0. Len(h) \in Nat
  OBVIOUS
<1>1. ASSUME NEW j \in 1..N
      PROVE  EntryError(SubSeq(h, 1, lo), lo + 1, batch.entries, j) = "Ok"
  <2>1. PICK e : e = batch.entries[j]
    OBVIOUS
  <2>2. lo + j \in 1..Len(h)
    BY <1>0
  <2>3. e = EntryAt(h, lo + j)
    BY <2>1
  <2>4. e.seq = (lo + 1) + j - 1
    BY <2>3 DEF EntryAt
  <2>5. EntryHash(e.seq, e.prev, e.event) = e.hash
    BY <2>2, <2>3, EntryAtSound
  <2>6. e.prev = Running(SubSeq(h, 1, lo), batch.entries, j)
    <3>1. e.prev = SubSeq(h, 1, lo + j - 1)
      BY <2>3 DEF EntryAt
    <3>2. CASE j = 1
      <4>1. lo + j - 1 = lo
        BY <3>2
      <4> QED BY <3>1, <3>2, <4>1 DEF Running
    <3>3. CASE j # 1
      <4>1. j - 1 \in 1..N /\ lo + (j - 1) = lo + j - 1
        BY <3>3
      <4>2. batch.entries[j - 1].hash = SubSeq(h, 1, lo + (j - 1))
        <5>1. batch.entries[j - 1] = EntryAt(h, lo + (j - 1))
          BY <4>1
        <5> QED BY ONLY <5>1 DEF EntryAt
      <4> QED BY <3>1, <3>3, <4>1, <4>2 DEF Running
    <3> QED BY <3>2, <3>3
  <2> QED BY <2>1, <2>4, <2>5, <2>6 DEF EntryError
<1>2. BadEntries(SubSeq(h, 1, lo), lo + 1, batch.entries) = {}
  BY <1>1 DEF BadEntries
<1>3. Running(SubSeq(h, 1, lo), batch.entries, Len(batch.entries) + 1) = batch.head
  <2>1. N + 1 # 1 /\ N + 1 - 1 = N /\ N \in 1..N
    OBVIOUS
  <2>2. batch.entries[N].hash = SubSeq(h, 1, lo + N)
    <3>1. batch.entries[N] = EntryAt(h, lo + N)
      BY <2>1
    <3> QED BY ONLY <3>1 DEF EntryAt
  <2> QED BY <2>1, <2>2 DEF Running
<1>4. SignatureError(batch, key) = "Ok"
  <2>1. batch.signature.by = key /\ key # NoKey
    BY NoKeyAssumption
  <2> QED BY <2>1 DEF SignatureError
<1> QED BY <1>2, <1>3, <1>4 DEF VerifyBatch

-----------------------------------------------------------------------------
(* The events of a chain. *)

LEMMA EventsType ==
  \A h \in Seq(Link) : EventsOf(h) \in Seq(Event) /\ Len(EventsOf(h)) = Len(h)
                         /\ \A i \in 1..Len(h) : EventsOf(h)[i] = h[i].event
<1> TAKE h \in Seq(Link)
<1>1. Len(h) \in Nat /\ \A i \in 1..Len(h) : h[i].event \in Event
  <2>1. \A i \in 1..Len(h) : h[i] \in Link
    OBVIOUS
  <2> QED BY <2>1 DEF Link
<1>2. EventsOf(h) \in [1..Len(h) -> Event]
  BY <1>1 DEF EventsOf
<1> QED BY <1>1, <1>2 DEF EventsOf

\* Event sequences are equal when they have the same elements.
LEMMA SameEvents ==
  \A s, t \in Seq(Event) : Len(s) = Len(t) /\ (\A i \in 1..Len(s) : s[i] = t[i]) => s = t
BY SeqEqual

LEMMA EventsAppend ==
  \A h \in Seq(Link), l \in Link : EventsOf(Append(h, l)) = Append(EventsOf(h), l.event)
<1> TAKE h \in Seq(Link), l \in Link
<1>1. PICK a : a = Append(h, l)
  OBVIOUS
<1>2. PICK e : e = EventsOf(h)
  OBVIOUS
<1>3. a \in Seq(Link) /\ Len(a) = Len(h) + 1 /\ a[Len(h) + 1] = l /\ \A i \in 1..Len(h) : a[i] = h[i]
  BY <1>1, AppendedChain
<1>4. e \in Seq(Event) /\ Len(e) = Len(h) /\ \A i \in 1..Len(h) : e[i] = h[i].event
  BY <1>2, EventsType
<1>5. /\ EventsOf(a) \in Seq(Event) /\ Len(EventsOf(a)) = Len(a)
      /\ \A i \in 1..Len(a) : EventsOf(a)[i] = a[i].event
  BY <1>3, EventsType
<1>6. l.event \in Event
  BY DEF Link
<1>7. PICK b : b = Append(e, l.event)
  OBVIOUS
<1>8. b \in Seq(Event) /\ Len(b) = Len(h) + 1 /\ b[Len(h) + 1] = l.event
        /\ \A i \in 1..Len(h) : b[i] = e[i]
  BY <1>4, <1>6, <1>7, AppendProperties
<1>9. ASSUME NEW i \in 1..Len(a) PROVE EventsOf(a)[i] = b[i]
  <2>1. Len(h) \in Nat
    OBVIOUS
  <2>2. CASE i = Len(h) + 1
    BY <1>3, <1>5, <1>8, <2>2
  <2>3. CASE i # Len(h) + 1
    <3>1. i \in 1..Len(h)
      BY <1>3, <2>1, <2>3
    <3> QED BY <1>3, <1>4, <1>5, <1>8, <3>1
  <2> QED BY <2>2, <2>3
<1>10. EventsOf(a) = b
  BY <1>3, <1>5, <1>8, <1>9, SameEvents
<1> QED BY <1>1, <1>2, <1>7, <1>10

LEMMA EventsPrefix ==
  \A h \in Seq(Link) : \A k \in 0..Len(h) : EventsOf(SubSeq(h, 1, k)) = SubSeq(EventsOf(h), 1, k)
<1> TAKE h \in Seq(Link)
<1> TAKE k \in 0..Len(h)
<1>1. PICK p : p = SubSeq(h, 1, k)
  OBVIOUS
<1>2. PICK e : e = EventsOf(h)
  OBVIOUS
<1>3. p \in Seq(Link) /\ Len(p) = k /\ \A i \in 1..k : p[i] = h[i]
  BY <1>1, PrefixFacts
<1>4. e \in Seq(Event) /\ Len(e) = Len(h) /\ \A i \in 1..Len(h) : e[i] = h[i].event
  BY <1>2, EventsType
<1>5. /\ EventsOf(p) \in Seq(Event) /\ Len(EventsOf(p)) = k
      /\ \A i \in 1..k : EventsOf(p)[i] = p[i].event
  BY <1>3, EventsType
<1>6. k \in Nat /\ k <= Len(h) /\ \A i \in 1..k : i \in 1..Len(h)
  OBVIOUS
<1>7. PICK b : b = SubSeq(e, 1, k)
  OBVIOUS
<1>8. b \in Seq(Event) /\ Len(b) = k /\ \A i \in 1..k : b[i] = e[i]
  <2>1. \A i \in 1..k : e[i] \in Event
    BY <1>4, <1>6
  <2>2. /\ SubSeq(e, 1, k) \in Seq(Event)
        /\ Len(SubSeq(e, 1, k)) = IF 1 <= k THEN k - 1 + 1 ELSE 0
        /\ \A i \in 1..(k - 1 + 1) : SubSeq(e, 1, k)[i] = e[1 + i - 1]
    BY <1>4, <1>6, <2>1, SubSeqProperties
  <2> QED BY <1>6, <1>7, <2>2
<1>9. EventsOf(p) = b
  BY <1>3, <1>4, <1>5, <1>6, <1>8, SameEvents
<1> QED BY <1>1, <1>2, <1>7, <1>9

-----------------------------------------------------------------------------
(* The invariants of AuditSync. *)

\* Batches whose signature, if it is the device's, covers a head the spool has had.
Genuine == {b \in SignedSpoolBatch :
              b.signature.by = DeviceKey => b.signature.over \in minted}

\* The inductive invariant behind LedgerGenuine: every head the device side holds,
\* in memory or in the checkpoint file, is one the spool has had, so nothing else
\* is ever signed.
IntegrityInv ==
  /\ TypeOK
  /\ {GENESIS, head, snapHead, peeked.head, ckpt.head} \subseteq minted
  /\ wire \in Seq(Genuine)
  /\ chain.public_key = DeviceKey
  /\ LedgerGenuine

-----------------------------------------------------------------------------
LEMMA PrefixInSeq ==
  ASSUME NEW S, NEW s \in Seq(S), NEW k \in 0..Len(s)
  PROVE  SubSeq(s, 1, k) \in Seq(S)
BY SubSeqProperties

LEMMA EmitHead ==
  ASSUME NEW h \in ChainHash, NEW n \in Nat, NEW e \in Event
  PROVE  EntryHash(n, h, e) \in ChainHash
<1>1. [seq |-> n, event |-> e] \in Link
  BY DEF Link
<1> QED BY <1>1, AppendProperties DEF EntryHash, ChainHash

LEMMA InitIntegrity == Init => IntegrityInv
<1> SUFFICES ASSUME Init PROVE IntegrityInv
  OBVIOUS
<1>1. GENESIS \in ChainHash /\ << >> \in Seq(SpoolEntry) /\ << >> \in Seq(SignedSpoolBatch)
        /\ << >> \in Seq(Event) /\ << >> \in Seq(Genuine)
  BY EmptySeq DEF GENESIS, ChainHash
<1>2. TypeOK
  BY <1>1, SyncAssumption
     DEF Init, TypeOK, PCs, NoBatch, NoCheckpoint
<1>3. {GENESIS, head, snapHead, peeked.head, ckpt.head} \subseteq minted
  BY DEF Init, NoBatch, NoCheckpoint
<1>4. LedgerGenuine
  <2>1. Len(GENESIS) = 0
    BY DEF GENESIS
  <2>2. EventsOf(GENESIS) = << >>
    BY <2>1 DEF EventsOf
  <2> QED BY <2>1, <2>2 DEF Init, LedgerGenuine, WellNumbered
<1> QED BY <1>1, <1>2, <1>3, <1>4 DEF Init, IntegrityInv

\* Steps that leave the wire, the ledger and the heads alone carry the invariant over.
LEMMA WireGrows ==
  ASSUME IntegrityInv, minted \subseteq minted', wire' \in Seq(Genuine)
  PROVE  wire' \in Seq(Genuine')
<1>1. Genuine \subseteq Genuine'
  BY DEF Genuine
<1> QED BY <1>1, SeqMonotonic

LEMMA EmitIntegrity ==
  ASSUME IntegrityInv, NEW event \in Event, Emit(event)
  PROVE  IntegrityInv'
<1> DEFINE entry == [seq |-> seq + 1, prev |-> head, event |-> event, hash |-> head']
<1>1. head' \in ChainHash
  BY EmitHead DEF Emit, IntegrityInv, TypeOK
<1>2. pending' \in Seq(SpoolEntry)
  <2>1. entry \in SpoolEntry
    BY <1>1 DEF SpoolEntry, IntegrityInv, TypeOK
  <2>2. pending' = Append(pending, entry) /\ pending \in Seq(SpoolEntry)
    BY DEF Emit, IntegrityInv, TypeOK
  <2> HIDE DEF entry
  <2> QED BY <2>1, <2>2, AppendProperties
<1>3. minted' = minted \cup {head'} /\ minted' \subseteq ChainHash
  BY <1>1 DEF Emit, IntegrityInv, TypeOK
<1>4. TypeOK'
  BY <1>1, <1>2, <1>3 DEF Emit, syncVars, ledgerVars, faultVars, IntegrityInv, TypeOK
<1>5. wire' \in Seq(Genuine')
  BY <1>3, WireGrows DEF Emit, IntegrityInv
<1>6. {GENESIS, head, snapHead, peeked.head, ckpt.head}' \subseteq minted'
  BY <1>3 DEF Emit, syncVars, IntegrityInv, GENESIS
<1>7. LedgerGenuine' /\ chain'.public_key = DeviceKey
  BY <1>3 DEF Emit, ledgerVars, IntegrityInv, LedgerGenuine
<1> QED BY <1>4, <1>5, <1>6, <1>7 DEF IntegrityInv

\* sync_once: what it reads, saves, signs and trims.
LEMMA SyncStepIntegrity ==
  ASSUME IntegrityInv, SyncStep
  PROVE  IntegrityInv'
<1> USE DEF spoolVars, syncVars, ledgerVars, faultVars
<1>0. UNCHANGED <<minted, ledgerVars, faultVars, seq, head>>
  BY DEF SyncStep, ReadSeq, ReadHead, SaveCheckpoint, PeekAudit, PushAudit,
         PushUnavailable, ConfirmAudit
<1>1. Genuine' = Genuine
  BY <1>0 DEF Genuine
<1>2. LedgerGenuine' /\ chain'.public_key = DeviceKey
  BY <1>0 DEF IntegrityInv, LedgerGenuine
<1>a. NoBatch \in [entries : Seq(SpoolEntry), head : ChainHash] /\ NoBatch.head = GENESIS
  BY EmptySeq DEF NoBatch, GENESIS, ChainHash
<1>b. GENESIS \in ChainHash
  BY EmptySeq DEF GENESIS, ChainHash
<1>3. CASE ReadSeq
  BY <1>0, <1>1, <1>2, <1>3 DEF ReadSeq, IntegrityInv, TypeOK, PCs
<1>4. CASE ReadHead
  BY <1>0, <1>1, <1>2, <1>4 DEF ReadHead, IntegrityInv, TypeOK, PCs
<1>5. CASE SaveCheckpoint
  <2>1. TypeOK'
    BY <1>0, <1>5, <1>b DEF SaveCheckpoint, AfterSave, ForgetSnapshot, IntegrityInv, TypeOK, PCs
  <2>2. {GENESIS, head, snapHead, peeked.head, ckpt.head}' \subseteq minted'
    BY <1>0, <1>5 DEF SaveCheckpoint, ForgetSnapshot, IntegrityInv, GENESIS
  <2> QED BY <2>1, <2>2, <1>1, <1>2, <1>5 DEF SaveCheckpoint, IntegrityInv
<1>6. CASE PeekAudit
  <2>1. TypeOK'
    BY <1>0, <1>6, <1>a DEF PeekAudit, IntegrityInv, TypeOK, PCs
  <2>2. {GENESIS, head, snapHead, peeked.head, ckpt.head}' \subseteq minted'
    BY <1>0, <1>6, <1>a DEF PeekAudit, IntegrityInv, GENESIS
  <2> QED BY <2>1, <2>2, <1>1, <1>2, <1>6 DEF PeekAudit, IntegrityInv
<1>7. CASE PushAudit
  <2> DEFINE batch == SignBatch(DeviceKey, peeked.entries, peeked.head)
  <2>1. batch \in Genuine
    BY SyncAssumption DEF SignBatch, Genuine, SignedSpoolBatch, Signature, IntegrityInv, TypeOK
  <2>2. wire' = wire \/ wire' = Append(wire, batch)
    BY <1>7 DEF PushAudit
  <2>3. wire' \in Seq(Genuine)
    <3> HIDE DEF batch
    <3> QED BY <2>1, <2>2, AppendProperties DEF IntegrityInv
  <2>4. wire' \in Seq(SignedSpoolBatch)
    BY <2>3, SeqMonotonic DEF Genuine
  <2>5. TypeOK'
    BY <1>0, <1>7, <2>4 DEF PushAudit, IntegrityInv, TypeOK, PCs
  <2>6. {GENESIS, head, snapHead, peeked.head, ckpt.head}' \subseteq minted'
    BY <1>0, <1>7 DEF PushAudit, IntegrityInv, GENESIS
  <2> QED BY <2>3, <2>5, <2>6, <1>1, <1>2 DEF IntegrityInv
<1>8. CASE PushUnavailable
  <2>1. TypeOK'
    BY <1>0, <1>8, <1>a DEF PushUnavailable, IntegrityInv, TypeOK, PCs
  <2>2. {GENESIS, head, snapHead, peeked.head, ckpt.head}' \subseteq minted'
    BY <1>0, <1>8, <1>a DEF PushUnavailable, IntegrityInv, GENESIS
  <2> QED BY <2>1, <2>2, <1>1, <1>2, <1>8 DEF PushUnavailable, IntegrityInv
<1>9. CASE ConfirmAudit
  <2>1. pending' \in Seq(SpoolEntry)
    BY <1>9, RetainType DEF ConfirmAudit, IntegrityInv, TypeOK
  <2>2. TypeOK'
    BY <1>0, <1>9, <1>a, <2>1 DEF ConfirmAudit, IntegrityInv, TypeOK, PCs
  <2>3. {GENESIS, head, snapHead, peeked.head, ckpt.head}' \subseteq minted'
    BY <1>0, <1>9, <1>a DEF ConfirmAudit, IntegrityInv, GENESIS
  <2> QED BY <2>2, <2>3, <1>1, <1>2, <1>9 DEF ConfirmAudit, IntegrityInv
<1> QED BY <1>3, <1>4, <1>5, <1>6, <1>7, <1>8, <1>9 DEF SyncStep

\* AuditLedger::ingest: an accepted batch carries the device's signature over its
\* head, and its head extends the ledger's by the events of the batch.
LEMMA IngestIntegrity ==
  ASSUME IntegrityInv, Ingest
  PROVE  IntegrityInv'
<1> USE DEF spoolVars, syncVars, ledgerVars, faultVars
<1> DEFINE batch == Head(wire)
           result == VerifyBatch(chain.head, chain.next_seq, batch, chain.public_key)
           events == EntryEvents(batch.entries)
<1>1. wire \in Seq(Genuine) /\ wire # << >>
  BY DEF IntegrityInv, Ingest
<1>2. batch \in Genuine /\ wire' \in Seq(Genuine)
  BY <1>1, HeadTailProperties DEF Ingest
<1>3. batch \in SignedSpoolBatch /\ wire' \in Seq(SignedSpoolBatch)
  BY <1>2, SeqMonotonic DEF Genuine
<1>4. Genuine' = Genuine
  BY DEF Ingest, Genuine
<1>5. {GENESIS, head, snapHead, peeked.head, ckpt.head}' \subseteq minted'
  BY DEF Ingest, IntegrityInv, GENESIS
<1>6. batch.entries \in Seq(SpoolEntry) /\ Len(batch.entries) \in Nat /\ batch.head \in ChainHash
  BY <1>3 DEF SignedSpoolBatch
<1>8. CASE result # "Ok"
  <2>1. UNCHANGED <<chain, verified>> /\ alerts' = alerts \cup {AlertKind(result)}
    BY <1>8 DEF Ingest
  <2>2. AlertKind(result) \in {"gap", "tampered", "bad_signature", "rejected"}
    BY DEF AlertKind
  <2> HIDE DEF batch, result
  <2>3. TypeOK'
    BY <1>3, <2>1, <2>2 DEF Ingest, IntegrityInv, TypeOK
  <2>4. LedgerGenuine' /\ chain'.public_key = DeviceKey
    BY <2>1 DEF Ingest, IntegrityInv, LedgerGenuine
  <2> QED BY <1>2, <1>4, <1>5, <2>3, <2>4 DEF IntegrityInv
<1>9. CASE result = "Ok"
  <2>1. /\ chain' = [chain EXCEPT !.next_seq = @ + Len(events), !.head = batch.head]
        /\ verified' = verified \o events
        /\ UNCHANGED alerts
    BY <1>9 DEF Ingest
  <2>2. /\ chain \in [public_key : Key, next_seq : Nat, head : ChainHash]
        /\ chain.public_key = DeviceKey
        /\ chain.next_seq = Len(chain.head) + 1
        /\ WellNumbered(chain.head) /\ verified = EventsOf(chain.head)
        /\ verified \in Seq(Event)
    BY DEF IntegrityInv, TypeOK, LedgerGenuine
  <2>3. chain.head \in ChainHash /\ chain.public_key \in Key /\ Len(chain.head) \in Nat
    BY <2>2 DEF ChainHash
  <2>4. /\ events \in Seq(Event) /\ Len(events) = Len(batch.entries)
        /\ WellNumbered(batch.head)
        /\ EventsOf(batch.head) = EventsOf(chain.head) \o events
        /\ Len(batch.head) = Len(chain.head) + Len(batch.entries)
        /\ batch.signature = [by |-> DeviceKey, over |-> batch.head]
    <3>1. VerifyBatch(chain.head, Len(chain.head) + 1, batch, DeviceKey) = "Ok"
      BY <1>9, <2>2
    <3>2. DeviceKey \in Key
      BY SyncAssumption
    <3> HIDE DEF batch
    <3>4. WellNumbered(chain.head) /\ chain.head \in ChainHash /\ batch \in SignedSpoolBatch
      BY <2>2, <2>3, <1>3
    <3> QED BY <3>1, <3>2, <3>4, AcceptedBatch
  <2>a. Len(events) = Len(batch.entries) /\ Len(batch.head) = Len(chain.head) + Len(batch.entries)
    BY <2>4, Zenon
  <2>5. batch.head \in minted
    BY <1>2, <2>4 DEF Genuine
  <2> HIDE DEF batch, result, events
  <2>6. /\ chain'.head = batch.head /\ chain'.next_seq = chain.next_seq + Len(batch.entries)
        /\ chain'.public_key = chain.public_key
        /\ chain' \in [public_key : Key, next_seq : Nat, head : ChainHash]
    <3>0. Len(batch.entries) \in Nat /\ chain.next_seq \in Nat
      BY <1>6, <2>2
    <3>1. chain.next_seq + Len(events) = chain.next_seq + Len(batch.entries)
            /\ chain.next_seq + Len(batch.entries) \in Nat
      BY <3>0, <2>a
    <3> QED BY <2>1, <2>2, <3>1, <1>6
  <2>7. LedgerGenuine' /\ chain'.public_key = DeviceKey
    <3>1. minted' = minted
      BY DEF Ingest
    <3>2. chain'.next_seq = Len(chain'.head) + 1
      <4>1. Len(batch.entries) \in Nat /\ chain.next_seq = Len(chain.head) + 1 /\ Len(chain.head) \in Nat
        BY <1>6, <2>2, <2>3
      <4>2. chain'.next_seq = chain.next_seq + Len(batch.entries) /\ Len(chain'.head) = Len(batch.head)
        BY <2>6
      <4>3. Len(chain'.head) = Len(chain.head) + Len(batch.entries)
        BY <4>2, <2>a
      <4> DEFINE a == Len(chain.head)
                 b == Len(batch.entries)
                 c == Len(chain'.head)
                 d == chain'.next_seq
      <4>4. a \in Nat /\ b \in Nat /\ d = (a + 1) + b /\ c = a + b
        BY <4>1, <4>2, <4>3
      <4> HIDE DEF a, b, c, d
      <4>5. d = c + 1
        BY <4>4
      <4> QED BY <4>5 DEF c, d
    <3>3. verified' = EventsOf(chain'.head)
      BY <2>1, <2>2, <2>4, <2>6
    <3> QED BY <3>1, <3>2, <3>3, <2>2, <2>4, <2>5, <2>6 DEF LedgerGenuine
  <2>8. verified' \in Seq(Event)
    BY <2>1, <2>2, <2>4, ConcatProperties
  <2>9. TypeOK'
    BY <1>3, <2>1, <2>6, <2>8 DEF Ingest, IntegrityInv, TypeOK
  <2> QED BY <1>2, <1>4, <1>5, <2>7, <2>9 DEF IntegrityInv
<1> QED BY <1>8, <1>9

LEMMA FaultType ==
  ASSUME TypeOK, NEW kind \in FaultKind, Fault(kind)
  PROVE  happened' \subseteq FaultKind /\ nfaults' \in Nat
BY DEF Fault, TypeOK

LEMMA NoBatchType ==
  /\ GENESIS \in ChainHash /\ << >> \in Seq(SpoolEntry)
  /\ NoBatch \in [entries : Seq(SpoolEntry), head : ChainHash] /\ NoBatch.head = GENESIS
BY EmptySeq DEF NoBatch, GENESIS, ChainHash

\* The link, the pump and the disk can fail without a forged head appearing.
LEMMA OutageIntegrity ==
  ASSUME IntegrityInv, GoOffline \/ GoOnline \/ PumpDies \/ SaveFails
  PROVE  IntegrityInv'
<1> USE DEF spoolVars, syncVars, ledgerVars, faultVars
<1>1. UNCHANGED <<spoolVars, peeked, ckpt, minted, ledgerVars>>
  BY DEF GoOffline, GoOnline, PumpDies, SaveFails
<1>2. happened' \subseteq FaultKind /\ nfaults' \in Nat
  <2>1. CASE GoOnline
    BY <2>1 DEF GoOnline, IntegrityInv, TypeOK
  <2>2. CASE GoOffline
    BY <2>2, FaultType DEF GoOffline, IntegrityInv, FaultKind
  <2>3. CASE PumpDies
    BY <2>3, FaultType DEF PumpDies, IntegrityInv, FaultKind
  <2>4. CASE SaveFails
    BY <2>4, FaultType DEF SaveFails, IntegrityInv, FaultKind
  <2> QED BY <2>1, <2>2, <2>3, <2>4
<1>3. wire' \in Seq(Genuine)
  <2>1. CASE PumpDies
    BY <2>1, PrefixInSeq DEF PumpDies, IntegrityInv
  <2>2. CASE ~PumpDies
    BY <2>2 DEF GoOffline, GoOnline, SaveFails, IntegrityInv
  <2> QED BY <2>1, <2>2
<1>4. wire' \in Seq(SignedSpoolBatch)
  BY <1>3, SeqMonotonic DEF Genuine
<1>5. /\ pc' \in PCs /\ snapSeq' \in Nat /\ snapHead' \in ChainHash /\ snapHead' \in minted
      /\ link' \in {"up", "down", "dead", "sink"}
  BY NoBatchType DEF GoOffline, GoOnline, PumpDies, SaveFails, AfterSave, ForgetSnapshot,
                     PCs, IntegrityInv, TypeOK
<1>6. TypeOK'
  BY <1>1, <1>2, <1>4, <1>5 DEF IntegrityInv, TypeOK
<1>7. Genuine' = Genuine
  BY <1>1 DEF Genuine
<1>8. {GENESIS, head, snapHead, peeked.head, ckpt.head}' \subseteq minted'
  BY <1>1, <1>5 DEF IntegrityInv, GENESIS
<1>9. LedgerGenuine' /\ chain'.public_key = DeviceKey
  BY <1>1 DEF IntegrityInv, LedgerGenuine
<1> QED BY <1>3, <1>6, <1>7, <1>8, <1>9 DEF IntegrityInv

\* A restart brings back, at most, heads that were saved.
LEMMA CrashIntegrity ==
  ASSUME IntegrityInv, NEW kind \in {"crash", "unreachable"}, CrashAndBoot(kind)
  PROVE  IntegrityInv'
<1> USE DEF spoolVars, syncVars, ledgerVars, faultVars
<1>1. happened' \subseteq FaultKind /\ nfaults' \in Nat
  BY FaultType DEF CrashAndBoot, IntegrityInv, FaultKind
<1>2. seq' \in Nat /\ head' \in ChainHash /\ pending' \in Seq(SpoolEntry) /\ head' \in minted
  BY NoBatchType DEF CrashAndBoot, IntegrityInv, TypeOK
<1>3. minted' = minted
  BY <1>2 DEF CrashAndBoot
<1>4. wire' \in Seq(Genuine)
  BY PrefixInSeq DEF CrashAndBoot, IntegrityInv
<1>5. wire' \in Seq(SignedSpoolBatch)
  BY <1>4, SeqMonotonic DEF Genuine
<1>6. /\ pc' \in PCs /\ snapSeq' = 0 /\ snapHead' = GENESIS /\ peeked' = NoBatch
      /\ link' \in {"up", "sink"}
  BY DEF CrashAndBoot, ForgetSnapshot, PCs
<1>7. UNCHANGED <<ckpt, ledgerVars>>
  BY DEF CrashAndBoot
<1>8. TypeOK'
  BY <1>1, <1>2, <1>3, <1>5, <1>6, <1>7, NoBatchType DEF IntegrityInv, TypeOK
<1>9. Genuine' = Genuine
  BY <1>3 DEF Genuine
<1>10. {GENESIS, head, snapHead, peeked.head, ckpt.head}' \subseteq minted'
  BY <1>2, <1>3, <1>6, <1>7, NoBatchType DEF IntegrityInv, GENESIS
<1>11. LedgerGenuine' /\ chain'.public_key = DeviceKey
  BY <1>3, <1>7 DEF IntegrityInv, LedgerGenuine
<1> QED BY <1>4, <1>8, <1>9, <1>10, <1>11 DEF IntegrityInv

\* Whoever holds the path can remove, repeat, rewrite or invent batches, but cannot
\* make the device's signature cover another head.
LEMMA TamperingIntegrity ==
  ASSUME IntegrityInv, Tampering
  PROVE  IntegrityInv'
<1> USE DEF spoolVars, syncVars, ledgerVars, faultVars
<1>1. UNCHANGED <<spoolVars, syncVars, ckpt, link, ledgerVars, minted>>
  BY DEF Tampering, DropBatch, DuplicateBatch, RewriteEvent, GarbleSignature, ForgeBatch
<1>2. happened' \subseteq FaultKind /\ nfaults' \in Nat
  <2>1. \E kind \in FaultKind : Fault(kind)
    BY DEF Tampering, DropBatch, DuplicateBatch, RewriteEvent, GarbleSignature, ForgeBatch, FaultKind
  <2> QED BY <2>1, FaultType DEF IntegrityInv
<1>3. wire \in Seq(Genuine) /\ Len(wire) \in Nat
  BY DEF IntegrityInv
<1>4. wire' \in Seq(Genuine)
  <2>1. ASSUME NEW i \in 1..Len(wire), DropBatch(i) PROVE wire' \in Seq(Genuine)
    <3>1. SubSeq(wire, 1, i - 1) \in Seq(Genuine) /\ SubSeq(wire, i + 1, Len(wire)) \in Seq(Genuine)
      BY <1>3, SubSeqProperties
    <3>2. wire' = SubSeq(wire, 1, i - 1) \o SubSeq(wire, i + 1, Len(wire))
      BY <2>1 DEF DropBatch, Without
    <3> QED BY <3>1, <3>2, ConcatProperties
  <2>2. ASSUME NEW i \in 1..Len(wire), DuplicateBatch(i) PROVE wire' \in Seq(Genuine)
    <3>1. wire[i] \in Genuine /\ wire' = Append(wire, wire[i])
      BY <1>3, <2>2, ElementOfSeq DEF DuplicateBatch
    <3> QED BY <3>1, <1>3, AppendProperties
  <2>3. ASSUME NEW i \in 1..Len(wire), GarbleSignature(i) PROVE wire' \in Seq(Genuine)
    <3> DEFINE b == [wire[i] EXCEPT !.signature.by = NoKey]
    <3>1. wire[i] \in Genuine
      BY <1>3, ElementOfSeq
    <3>2. NoKey # DeviceKey
      BY NoKeyAssumption, SyncAssumption
    <3>3. b \in Genuine
      BY <3>1, <3>2 DEF Genuine, SignedSpoolBatch, Signature
    <3>4. wire' = [wire EXCEPT ![i] = b]
      BY <2>3 DEF GarbleSignature
    <3> HIDE DEF b
    <3> QED BY <3>3, <3>4, <1>3, ExceptSeq
  <2>4. ASSUME NEW i \in 1..Len(wire), NEW j \in 1..Len(wire[i].entries), NEW event \in Event,
               RewriteEvent(i, j, event)
        PROVE  wire' \in Seq(Genuine)
    <3> DEFINE en == wire[i].entries
               e == [en[j] EXCEPT !.event = event]
               b == [wire[i] EXCEPT !.entries = [en EXCEPT ![j] = e]]
    <3>1. wire[i] \in Genuine
      BY <1>3, ElementOfSeq
    <3>2. en \in Seq(SpoolEntry) /\ en[j] \in SpoolEntry
      BY <3>1, ElementOfSeq DEF Genuine, SignedSpoolBatch
    <3>3. e \in SpoolEntry
      BY <3>2 DEF SpoolEntry
    <3>4. [en EXCEPT ![j] = e] \in Seq(SpoolEntry)
      <4> HIDE DEF e
      <4> QED BY <3>2, <3>3, ExceptSeq
    <3>5. b \in Genuine
      <4> HIDE DEF e
      <4> QED BY <3>1, <3>4 DEF Genuine, SignedSpoolBatch
    <3>6. wire' = [wire EXCEPT ![i] = b]
      BY <2>4 DEF RewriteEvent
    <3> HIDE DEF b
    <3> QED BY <3>5, <3>6, <1>3, ExceptSeq
  <2>5. ASSUME NEW key \in Key, NEW event \in Event, ForgeBatch(key, event)
        PROVE  wire' \in Seq(Genuine)
    <3> DEFINE forged == EntryHash(chain.next_seq, chain.head, event)
               entry == [seq |-> chain.next_seq, prev |-> chain.head,
                         event |-> event, hash |-> forged]
               b == SignBatch(key, <<entry>>, forged)
    <3>1. chain.head \in ChainHash /\ chain.next_seq \in Nat
      BY DEF IntegrityInv, TypeOK
    <3>2. forged \in ChainHash
      BY <3>1, EmitHead
    <3>3. entry \in SpoolEntry
      <4> HIDE DEF forged
      <4> QED BY <3>1, <3>2 DEF SpoolEntry
    <3>4. <<entry>> \in Seq(SpoolEntry)
      <4> HIDE DEF entry
      <4> QED BY <3>3
    <3>5. b \in Genuine
      <4> HIDE DEF entry, forged
      <4>1. key # DeviceKey
        BY <2>5 DEF ForgeBatch
      <4> QED BY <3>2, <3>4, <4>1 DEF SignBatch, Genuine, SignedSpoolBatch, Signature
    <3>6. wire' = <<b>> \o wire
      BY <2>5 DEF ForgeBatch
    <3> HIDE DEF b
    <3>7. <<b>> \in Seq(Genuine)
      BY <3>5
    <3> QED BY <3>6, <3>7, <1>3, ConcatProperties
  <2> QED BY <2>1, <2>2, <2>3, <2>4, <2>5 DEF Tampering
<1>5. wire' \in Seq(SignedSpoolBatch)
  BY <1>4, SeqMonotonic DEF Genuine
<1>6. TypeOK'
  BY <1>1, <1>2, <1>5 DEF IntegrityInv, TypeOK
<1>7. Genuine' = Genuine
  BY <1>1 DEF Genuine
<1>8. {GENESIS, head, snapHead, peeked.head, ckpt.head}' \subseteq minted'
  BY <1>1 DEF IntegrityInv, GENESIS
<1>9. LedgerGenuine' /\ chain'.public_key = DeviceKey
  BY <1>1 DEF IntegrityInv, LedgerGenuine
<1> QED BY <1>4, <1>6, <1>7, <1>8, <1>9 DEF IntegrityInv

LEMMA StepIntegrity == IntegrityInv /\ [Next]_vars => IntegrityInv'
<1> SUFFICES ASSUME IntegrityInv, [Next]_vars PROVE IntegrityInv'
  OBVIOUS
<1>1. CASE UNCHANGED vars
  BY <1>1 DEF vars, spoolVars, syncVars, ledgerVars, faultVars, IntegrityInv, TypeOK,
              LedgerGenuine, Genuine
<1>2. CASE \E event \in Event : Emit(event)
  BY <1>2, EmitIntegrity
<1>3. CASE SyncStep
  BY <1>3, SyncStepIntegrity
<1>4. CASE Ingest
  BY <1>4, IngestIntegrity
<1>5. CASE GoOffline \/ GoOnline \/ PumpDies \/ SaveFails
  BY <1>5, OutageIntegrity
<1>6. CASE \E kind \in {"crash", "unreachable"} : CrashAndBoot(kind)
  BY <1>6, CrashIntegrity
<1>7. CASE Tampering
  BY <1>7, TamperingIntegrity
<1> QED BY <1>1, <1>2, <1>3, <1>4, <1>5, <1>6, <1>7 DEF Next

\* Every reachable state of the audit path is type correct, and AuditLedger::ingest
\* has admitted exactly the events of a chain the device's own spool has had: under
\* every fault, in either boot mode.
THEOREM AuditIntegrity == Spec => [](TypeOK /\ LedgerGenuine)
<1>1. IntegrityInv => TypeOK /\ LedgerGenuine
  BY DEF IntegrityInv
<1> QED BY InitIntegrity, StepIntegrity, <1>1, PTL DEF Spec

-----------------------------------------------------------------------------
(* The spool between two restarts. *)

\* IntegrityInv is an invariant of the specification.
LEMMA IntegrityInvariant == Spec => []IntegrityInv
BY InitIntegrity, StepIntegrity, PTL DEF Spec

NoCrash == happened \cap {"crash", "unreachable"} = {}

\* The number of the last entry that confirm_through has removed.
Base == seq - Len(pending)

\* What peek_audit returned is the beginning of what the spool still holds.
PeekedOK ==
  /\ Len(peeked.entries) \in 1..Len(pending)
  /\ \A j \in 1..Len(peeked.entries) : peeked.entries[j] = EntryAt(head, Base + j)
  /\ peeked.head = SubSeq(head, 1, Base + Len(peeked.entries))

\* The spool holds the end of its own chain, and every head it has had is a
\* beginning of that chain.
SpoolOK ==
  /\ Len(head) = seq /\ WellNumbered(head)
  /\ \A h \in minted : Len(h) <= seq /\ h = SubSeq(head, 1, Len(h))
  /\ Len(pending) <= seq
  /\ \A j \in 1..Len(pending) : pending[j] = EntryAt(head, Base + j)
  /\ pc \in {"push", "confirm"} => PeekedOK

SpoolInv == NoCrash => SpoolOK

\* The faults that have happened are never forgotten.
LEMMA FaultsStay ==
  ASSUME [Next]_vars
  PROVE  happened \subseteq happened'
<1>1. CASE UNCHANGED vars
  BY <1>1 DEF vars, faultVars
<1>2. CASE \E event \in Event : Emit(event)
  BY <1>2 DEF Emit, faultVars
<1>3. CASE SyncStep
  BY <1>3 DEF SyncStep, ReadSeq, ReadHead, SaveCheckpoint, PeekAudit, PushAudit, PushUnavailable,
    ConfirmAudit, faultVars
<1>4. CASE Ingest
  BY <1>4 DEF Ingest, faultVars
<1>5. CASE GoOffline \/ GoOnline \/ PumpDies \/ SaveFails
  BY <1>5 DEF GoOffline, GoOnline, PumpDies, SaveFails, Fault, faultVars
<1>6. CASE \E kind \in {"crash", "unreachable"} : CrashAndBoot(kind)
  BY <1>6 DEF CrashAndBoot, Fault
<1>7. CASE Tampering
  BY <1>7 DEF Tampering, DropBatch, DuplicateBatch, RewriteEvent, GarbleSignature, ForgeBatch, Fault
<1> QED BY <1>1, <1>2, <1>3, <1>4, <1>5, <1>6, <1>7 DEF Next

\* A step without a restart in the past is not a restart.
LEMMA NoCrashBefore ==
  ASSUME [Next]_vars, NoCrash'
  PROVE  NoCrash /\ ~(\E kind \in {"crash", "unreachable"} : CrashAndBoot(kind))
<1>1. NoCrash
  BY FaultsStay DEF NoCrash
<1>2. ASSUME NEW kind \in {"crash", "unreachable"}, CrashAndBoot(kind) PROVE FALSE
  BY <1>2 DEF CrashAndBoot, Fault, NoCrash
<1> QED BY <1>1, <1>2

\* The numbers and types that the steps below use.
LEMMA SpoolFacts ==
  ASSUME TypeOK, SpoolOK
  PROVE  /\ seq \in Nat /\ head \in Seq(Link) /\ Len(head) = seq
         /\ pending \in Seq(SpoolEntry) /\ Len(pending) \in Nat /\ Base \in Nat
         /\ Base + Len(pending) = seq
         /\ peeked.entries \in Seq(SpoolEntry) /\ Len(peeked.entries) \in Nat
<1>1. seq \in Nat /\ head \in Seq(Link) /\ pending \in Seq(SpoolEntry) /\ Len(pending) \in Nat
        /\ peeked.entries \in Seq(SpoolEntry) /\ Len(peeked.entries) \in Nat
  BY DEF TypeOK, ChainHash
<1>2. Len(head) = seq /\ Len(pending) <= seq
  BY DEF SpoolOK
<1> QED BY <1>1, <1>2 DEF Base

LEMMA SpoolKept ==
  ASSUME SpoolOK, UNCHANGED <<spoolVars, minted>>,
         pc' \in {"push", "confirm"} => pc \in {"push", "confirm"} /\ peeked' = peeked
  PROVE  SpoolOK'
<1>1. UNCHANGED <<seq, head, pending, minted>>
  BY DEF spoolVars
<1>2. Base' = Base
  BY <1>1 DEF Base
<1>3. pc' \in {"push", "confirm"} => PeekedOK'
  BY <1>1, <1>2 DEF SpoolOK, PeekedOK
<1> QED BY <1>1, <1>2, <1>3 DEF SpoolOK

\* AuditSpool::emit appends to the chain and to the spool alike.
LEMMA EmitSpool ==
  ASSUME IntegrityInv, SpoolOK, NEW event \in Event, Emit(event)
  PROVE  SpoolOK' /\ Base' = Base
<1> DEFINE l == [seq |-> seq + 1, event |-> event]
           entry == [seq |-> seq + 1, prev |-> head, event |-> event, hash |-> head']
<1>1. /\ seq \in Nat /\ head \in Seq(Link) /\ Len(head) = seq
      /\ pending \in Seq(SpoolEntry) /\ Len(pending) \in Nat /\ Base \in Nat
      /\ Base + Len(pending) = seq
      /\ peeked.entries \in Seq(SpoolEntry) /\ Len(peeked.entries) \in Nat
  BY SpoolFacts DEF IntegrityInv
<1>2. l \in Link
  BY <1>1 DEF Link
<1>3. seq' = seq + 1 /\ head' = Append(head, l) /\ pending' = Append(pending, entry)
        /\ minted' = minted \cup {head'} /\ pc' = pc /\ peeked' = peeked
  BY DEF Emit, EntryHash, syncVars
<1>4. /\ head' \in Seq(Link) /\ Len(head') = seq + 1 /\ head'[seq + 1] = l
      /\ \A i \in 1..seq : head'[i] = head[i]
  <2> HIDE DEF l
  <2> QED BY <1>1, <1>2, <1>3, AppendedChain
<1>5. \A k \in 0..seq : SubSeq(head', 1, k) = SubSeq(head, 1, k)
  <2> HIDE DEF l
  <2> QED BY <1>1, <1>2, <1>3, PrefixAppend
<1>6. \A n \in 1..seq : EntryAt(head', n) = EntryAt(head, n)
  <2> HIDE DEF l
  <2> QED BY <1>1, <1>2, <1>3, EntryAtStable
<1>7. SubSeq(head', 1, seq) = head /\ SubSeq(head', 1, seq + 1) = head'
  <2>1. SubSeq(head, 1, seq) = head
    BY <1>1, PrefixFull
  <2>2. SubSeq(head', 1, seq + 1) = head'
    BY <1>4, PrefixFull
  <2>3. seq \in 0..seq
    BY <1>1
  <2> QED BY <1>5, <2>1, <2>2, <2>3
<1>8. entry = EntryAt(head', seq + 1)
  <2>1. (seq + 1) - 1 = seq /\ head'[seq + 1].event = event
    BY <1>1, <1>4
  <2>2. EntryAt(head', seq + 1) = [seq |-> seq + 1, prev |-> SubSeq(head', 1, (seq + 1) - 1),
                                   event |-> head'[seq + 1].event, hash |-> SubSeq(head', 1, seq + 1)]
    BY ONLY DEF EntryAt
  <2>3. EntryAt(head', seq + 1) = [seq |-> seq + 1, prev |-> head, event |-> event, hash |-> head']
    BY ONLY <1>7, <2>1, <2>2
  <2> QED BY ONLY <2>3 DEF entry
<1>9. WellNumbered(head')
  <2>1. ASSUME NEW i \in 1..(seq + 1) PROVE head'[i].seq = i
    <3>1. CASE i = seq + 1
      BY <1>4, <3>1
    <3>2. CASE i # seq + 1
      <4>1. i \in 1..seq
        BY <1>1, <3>2
      <4> QED BY <1>1, <1>4, <4>1 DEF SpoolOK, WellNumbered
    <3> QED BY <3>1, <3>2
  <2> QED BY <1>4, <2>1 DEF WellNumbered
<1>10. ASSUME NEW h \in minted' PROVE Len(h) <= seq' /\ h = SubSeq(head', 1, Len(h))
  <2>1. CASE h = head'
    <3>1. Len(h) = seq + 1 /\ seq' = seq + 1 /\ seq \in Nat
      BY <1>1, <1>3, <1>4, <2>1
    <3>2. Len(h) <= seq'
      BY ONLY <3>1
    <3>3. SubSeq(head', 1, Len(h)) = SubSeq(head', 1, seq + 1)
      BY ONLY <3>1
    <3>4. h = SubSeq(head', 1, Len(h))
      BY ONLY <1>7, <2>1, <3>3
    <3> QED BY ONLY <3>2, <3>4
  <2>2. CASE h # head'
    <3>1. h \in minted /\ Len(h) <= seq /\ h = SubSeq(head, 1, Len(h))
      BY <1>3, <2>2 DEF SpoolOK
    <3>2. Len(h) \in 0..seq
      <4>1. h \in Seq(Link)
        BY <3>1 DEF IntegrityInv, TypeOK, ChainHash
      <4> QED BY <1>1, <3>1, <4>1
    <3>3. Len(h) <= seq + 1 /\ seq' = seq + 1
      BY <1>1, <1>3, <3>2
    <3>4. SubSeq(head', 1, Len(h)) = SubSeq(head, 1, Len(h))
      BY ONLY <1>5, <3>2
    <3>5. h = SubSeq(head', 1, Len(h))
      BY ONLY <3>1, <3>4
    <3> QED BY ONLY <3>3, <3>5
  <2> QED BY <2>1, <2>2
<1> HIDE DEF l, entry
<1>11. /\ Len(pending') = Len(pending) + 1 /\ pending'[Len(pending) + 1] = entry
       /\ \A j \in 1..Len(pending) : pending'[j] = pending[j]
  <2>1. entry \in SpoolEntry
    <3>1. seq + 1 \in 1..Len(head')
      BY <1>1, <1>4
    <3> QED BY <1>4, <1>8, <3>1, EntryAtType
  <2> QED BY <1>1, <1>3, <2>1, AppendProperties
<1>12. Base' = Base
  BY <1>1, <1>3, <1>11 DEF Base
<1>13. ASSUME NEW j \in 1..Len(pending') PROVE pending'[j] = EntryAt(head', Base + j)
  <2>1. CASE j = Len(pending) + 1
    <3>1. Base = seq - Len(pending) /\ Len(pending) \in Nat /\ seq \in Nat
      BY <1>1 DEF Base
    <3>2. Base + j = seq + 1
      BY ONLY <2>1, <3>1
    <3>3. pending'[j] = entry
      BY ONLY <1>11, <2>1
    <3> QED BY ONLY <1>8, <3>2, <3>3
  <2>2. CASE j # Len(pending) + 1
    <3>1. j \in 1..Len(pending) /\ Base + j \in 1..seq
      BY <1>1, <1>11, <2>2
    <3>2. pending[j] = EntryAt(head, Base + j)
      BY <3>1 DEF SpoolOK
    <3> QED BY <1>6, <1>11, <3>1, <3>2
  <2> QED BY <2>1, <2>2
<1>14. ASSUME pc \in {"push", "confirm"} PROVE PeekedOK'
  <2>1. /\ Len(peeked.entries) \in 1..Len(pending)
        /\ \A j \in 1..Len(peeked.entries) : peeked.entries[j] = EntryAt(head, Base + j)
        /\ peeked.head = SubSeq(head, 1, Base + Len(peeked.entries))
    BY <1>14 DEF SpoolOK, PeekedOK
  <2>2. Len(peeked.entries) \in 1..Len(pending') /\ Base + Len(peeked.entries) \in 0..seq
    BY <1>1, <1>11, <2>1
  <2>3. ASSUME NEW j \in 1..Len(peeked.entries) PROVE peeked.entries[j] = EntryAt(head', Base + j)
    <3>1. Base + j \in 1..seq
      BY <1>1, <2>1
    <3> QED BY <1>6, <2>1, <3>1
  <2>4. peeked.head = SubSeq(head', 1, Base + Len(peeked.entries))
    BY <1>5, <2>1, <2>2
  <2> QED BY <1>3, <1>12, <2>2, <2>3, <2>4 DEF PeekedOK
<1>15. Len(pending') <= seq'
  BY <1>1, <1>3, <1>11
<1>16. SpoolOK'
  BY <1>3, <1>4, <1>9, <1>10, <1>12, <1>13, <1>14, <1>15 DEF SpoolOK
<1> QED BY <1>12, <1>16

\* confirm_through removes what was peeked and keeps what was emitted since.
LEMMA ConfirmSpool ==
  ASSUME IntegrityInv, SpoolOK, ConfirmAudit
  PROVE  SpoolOK' /\ Base' = Base + Len(peeked.entries)
<1>1. /\ seq \in Nat /\ head \in Seq(Link) /\ Len(head) = seq
      /\ pending \in Seq(SpoolEntry) /\ Len(pending) \in Nat /\ Base \in Nat
      /\ Base + Len(pending) = seq
      /\ peeked.entries \in Seq(SpoolEntry) /\ Len(peeked.entries) \in Nat
  BY SpoolFacts DEF IntegrityInv
<1>2. PICK m : m = Len(peeked.entries)
  OBVIOUS
<1>3. m \in 1..Len(pending) /\ m \in Nat /\ peeked.entries[m] = EntryAt(head, Base + m)
  <2>1. PeekedOK
    BY DEF ConfirmAudit, SpoolOK
  <2>2. Len(peeked.entries) \in 1..Len(pending)
          /\ \A j \in 1..Len(peeked.entries) : peeked.entries[j] = EntryAt(head, Base + j)
    BY ONLY <2>1 DEF PeekedOK
  <2>3. m \in 1..Len(pending) /\ m \in Nat /\ m \in 1..Len(peeked.entries)
    BY ONLY <1>1, <1>2, <2>2
  <2> QED BY ONLY <2>2, <2>3
<1>4. peeked.entries[m].seq = Base + m
  BY ONLY <1>3 DEF EntryAt
<1>5. pending' = Retain(pending, Base + m) /\ UNCHANGED <<seq, head, minted>> /\ pc' = "seq2"
  BY <1>2, <1>4 DEF ConfirmAudit
<1>6. \A i \in 1..Len(pending) : pending[i].seq = Base + i
  <2> TAKE i \in 1..Len(pending)
  <2>1. pending[i] = EntryAt(head, Base + i)
    BY DEF SpoolOK
  <2> QED BY ONLY <2>1 DEF EntryAt
<1>7. pending' = SubSeq(pending, m + 1, Len(pending))
  <2>1. Base + m \in Nat /\ Base <= Base + m /\ Base + m <= Base + Len(pending)
          /\ (Base + m) - Base + 1 = m + 1
    BY <1>1, <1>3
  <2>2. Retain(pending, Base + m) = SubSeq(pending, (Base + m) - Base + 1, Len(pending))
    <3> HIDE DEF Base
    <3> QED BY <1>1, <1>6, <2>1, RetainSuffix
  <2> QED BY <1>5, <2>1, <2>2
<1>8. /\ Len(pending') = Len(pending) - m
      /\ \A j \in 1..(Len(pending) - m) : pending'[j] = pending[m + j]
  <2>1. m + 1 \in Int /\ Len(pending) \in Int /\ \A i \in (m + 1)..Len(pending) : pending[i] \in SpoolEntry
    BY <1>1, <1>3
  <2>2. /\ Len(SubSeq(pending, m + 1, Len(pending))) =
             IF m + 1 <= Len(pending) THEN Len(pending) - (m + 1) + 1 ELSE 0
        /\ \A i \in 1..(Len(pending) - (m + 1) + 1) :
             SubSeq(pending, m + 1, Len(pending))[i] = pending[(m + 1) + i - 1]
    BY <2>1, SubSeqProperties
  <2>3. Len(pending) - (m + 1) + 1 = Len(pending) - m
    BY <1>1, <1>3
  <2>4. \A j \in 1..(Len(pending) - m) : (m + 1) + j - 1 = m + j
    BY <1>1, <1>3
  <2>5. Len(pending') = Len(pending) - m
    <3>1. CASE m + 1 <= Len(pending)
      BY ONLY <1>7, <2>2, <2>3, <3>1
    <3>2. CASE ~(m + 1 <= Len(pending))
      <4>1. Len(pending) - m = 0
        BY ONLY <1>1, <1>3, <3>2
      <4> QED BY ONLY <1>7, <2>2, <3>2, <4>1
    <3> QED BY ONLY <3>1, <3>2
  <2> QED BY <1>7, <2>2, <2>3, <2>4, <2>5
<1>9. Base' = Base + m
  <2>1. Base' = seq' - Len(pending') /\ Base = seq - Len(pending)
    BY ONLY DEF Base
  <2> HIDE DEF Base
  <2>2. seq' = seq /\ Len(pending') = Len(pending) - m
    BY ONLY <1>5, <1>8
  <2>3. seq - (Len(pending) - m) = (seq - Len(pending)) + m
    BY ONLY <1>1, <1>3
  <2> QED BY ONLY <2>1, <2>2, <2>3
<1>10. ASSUME NEW j \in 1..Len(pending') PROVE pending'[j] = EntryAt(head, (Base + m) + j)
  <2>1. m + j \in 1..Len(pending) /\ Base + (m + j) = (Base + m) + j
    BY <1>1, <1>3, <1>8
  <2>2. pending[m + j] = EntryAt(head, Base + (m + j))
    BY <2>1 DEF SpoolOK
  <2> QED BY <1>8, <2>1, <2>2
<1>11. Len(pending') <= seq
  BY <1>1, <1>3, <1>8
<1>12. SpoolOK'
  BY <1>5, <1>9, <1>10, <1>11 DEF SpoolOK
<1> QED BY <1>2, <1>9, <1>12

\* peek_audit takes all of the spool.
LEMMA PeekSpool ==
  ASSUME IntegrityInv, SpoolOK, PeekAudit
  PROVE  SpoolOK'
<1>1. /\ seq \in Nat /\ head \in Seq(Link) /\ Len(head) = seq
      /\ pending \in Seq(SpoolEntry) /\ Len(pending) \in Nat /\ Base \in Nat
      /\ Base + Len(pending) = seq
  BY SpoolFacts DEF IntegrityInv
<1>2. UNCHANGED <<seq, head, pending, minted>>
  BY DEF PeekAudit, spoolVars
<1>3. Base' = Base
  BY <1>2 DEF Base
<1>4. CASE pending = << >>
  <2>1. pc' = "seq1"
    BY <1>4 DEF PeekAudit
  <2> QED BY <1>2, <1>3, <2>1 DEF SpoolOK
<1>5. CASE pending # << >>
  <2>1. peeked' = [entries |-> pending, head |-> head] /\ Len(pending) # 0
    BY <1>1, <1>5 DEF PeekAudit
  <2>2. head = SubSeq(head, 1, Base + Len(pending))
    BY <1>1, PrefixFull
  <2>3. PeekedOK'
    BY <1>1, <1>2, <1>3, <2>1, <2>2 DEF SpoolOK, PeekedOK
  <2> QED BY <1>2, <1>3, <2>3 DEF SpoolOK
<1> QED BY <1>4, <1>5

LEMMA SpoolStep ==
  ASSUME IntegrityInv, SpoolInv, [Next]_vars
  PROVE  SpoolInv'
<1> SUFFICES ASSUME NoCrash' PROVE SpoolOK'
  BY DEF SpoolInv
<1>0. SpoolOK /\ ~(\E kind \in {"crash", "unreachable"} : CrashAndBoot(kind))
  BY NoCrashBefore DEF SpoolInv
<1>1. CASE \E event \in Event : Emit(event)
  BY <1>0, <1>1, EmitSpool
<1>2. CASE ConfirmAudit
  BY <1>0, <1>2, ConfirmSpool
<1>3. CASE PeekAudit
  BY <1>0, <1>3, PeekSpool
<1>4. CASE ReadSeq \/ ReadHead \/ SaveCheckpoint \/ PushAudit \/ PushUnavailable
  BY <1>0, <1>4, SpoolKept
     DEF ReadSeq, ReadHead, SaveCheckpoint, PushAudit, PushUnavailable, AfterSave
<1>5. CASE Ingest
  BY <1>0, <1>5, SpoolKept DEF Ingest, syncVars
<1>6. CASE GoOffline \/ GoOnline \/ PumpDies \/ SaveFails
  BY <1>0, <1>6, SpoolKept DEF GoOffline, GoOnline, PumpDies, SaveFails, AfterSave, syncVars
<1>7. CASE Tampering
  BY <1>0, <1>7, SpoolKept DEF Tampering, DropBatch, DuplicateBatch, RewriteEvent, GarbleSignature,
    ForgeBatch, syncVars
<1>8. CASE UNCHANGED vars
  BY <1>0, <1>8, SpoolKept DEF vars, syncVars
<1> QED BY <1>0, <1>1, <1>2, <1>3, <1>4, <1>5, <1>6, <1>7, <1>8 DEF Next, SyncStep

LEMMA InitSpool == Init => SpoolInv
<1> SUFFICES ASSUME Init PROVE SpoolOK
  BY DEF SpoolInv
<1>1. Len(GENESIS) = 0 /\ SubSeq(GENESIS, 1, 0) = GENESIS /\ GENESIS = << >>
  BY PrefixFull, EmptySeq DEF GENESIS
<1> QED BY <1>1 DEF Init, SpoolOK, WellNumbered

\* SpoolInv is an invariant of the specification.
LEMMA SpoolInvariant == Spec => []SpoolInv
BY IntegrityInvariant, InitSpool, SpoolStep, PTL DEF Spec

-----------------------------------------------------------------------------
(* AuditSync implements AuditDelivery as long as the device does not restart: *)
(* AuditSpool::new() starts a new chain, which the abstract log does not.     *)

\* Only the faults of the constant Faults happen.
FaultsAllowed == happened \subseteq Faults

LEMMA FaultsAllowedStep ==
  ASSUME FaultsAllowed, [Next]_vars
  PROVE  FaultsAllowed'
<1>1. CASE UNCHANGED vars
  BY <1>1 DEF FaultsAllowed, vars, faultVars
<1>2. CASE \E event \in Event : Emit(event)
  BY <1>2 DEF FaultsAllowed, Emit, faultVars
<1>3. CASE SyncStep
  BY <1>3 DEF FaultsAllowed, SyncStep, ReadSeq, ReadHead, SaveCheckpoint, PeekAudit, PushAudit,
    PushUnavailable, ConfirmAudit, faultVars
<1>4. CASE Ingest
  BY <1>4 DEF FaultsAllowed, Ingest, faultVars
<1>5. CASE GoOffline \/ GoOnline \/ PumpDies \/ SaveFails
  BY <1>5 DEF FaultsAllowed, GoOffline, GoOnline, PumpDies, SaveFails, Fault, faultVars
<1>6. CASE \E kind \in {"crash", "unreachable"} : CrashAndBoot(kind)
  BY <1>6 DEF FaultsAllowed, CrashAndBoot, Fault
<1>7. CASE Tampering
  BY <1>7 DEF FaultsAllowed, Tampering, DropBatch, DuplicateBatch, RewriteEvent, GarbleSignature,
    ForgeBatch, Fault
<1> QED BY <1>1, <1>2, <1>3, <1>4, <1>5, <1>6, <1>7 DEF Next

\* What AuditLedger::ingest does to the length of the chain it has admitted.
LEMMA LedgerGrows ==
  ASSUME IntegrityInv, [Next]_vars
  PROVE  Len(chain.head) <= Len(chain'.head)
<1>1. chain.head \in ChainHash /\ Len(chain.head) \in Nat
  BY DEF IntegrityInv, TypeOK, ChainHash
<1>2. CASE UNCHANGED chain
  BY <1>1, <1>2
<1>3. CASE Ingest /\ chain' # chain
  <2>1. PICK batch : batch = Head(wire)
    OBVIOUS
  <2>2. VerifyBatch(chain.head, chain.next_seq, batch, chain.public_key) = "Ok"
          /\ chain'.head = batch.head
    BY <1>3, <2>1 DEF Ingest, IntegrityInv, TypeOK
  <2>3. batch \in SignedSpoolBatch
    BY <1>3, <2>1, HeadTailProperties DEF Ingest, IntegrityInv, TypeOK
  <2>4. chain.next_seq = Len(chain.head) + 1 /\ chain.public_key \in Key /\ WellNumbered(chain.head)
    BY DEF IntegrityInv, TypeOK, LedgerGenuine
  <2>5. Len(batch.head) = Len(chain.head) + Len(batch.entries)
    BY <1>1, <2>2, <2>3, <2>4, AcceptedBatch
  <2>6. Len(batch.entries) \in Nat
    BY <2>3 DEF SignedSpoolBatch
  <2>7. Len(chain'.head) = Len(chain.head) + Len(batch.entries)
    BY ONLY <2>2, <2>5
  <2>8. PICK a, b : a = Len(chain.head) /\ b = Len(batch.entries)
    OBVIOUS
  <2>9. a <= a + b
    <3>1. a \in Nat
      BY ONLY <1>1, <2>8
    <3>2. b \in Nat
      BY ONLY <2>6, <2>8
    <3> QED BY ONLY <3>1, <3>2
  <2> QED BY ONLY <2>7, <2>8, <2>9
<1>4. UNCHANGED chain \/ Ingest
  BY DEF Next, vars, Emit, SyncStep, ReadSeq, ReadHead, SaveCheckpoint, PeekAudit, PushAudit,
    PushUnavailable, ConfirmAudit, GoOffline, GoOnline, PumpDies, SaveFails, CrashAndBoot, Tampering,
    DropBatch, DuplicateBatch, RewriteEvent, GarbleSignature, ForgeBatch, ledgerVars
<1> QED BY <1>2, <1>3, <1>4

LEMMA DeliveryStep ==
  ASSUME IntegrityInv, IntegrityInv', NoCrash', SpoolInv, SpoolInv', [Next]_vars
  PROVE  [Delivery!Next]_(Delivery!vars)
<1>1. SpoolOK /\ SpoolOK' /\ ~(\E kind \in {"crash", "unreachable"} : CrashAndBoot(kind))
  BY NoCrashBefore DEF SpoolInv
<1>2. head \in Seq(Link) /\ head' \in Seq(Link) /\ chain.head \in Seq(Link) /\ chain'.head \in Seq(Link)
        /\ verified = EventsOf(chain.head) /\ verified' = EventsOf(chain'.head)
  BY DEF IntegrityInv, TypeOK, ChainHash, LedgerGenuine
<1>3. CASE \E event \in Event : Emit(event)
  <2>1. PICK event \in Event : Emit(event)
    BY <1>3
  <2>2. PICK l : l = [seq |-> seq + 1, event |-> event]
    OBVIOUS
  <2>3. l \in Link /\ l.event = event
    BY <2>2 DEF Link, IntegrityInv, TypeOK
  <2>4. head' = Append(head, l) /\ verified' = verified
    BY <2>1, <2>2 DEF Emit, EntryHash, ledgerVars
  <2>5. EventsOf(head') = Append(EventsOf(head), event)
    BY <1>2, <2>3, <2>4, EventsAppend
  <2> QED BY <2>4, <2>5 DEF Delivery!Next, Delivery!Record
<1>4. CASE ~(\E event \in Event : Emit(event))
  <2>1. head' = head
    BY <1>1, <1>4 DEF Next, vars, spoolVars, SyncStep, ReadSeq, ReadHead, SaveCheckpoint, PeekAudit,
      PushAudit, PushUnavailable, ConfirmAudit, Ingest, GoOffline, GoOnline, PumpDies, SaveFails, Tampering,
      DropBatch, DuplicateBatch, RewriteEvent, GarbleSignature, ForgeBatch
  <2>2. PICK a, b : a = Len(chain.head) /\ b = Len(chain'.head)
    OBVIOUS
  <2>3. a \in Nat /\ b \in Nat /\ a <= b
    BY <1>2, <2>2, LedgerGrows
  <2>4. b <= Len(head) /\ chain.head = SubSeq(head, 1, a) /\ chain'.head = SubSeq(head, 1, b)
    <3>1. chain.head \in minted /\ chain'.head \in minted'
      BY DEF IntegrityInv, LedgerGenuine
    <3>2. chain.head = SubSeq(head, 1, a)
      BY <1>1, <2>2, <3>1 DEF SpoolOK
    <3>3. b <= Len(head') /\ chain'.head = SubSeq(head', 1, b)
      BY <1>1, <2>2, <3>1 DEF SpoolOK
    <3> QED BY <2>1, <3>2, <3>3
  <2>5. a \in 0..Len(head) /\ b \in 0..Len(head)
    BY <1>2, <2>3, <2>4
  <2>6. verified = SubSeq(EventsOf(head), 1, a) /\ verified' = SubSeq(EventsOf(head), 1, b)
    BY <1>2, <2>4, <2>5, EventsPrefix
  <2>7. Len(verified) = a /\ Len(EventsOf(head)) = Len(head)
    BY <1>2, <2>2, EventsType
  <2>8. CASE a = b
    BY <2>1, <2>6, <2>8 DEF Delivery!vars
  <2>9. CASE a # b
    <3>1. b \in (Len(verified) + 1)..Len(EventsOf(head))
      BY <1>2, <2>3, <2>4, <2>7, <2>9
    <3> QED BY <2>1, <2>6, <3>1 DEF Delivery!Next, Delivery!Deliver
  <2> QED BY <2>8, <2>9
<1> QED BY <1>3, <1>4

\* Spool, sync_once and ledger implement AuditDelivery in every life of the daemon
\* process: whatever the path drops, repeats, rewrites or forges, and however the link
\* and the checkpoint fail, the ledger holds a beginning of the device's log and each
\* ingest only extends it.
THEOREM LedgerHoldsPrefix ==
  ASSUME Faults \cap {"crash", "unreachable"} = {}
  PROVE  Spec => Refinement
<1>1. Init => Delivery!Init
  <2> SUFFICES ASSUME Init PROVE Delivery!Init
    OBVIOUS
  <2>1. EventsOf(head) = << >>
    BY DEF Init, GENESIS, EventsOf
  <2> QED BY <2>1 DEF Init, Delivery!Init
<1>2. Spec => []FaultsAllowed
  <2>1. Init => FaultsAllowed
    BY DEF Init, FaultsAllowed
  <2> QED BY <2>1, FaultsAllowedStep, PTL DEF Spec
<1>3. FaultsAllowed => NoCrash
  BY DEF FaultsAllowed, NoCrash
<1> QED BY <1>1, <1>2, <1>3, IntegrityInvariant, SpoolInvariant, DeliveryStep, PTL
        DEF Spec, Refinement, Delivery!Spec

-----------------------------------------------------------------------------
(* Nothing is lost: the batches on the link continue the ledger's chain one  *)
(* after the other, and the spool continues the last of them.                *)

Calm == happened \subseteq {"offline", "disk"}

\* A batch carries the entries after Lo(b), up to Hi(b).
Lo(b) == Len(b.head) - Len(b.entries)
Hi(b) == Len(b.head)

HonestBatch(b) ==
  /\ Len(b.entries) \in 1..Len(b.head) /\ Len(b.head) <= seq
  /\ b.head = SubSeq(head, 1, Len(b.head))
  /\ \A j \in 1..Len(b.entries) : b.entries[j] = EntryAt(head, Lo(b) + j)
  /\ b.signature = [by |-> DeviceKey, over |-> b.head]

\* The number of the last entry that sync_once has given to the link.
Shipped == IF pc = "confirm" THEN Base + Len(peeked.entries) ELSE Base

PathEnd == IF wire = << >> THEN Len(chain.head) ELSE Hi(wire[Len(wire)])

PathOK ==
  /\ link \in {"up", "down"} /\ alerts = {}
  /\ \A i \in 1..Len(wire) : HonestBatch(wire[i])
  /\ wire # << >> => Lo(wire[1]) = Len(chain.head)
  /\ \A i \in 2..Len(wire) : Lo(wire[i]) = Hi(wire[i - 1])
  /\ PathEnd = Shipped
  /\ \A n \in Nat : Len(chain.head) < n /\ n <= Shipped =>
       \E i \in 1..Len(wire) : Lo(wire[i]) < n /\ n <= Hi(wire[i])

PathInv == Calm => PathOK

\* A step that no fault but an outage or a failed save has preceded is none of the others.
LEMMA CalmBefore ==
  ASSUME [Next]_vars, Calm'
  PROVE  /\ Calm /\ NoCrash /\ NoCrash' /\ ~PumpDies /\ ~Tampering
         /\ ~(\E kind \in {"crash", "unreachable"} : CrashAndBoot(kind))
<1>1. Calm /\ NoCrash /\ NoCrash'
  BY FaultsStay DEF Calm, NoCrash
<1>2. ~PumpDies
  BY DEF PumpDies, Fault, Calm
<1>3. ~Tampering
  <2>1. \A kind \in {"drop", "duplicate", "corrupt", "garble", "forge"} : ~Fault(kind)
    BY DEF Fault, Calm
  <2> QED BY <2>1 DEF Tampering, DropBatch, DuplicateBatch, RewriteEvent, GarbleSignature, ForgeBatch
<1> QED BY <1>1, <1>2, <1>3, NoCrashBefore

LEMMA HonestNumbers ==
  ASSUME NEW b \in SignedSpoolBatch, HonestBatch(b)
  PROVE  /\ Len(b.head) \in Nat /\ Len(b.entries) \in Nat /\ Lo(b) \in Nat /\ Hi(b) \in Nat
         /\ Lo(b) < Hi(b) /\ Lo(b) + Len(b.entries) = Hi(b)
<1>1. Len(b.head) \in Nat /\ Len(b.entries) \in Nat
  BY DEF SignedSpoolBatch, ChainHash
<1>2. Len(b.entries) \in 1..Len(b.head)
  BY DEF HonestBatch
<1>3. PICK m, n : m = Len(b.head) /\ n = Len(b.entries)
  OBVIOUS
<1>4. m \in Nat /\ n \in Nat /\ n \in 1..m
  BY ONLY <1>1, <1>2, <1>3
<1>5. m - n \in Nat /\ m - n < m /\ (m - n) + n = m
  BY ONLY <1>4
<1>6. Lo(b) = m - n /\ Hi(b) = m
  BY ONLY <1>3 DEF Lo, Hi
<1> QED BY ONLY <1>3, <1>4, <1>5, <1>6

LEMMA HonestStays ==
  ASSUME TypeOK, SpoolOK, NEW event \in Event, Emit(event), NEW b \in SignedSpoolBatch, HonestBatch(b)
  PROVE  HonestBatch(b)'
<1>1. seq \in Nat /\ head \in Seq(Link) /\ Len(head) = seq
  BY SpoolFacts
<1>2. PICK l : l = [seq |-> seq + 1, event |-> event]
  OBVIOUS
<1>3. l \in Link /\ head' = Append(head, l) /\ seq' = seq + 1
  BY <1>1, <1>2 DEF Link, Emit, EntryHash
<1>4. /\ Len(b.head) \in Nat /\ Len(b.entries) \in Nat /\ Lo(b) \in Nat
      /\ Lo(b) + Len(b.entries) = Len(b.head) /\ Len(b.head) <= seq
  BY HonestNumbers DEF HonestBatch, Hi
<1>5. SubSeq(head', 1, Len(b.head)) = SubSeq(head, 1, Len(b.head))
  <2>1. Len(b.head) \in 0..Len(head)
    BY <1>1, <1>4
  <2> QED BY <1>1, <1>3, <2>1, PrefixAppend
<1>6. ASSUME NEW j \in 1..Len(b.entries) PROVE b.entries[j] = EntryAt(head', Lo(b) + j)
  <2>1. Lo(b) + j \in 1..Len(head)
    BY <1>1, <1>4
  <2>2. EntryAt(head', Lo(b) + j) = EntryAt(head, Lo(b) + j)
    BY <1>1, <1>3, <2>1, EntryAtStable
  <2>3. b.entries[j] = EntryAt(head, Lo(b) + j)
    BY DEF HonestBatch
  <2> QED BY ONLY <2>2, <2>3
<1>7. Len(b.head) <= seq'
  BY <1>1, <1>3, <1>4
<1>8. /\ Len(b.entries) \in 1..Len(b.head) /\ b.head = SubSeq(head, 1, Len(b.head))
      /\ b.signature = [by |-> DeviceKey, over |-> b.head]
  BY DEF HonestBatch
<1>9. b.head = SubSeq(head', 1, Len(b.head))
  BY ONLY <1>5, <1>8
<1> QED BY ONLY <1>6, <1>7, <1>8, <1>9 DEF HonestBatch, Lo

\* A step that leaves the link's queue and the ledger alone.
LEMMA PathKept ==
  ASSUME PathOK, UNCHANGED <<wire, chain, alerts>>, link' \in {"up", "down"}, Shipped' = Shipped,
         \A i \in 1..Len(wire) : HonestBatch(wire[i])'
  PROVE  PathOK'
<1>1. PathEnd' = PathEnd
  BY DEF PathEnd, Hi
<1> QED BY <1>1 DEF PathOK, Lo, Hi

LEMMA HonestSame ==
  ASSUME UNCHANGED <<seq, head>>, NEW b, HonestBatch(b)
  PROVE  HonestBatch(b)'
BY DEF HonestBatch, Lo

LEMMA PathEmit ==
  ASSUME IntegrityInv, SpoolOK, PathOK, NEW event \in Event, Emit(event)
  PROVE  PathOK'
<1>1. UNCHANGED <<wire, chain, alerts, link, pc, peeked>>
  BY DEF Emit, syncVars, ledgerVars
<1>2. Base' = Base
  BY EmitSpool
<1>3. Shipped' = Shipped
  BY <1>1, <1>2 DEF Shipped
<1>4. ASSUME NEW i \in 1..Len(wire) PROVE HonestBatch(wire[i])'
  <2>1. PICK b : b = wire[i]
    OBVIOUS
  <2>2. b \in SignedSpoolBatch /\ HonestBatch(b) /\ TypeOK
    BY <2>1 DEF IntegrityInv, TypeOK, PathOK
  <2>3. HonestBatch(b)'
    BY <2>2, HonestStays
  <2>4. wire[i]' = b
    BY <1>1, <2>1
  <2> QED BY ONLY <2>3, <2>4 DEF HonestBatch, Lo
<1> QED BY <1>1, <1>3, <1>4, PathKept DEF PathOK

\* Steps of sync_once other than the push, and outages.
LEMMA PathQuiet ==
  ASSUME IntegrityInv, SpoolOK, PathOK, UNCHANGED <<wire, chain, alerts, seq, head>>,
         link' \in {"up", "down"}, Shipped' = Shipped
  PROVE  PathOK'
<1>1. ASSUME NEW i \in 1..Len(wire) PROVE HonestBatch(wire[i])'
  <2>1. PICK b : b = wire[i]
    OBVIOUS
  <2>2. HonestBatch(b)'
    BY <2>1, HonestSame DEF PathOK
  <2>3. wire[i]' = b
    BY <2>1
  <2> QED BY ONLY <2>2, <2>3 DEF HonestBatch, Lo
<1> QED BY <1>1, PathKept

\* The batch pushed begins where the link's queue ends.
LEMMA PathPush ==
  ASSUME IntegrityInv, SpoolOK, PathOK, PushAudit
  PROVE  PathOK'
<1>1. /\ seq \in Nat /\ head \in Seq(Link) /\ Len(head) = seq
      /\ pending \in Seq(SpoolEntry) /\ Len(pending) \in Nat /\ Base \in Nat
      /\ Base + Len(pending) = seq
      /\ peeked.entries \in Seq(SpoolEntry) /\ Len(peeked.entries) \in Nat
  BY SpoolFacts DEF IntegrityInv
<1>2. pc = "push" /\ pc' = "confirm" /\ UNCHANGED <<seq, head, pending, peeked, chain, alerts, link>>
        /\ link \in {"up", "down"} /\ link # "sink"
  BY DEF PushAudit, spoolVars, ledgerVars, PathOK
<1>3. PICK b : b = SignBatch(DeviceKey, peeked.entries, peeked.head)
  OBVIOUS
<1>4. wire' = Append(wire, b)
  BY <1>2, <1>3 DEF PushAudit
<1>5. b.entries = peeked.entries /\ b.head = peeked.head
        /\ b.signature = [by |-> DeviceKey, over |-> peeked.head]
  BY <1>3 DEF SignBatch
<1>6. b \in SignedSpoolBatch
  BY <1>3, SyncAssumption DEF SignBatch, SignedSpoolBatch, Signature, IntegrityInv, TypeOK
<1>7. PICK m : m = Len(peeked.entries)
  OBVIOUS
<1>8. /\ m \in Nat /\ m \in 1..Len(pending)
      /\ \A j \in 1..m : peeked.entries[j] = EntryAt(head, Base + j)
      /\ peeked.head = SubSeq(head, 1, Base + m)
  <2>1. PeekedOK
    BY <1>2 DEF SpoolOK
  <2> QED BY <1>1, <1>7, <2>1 DEF PeekedOK
<1>9. Base + m \in 0..seq /\ (Base + m) - m = Base /\ Base < Base + m /\ Base + m \in Nat /\ m \in 1..(Base + m)
  BY <1>1, <1>8
<1>10. Len(b.head) = Base + m /\ Len(b.entries) = m
  BY <1>1, <1>5, <1>7, <1>8, <1>9, PrefixFacts
<1>11. Lo(b) = Base /\ Hi(b) = Base + m
  BY <1>9, <1>10 DEF Lo, Hi
<1>12. HonestBatch(b)'
  <2>1. HonestBatch(b)
    BY <1>5, <1>8, <1>9, <1>10, <1>11 DEF HonestBatch
  <2> QED BY <1>2, <2>1, HonestSame
<1>13. /\ Len(wire) \in Nat /\ Len(wire') = Len(wire) + 1 /\ wire'[Len(wire) + 1] = b
       /\ \A i \in 1..Len(wire) : wire'[i] = wire[i]
  BY <1>4, <1>6, AppendProperties DEF IntegrityInv, TypeOK
<1>14. PICK k : k = Len(wire)
  OBVIOUS
<1>15. Shipped = Base /\ Shipped' = Base + m
  <2>1. Base' = Base
    BY <1>2 DEF Base
  <2> QED BY <1>2, <1>7, <2>1 DEF Shipped
<1>16. wire' # << >> /\ PathEnd' = Base + m
  BY <1>11, <1>13 DEF PathEnd, Hi
<1>17. PathEnd = Base
  BY <1>15 DEF PathOK
<1>18. ASSUME NEW i \in 1..Len(wire') PROVE HonestBatch(wire[i])'
  <2>1. PICK c : c = wire'[i]
    OBVIOUS
  <2>2. HonestBatch(c)'
    <3>1. CASE i = Len(wire) + 1
      BY <1>12, <1>13, <2>1, <3>1
    <3>2. CASE i # Len(wire) + 1
      <4>1. i \in 1..Len(wire) /\ c = wire[i]
        BY <1>13, <2>1, <3>2
      <4>2. HonestBatch(c)
        BY <4>1 DEF PathOK
      <4> QED BY <1>2, <4>2, HonestSame
    <3> QED BY <3>1, <3>2
  <2> QED BY ONLY <2>1, <2>2 DEF HonestBatch, Lo
<1>19. Lo(wire'[1]) = Len(chain'.head)
  <2>1. CASE wire = << >>
    <3>1. wire'[1] = b
      BY <1>13, <2>1
    <3>2. PathEnd = Len(chain.head)
      BY <2>1 DEF PathEnd
    <3> QED BY <1>2, <1>11, <1>17, <3>1, <3>2
  <2>2. CASE wire # << >>
    <3>1. 1 \in 1..Len(wire)
      BY <1>13, <2>2 DEF IntegrityInv, TypeOK
    <3>2. wire'[1] = wire[1] /\ Lo(wire[1]) = Len(chain.head)
      BY <1>13, <2>2, <3>1 DEF PathOK
    <3> QED BY <1>2, <3>2
  <2> QED BY <2>1, <2>2
<1>20. ASSUME NEW i \in 2..Len(wire') PROVE Lo(wire'[i]) = Hi(wire'[i - 1])
  <2>1. CASE i = Len(wire) + 1
    <3>1. wire'[i] = b /\ i - 1 = Len(wire) /\ Len(wire) \in 1..Len(wire) /\ wire # << >>
      BY <1>13, <2>1
    <3>2. wire'[i - 1] = wire[Len(wire)]
      BY <1>13, <3>1
    <3>3. Hi(wire[Len(wire)]) = Base
      BY <1>17, <3>1 DEF PathEnd
    <3> QED BY <1>11, <3>1, <3>2, <3>3
  <2>2. CASE i # Len(wire) + 1
    <3>1. i \in 2..Len(wire) /\ i \in 1..Len(wire) /\ i - 1 \in 1..Len(wire)
      BY <1>13, <2>2
    <3>2. wire'[i] = wire[i] /\ wire'[i - 1] = wire[i - 1]
      BY <1>13, <3>1
    <3> QED BY <3>1, <3>2 DEF PathOK
  <2> QED BY <2>1, <2>2
<1>21. ASSUME NEW n \in Nat, Len(chain'.head) < n, n <= Shipped'
       PROVE  \E i \in 1..Len(wire') : Lo(wire'[i]) < n /\ n <= Hi(wire'[i])
  <2>1. CASE n <= Base
    <3>1. PICK i \in 1..Len(wire) : Lo(wire[i]) < n /\ n <= Hi(wire[i])
      BY <1>2, <1>15, <1>21, <2>1 DEF PathOK
    <3>2. i \in 1..Len(wire') /\ wire'[i] = wire[i]
      BY <1>13, <3>1
    <3> QED BY <3>1, <3>2
  <2>2. CASE ~(n <= Base)
    <3>1. Lo(b) < n /\ n <= Hi(b)
      BY <1>1, <1>9, <1>11, <1>15, <1>21, <2>2
    <3>2. Len(wire) + 1 \in 1..Len(wire')
      BY <1>13
    <3> QED BY <1>13, <3>1, <3>2
  <2> QED BY <2>1, <2>2
<1>22. link' \in {"up", "down"} /\ alerts' = {} /\ PathEnd' = Shipped'
  BY <1>2, <1>15, <1>16 DEF PathOK
<1> QED BY ONLY <1>18, <1>19, <1>20, <1>21, <1>22 DEF PathOK, Lo, Hi

\* The ledger accepts the first batch of the queue, which continues its chain.
LEMMA PathIngest ==
  ASSUME IntegrityInv, SpoolOK, PathOK, Ingest
  PROVE  PathOK'
<1>1. UNCHANGED <<seq, head, pending, pc, peeked, link>> /\ wire # << >> /\ wire' = Tail(wire)
  BY DEF Ingest, spoolVars, syncVars
<1>2. PICK b : b = wire[1]
  OBVIOUS
<1>3. /\ wire \in Seq(SignedSpoolBatch) /\ b = Head(wire) /\ Len(wire) \in Nat /\ 1 \in 1..Len(wire)
      /\ b \in SignedSpoolBatch
  BY <1>1, <1>2 DEF IntegrityInv, TypeOK
<1>4. HonestBatch(b) /\ Lo(b) = Len(chain.head)
  BY <1>1, <1>2, <1>3 DEF PathOK
<1>5. /\ Len(b.head) \in Nat /\ Len(b.entries) \in Nat /\ Lo(b) \in Nat /\ Lo(b) < Hi(b)
      /\ Lo(b) + Len(b.entries) = Len(b.head) /\ Hi(b) = Len(b.head) /\ Len(b.entries) # 0
  <2>1. Hi(b) = Len(b.head) /\ Len(b.entries) \in 1..Len(b.head)
    BY <1>4 DEF Hi, HonestBatch
  <2> QED BY <1>3, <1>4, <2>1, HonestNumbers
<1>6. /\ head \in Seq(Link) /\ Len(head) = seq /\ WellNumbered(head) /\ DeviceKey \in Key
      /\ chain.public_key = DeviceKey /\ chain.next_seq = Len(chain.head) + 1
      /\ chain.head = SubSeq(head, 1, Len(chain.head))
  BY SyncAssumption DEF IntegrityInv, TypeOK, ChainHash, SpoolOK, LedgerGenuine
<1>7. VerifyBatch(chain.head, chain.next_seq, b, chain.public_key) = "Ok"
  <2>1. PICK lo, N, key : lo = Lo(b) /\ N = Len(b.entries) /\ key = DeviceKey
    OBVIOUS
  <2>2. /\ Len(b.head) <= seq /\ b.head = SubSeq(head, 1, Len(b.head))
        /\ \A j \in 1..Len(b.entries) : b.entries[j] = EntryAt(head, Lo(b) + j)
        /\ b.signature = [by |-> DeviceKey, over |-> b.head]
    BY <1>4 DEF HonestBatch
  <2>3. /\ lo \in Nat /\ N \in Nat /\ N # 0 /\ lo + N = Len(b.head) /\ lo + N <= Len(head)
        /\ N = Len(b.entries) /\ key \in Key
    BY ONLY <1>5, <1>6, <2>1, <2>2
  <2>4. /\ \A j \in 1..N : b.entries[j] = EntryAt(head, lo + j)
        /\ b.head = SubSeq(head, 1, lo + N) /\ b.signature = [by |-> key, over |-> b.head]
    BY ONLY <2>1, <2>2, <2>3
  <2>5. VerifyBatch(SubSeq(head, 1, lo), lo + 1, b, key) = "Ok"
    BY ONLY <1>6, <2>3, <2>4, HonestAccepted
  <2> QED BY ONLY <1>4, <1>6, <2>1, <2>5
<1>8. chain'.head = b.head /\ alerts' = alerts
  BY <1>3, <1>7 DEF Ingest, IntegrityInv, TypeOK
<1>9. /\ Len(wire') = Len(wire) - 1 /\ wire' \in Seq(SignedSpoolBatch)
      /\ \A i \in 1..(Len(wire) - 1) : wire'[i] = wire[i + 1]
  BY <1>1, <1>3, HeadTailProperties
<1>10. PICK k \in Nat : Len(wire) = k + 1
  <2>1. Len(wire) - 1 \in Nat /\ Len(wire) = (Len(wire) - 1) + 1
    BY <1>3
  <2> QED BY <2>1
<1>11. Len(wire') = k /\ \A i \in 1..k : wire'[i] = wire[i + 1]
  BY <1>9, <1>10
<1>12. Shipped' = Shipped
  BY <1>1 DEF Shipped, Base
<1>13. ASSUME NEW i \in 1..Len(wire') PROVE HonestBatch(wire[i])'
  <2>1. PICK c : c = wire'[i]
    OBVIOUS
  <2>2. c = wire[i + 1] /\ i + 1 \in 1..Len(wire)
    BY <1>10, <1>11, <2>1
  <2>3. HonestBatch(c)
    BY <2>2 DEF PathOK
  <2>4. HonestBatch(c)'
    BY <1>1, <2>3, HonestSame
  <2> QED BY ONLY <2>1, <2>4 DEF HonestBatch, Lo
<1>14. ASSUME wire' # << >> PROVE Lo(wire'[1]) = Len(chain'.head)
  <2>1. 1 \in 1..k
    <3>1. k # 0
      BY <1>9, <1>11, <1>14
    <3> QED BY <3>1
  <2>2. wire'[1] = wire[2] /\ 2 \in 2..Len(wire)
    BY <1>10, <1>11, <2>1
  <2>3. Lo(wire[2]) = Hi(wire[2 - 1]) /\ 2 - 1 = 1
    BY <2>2 DEF PathOK
  <2> QED BY <1>2, <1>5, <1>8, <2>2, <2>3
<1>15. ASSUME NEW i \in 2..Len(wire') PROVE Lo(wire'[i]) = Hi(wire'[i - 1])
  <2>1. i \in 1..k /\ i - 1 \in 1..k /\ i + 1 \in 2..Len(wire) /\ (i - 1) + 1 = (i + 1) - 1
    BY <1>10, <1>11
  <2>2. wire'[i] = wire[i + 1] /\ wire'[i - 1] = wire[(i + 1) - 1]
    BY <1>11, <2>1
  <2>3. Lo(wire[i + 1]) = Hi(wire[(i + 1) - 1])
    BY <2>1 DEF PathOK
  <2> QED BY <2>2, <2>3
<1>16. PathEnd' = PathEnd
  <2>1. CASE k = 0
    <3>1. wire' = << >> /\ Len(wire) = 1
      BY <1>9, <1>10, <1>11, <2>1
    <3>2. PathEnd' = Len(chain'.head) /\ PathEnd = Hi(wire[1])
      BY <1>1, <3>1 DEF PathEnd
    <3> QED BY <1>2, <1>5, <1>8, <3>2
  <2>2. CASE k # 0
    <3>1. wire' # << >> /\ k \in 1..k
      BY <1>9, <1>11, <2>2
    <3>2. wire'[Len(wire')] = wire[Len(wire)]
      BY <1>10, <1>11, <3>1
    <3> QED BY <1>1, <3>1, <3>2 DEF PathEnd, Hi
  <2> QED BY <2>1, <2>2
<1>17. ASSUME NEW n \in Nat, Len(chain'.head) < n, n <= Shipped'
       PROVE  \E i \in 1..Len(wire') : Lo(wire'[i]) < n /\ n <= Hi(wire'[i])
  <2>1. Len(chain.head) < n /\ ~(n <= Hi(b))
    BY <1>4, <1>5, <1>8, <1>17
  <2>2. PICK i \in 1..Len(wire) : Lo(wire[i]) < n /\ n <= Hi(wire[i])
    BY <1>12, <1>17, <2>1 DEF PathOK
  <2>3. i # 1
    BY <1>2, <2>1, <2>2
  <2>4. i - 1 \in 1..k /\ (i - 1) + 1 = i
    BY <1>10, <2>3
  <2>5. i - 1 \in 1..Len(wire') /\ wire'[i - 1] = wire[i]
    BY <1>11, <2>4
  <2> QED BY <2>2, <2>5
<1>18. link' \in {"up", "down"} /\ alerts' = {} /\ PathEnd' = Shipped'
  BY <1>1, <1>8, <1>12, <1>16 DEF PathOK
<1> QED BY ONLY <1>13, <1>14, <1>15, <1>17, <1>18 DEF PathOK, Lo, Hi

LEMMA PathStep ==
  ASSUME IntegrityInv, SpoolInv, PathInv, [Next]_vars
  PROVE  PathInv'
<1> SUFFICES ASSUME Calm' PROVE PathOK'
  BY DEF PathInv
<1>0. /\ SpoolOK /\ PathOK /\ ~PumpDies /\ ~Tampering
      /\ ~(\E kind \in {"crash", "unreachable"} : CrashAndBoot(kind))
  BY CalmBefore DEF SpoolInv, PathInv
<1>a. link \in {"up", "down"}
  BY <1>0 DEF PathOK
<1>1. CASE \E event \in Event : Emit(event)
  BY <1>0, <1>1, PathEmit
<1>2. CASE PushAudit
  BY <1>0, <1>2, PathPush
<1>3. CASE Ingest
  BY <1>0, <1>3, PathIngest
<1>4. CASE ConfirmAudit
  <2>1. Base' = Base + Len(peeked.entries)
    BY <1>0, <1>4, ConfirmSpool
  <2>2. Shipped' = Shipped
    BY <1>4, <2>1 DEF ConfirmAudit, Shipped
  <2> QED BY <1>0, <1>a, <1>4, <2>2, PathQuiet DEF ConfirmAudit, ledgerVars
<1>5. CASE \/ ReadSeq \/ ReadHead \/ SaveCheckpoint \/ PeekAudit \/ PushUnavailable
           \/ GoOffline \/ GoOnline \/ SaveFails \/ UNCHANGED vars
  <2>1. UNCHANGED <<seq, head, pending, wire, chain, alerts>> /\ link' \in {"up", "down"}
    BY <1>a, <1>5 DEF ReadSeq, ReadHead, SaveCheckpoint, PeekAudit, PushUnavailable, GoOffline, GoOnline,
      SaveFails, vars, spoolVars, ledgerVars
  <2>2. pc' = "confirm" <=> pc = "confirm"
    BY <1>5 DEF ReadSeq, ReadHead, SaveCheckpoint, PeekAudit, PushUnavailable, GoOffline, GoOnline,
      SaveFails, AfterSave, vars, syncVars
  <2>3. pc = "confirm" => peeked' = peeked
    BY <1>5 DEF ReadSeq, ReadHead, SaveCheckpoint, PeekAudit, PushUnavailable, GoOffline, GoOnline,
      SaveFails, vars, syncVars
  <2>4. Base' = Base
    BY <2>1 DEF Base
  <2>5. Shipped' = Shipped
    BY <2>2, <2>3, <2>4 DEF Shipped
  <2> QED BY <1>0, <2>1, <2>5, PathQuiet
<1> QED BY <1>0, <1>1, <1>2, <1>3, <1>4, <1>5 DEF Next, SyncStep

LEMMA InitPath == Init => PathInv
<1> SUFFICES ASSUME Init PROVE PathOK
  BY DEF PathInv
<1>1. Len(GENESIS) = 0
  BY DEF GENESIS
<1>2. Shipped = 0 /\ PathEnd = 0 /\ Len(chain.head) = 0
  <2>1. Len(chain.head) = 0
    BY <1>1 DEF Init
  <2>2. Base = 0
    <3>1. seq = 0 /\ Len(pending) = 0
      BY DEF Init
    <3> QED BY <3>1 DEF Base
  <2> QED BY <2>1, <2>2 DEF Init, Shipped, PathEnd
<1>3. wire = << >> /\ link = "up" /\ alerts = {}
  BY DEF Init
<1>4. \A n \in Nat : ~(0 < n /\ n <= 0)
  OBVIOUS
<1> QED BY <1>2, <1>3, <1>4 DEF PathOK

LEMMA PathInvariant == Spec => []PathInv
BY IntegrityInvariant, SpoolInvariant, InitPath, PathStep, PTL DEF Spec

LEMMA NoneLost ==
  ASSUME IntegrityInv, SpoolInv, PathInv
  PROVE  NothingLost
<1> SUFFICES ASSUME Calm, NEW n \in 1..Len(head), ~InLedger(n), ~OnWire(n)
             PROVE  InSpool(n)
  BY DEF NothingLost, Lost, Calm
<1>1. SpoolOK /\ PathOK
  BY DEF SpoolInv, PathInv, NoCrash, Calm
<1>2. /\ seq \in Nat /\ head \in Seq(Link) /\ Len(head) = seq
      /\ pending \in Seq(SpoolEntry) /\ Len(pending) \in Nat /\ Base \in Nat
      /\ Base + Len(pending) = seq /\ Len(peeked.entries) \in Nat
  BY <1>1, SpoolFacts DEF IntegrityInv
<1>3. n \in Nat /\ n \in 1..seq
  BY <1>2
<1>4. ~(n <= Len(chain.head))
  <2> SUFFICES ASSUME n <= Len(chain.head) PROVE FALSE
    OBVIOUS
  <2>1. PICK c : c = Len(chain.head)
    OBVIOUS
  <2>2. /\ chain.head \in Seq(Link) /\ c \in Nat /\ c <= seq /\ chain.head = SubSeq(head, 1, c)
        /\ verified = EventsOf(chain.head)
    BY SMTT(30), <1>1, <2>1 DEF IntegrityInv, TypeOK, ChainHash, SpoolOK, LedgerGenuine
  <2>3. n \in 1..c /\ c \in 0..Len(head)
    BY <1>2, <1>3, <2>1, <2>2
  <2>4. chain.head[n] = head[n]
    BY <1>2, <2>2, <2>3, PrefixFacts
  <2>5. verified[n] = chain.head[n].event /\ Len(verified) = c
    BY <2>1, <2>2, <2>3, EventsType
  <2> QED BY <2>1, <2>3, <2>4, <2>5 DEF InLedger
<1>5. ~(n <= Shipped)
  <2> SUFFICES ASSUME n <= Shipped PROVE FALSE
    OBVIOUS
  <2>1. Len(chain.head) < n
    BY <1>3, <1>4 DEF IntegrityInv, TypeOK, ChainHash
  <2>2. PICK i \in 1..Len(wire) : Lo(wire[i]) < n /\ n <= Hi(wire[i])
    BY <1>1, <1>3, <2>1 DEF PathOK
  <2>3. PICK b : b = wire[i]
    OBVIOUS
  <2>4. b \in SignedSpoolBatch /\ HonestBatch(b)
    BY <1>1, <2>3 DEF IntegrityInv, TypeOK, PathOK
  <2>5. /\ Len(b.entries) \in Nat /\ Lo(b) \in Nat /\ Hi(b) \in Nat
        /\ Lo(b) + Len(b.entries) = Hi(b)
    BY <2>4, HonestNumbers
  <2>6. PICK lo, m : lo = Lo(b) /\ m = Len(b.entries)
    OBVIOUS
  <2>7. n - lo \in 1..m /\ lo + (n - lo) = n
    BY <1>3, <2>2, <2>3, <2>5, <2>6
  <2>8. b.entries[n - lo] = EntryAt(head, n)
    <3>1. \A j \in 1..m : b.entries[j] = EntryAt(head, lo + j)
      BY <2>4, <2>6 DEF HonestBatch
    <3>2. b.entries[n - lo] = EntryAt(head, lo + (n - lo))
      BY ONLY <2>7, <3>1
    <3> QED BY ONLY <2>7, <3>2
  <2>9. b.entries[n - lo].seq = n /\ b.entries[n - lo].event = head[n].event
    BY ONLY <2>8 DEF EntryAt
  <2> QED BY <2>3, <2>6, <2>7, <2>9 DEF OnWire
<1>6. Base < n
  <2>1. Base <= Shipped /\ Shipped \in Nat
    BY <1>2 DEF Shipped
  <2> HIDE DEF Base
  <2> QED BY <1>2, <1>3, <1>5, <2>1
<1>7. n - Base \in 1..Len(pending) /\ Base + (n - Base) = n
  BY <1>2, <1>3, <1>6
<1>8. pending[n - Base] = EntryAt(head, n)
  <2>1. \A j \in 1..Len(pending) : pending[j] = EntryAt(head, Base + j)
    BY <1>1 DEF SpoolOK
  <2>2. pending[n - Base] = EntryAt(head, Base + (n - Base))
    BY ONLY <1>7, <2>1
  <2> QED BY ONLY <1>7, <2>2
<1>9. pending[n - Base].seq = n /\ pending[n - Base].event = head[n].event
  BY ONLY <1>8 DEF EntryAt
<1> QED BY <1>7, <1>9 DEF InSpool

\* No event is lost to the interleaving of emit, peek, push and confirm_through, nor
\* to refused pushes and failed saves: each one emitted is in the ledger, on the link
\* or still in the spool, for every number of events and every order of the steps.
THEOREM TrimKeepsAll == Spec => []NothingLost
BY IntegrityInvariant, SpoolInvariant, PathInvariant, NoneLost, PTL

-----------------------------------------------------------------------------
(* Alerts mean what they say. *)

SoundEntry == {e \in SpoolEntry : e.hash = EntryHash(e.seq, e.prev, e.event)}

\* The entries are linked to one another, to the head, and to the device's chain
\* where they start, whatever events they carry.
ChainedBatch(b) ==
  /\ Len(b.entries) # 0
  /\ b.entries[1].seq \in 1..(seq + 1)
  /\ b.entries[1].prev = SubSeq(head, 1, b.entries[1].seq - 1)
  /\ \A j \in 2..Len(b.entries) : b.entries[j].prev = b.entries[j - 1].hash
  /\ b.entries[Len(b.entries)].hash = b.head

\* A batch has no defect that no fault so far accounts for.
Explained ==
  {b \in SignedSpoolBatch :
     /\ "corrupt" \notin happened => b.entries \in Seq(SoundEntry)
     /\ "forge" \notin happened =>
          b.signature.over = b.head /\ b.signature.by \in {DeviceKey, NoKey}
     /\ "garble" \notin happened => b.signature.by # NoKey
     /\ NoCrash => ChainedBatch(b)}

KindsExplained ==
  /\ "tampered" \in alerts => "corrupt" \in happened
  /\ "bad_signature" \in alerts => "forge" \in happened
  /\ "rejected" \in alerts => happened \cap {"garble", "crash", "unreachable"} # {}

AlertInv ==
  /\ wire \in Seq(Explained)
  /\ "corrupt" \notin happened =>
       /\ pending \in Seq(SoundEntry)
       /\ peeked.entries \in Seq(SoundEntry)
       /\ ckpt.pending \in Seq(SoundEntry)
  /\ KindsExplained

\* What can come onto the path: batches of a set that a push, and whoever holds the
\* path, do not leave.
LEMMA WireMoves ==
  ASSUME NEW G, G \subseteq SignedSpoolBatch, wire \in Seq(G), [Next]_vars,
         PushAudit => SignBatch(DeviceKey, peeked.entries, peeked.head) \in G,
         \A i \in 1..Len(wire) :
           GarbleSignature(i) => [wire[i] EXCEPT !.signature.by = NoKey] \in G,
         \A i \in 1..Len(wire) : \A j \in 1..Len(wire[i].entries), event \in Event :
           RewriteEvent(i, j, event) =>
             [wire[i] EXCEPT !.entries =
                [wire[i].entries EXCEPT ![j] = [wire[i].entries[j] EXCEPT !.event = event]]] \in G,
         \A key \in Key, event \in Event :
           ForgeBatch(key, event) =>
             SignBatch(key, <<[seq |-> chain.next_seq, prev |-> chain.head, event |-> event,
                               hash |-> EntryHash(chain.next_seq, chain.head, event)]>>,
                       EntryHash(chain.next_seq, chain.head, event)) \in G
  PROVE  wire' \in Seq(G)
<1>1. Len(wire) \in Nat /\ \A i \in 1..Len(wire) : wire[i] \in G
  BY ElementOfSeq
<1>2. CASE Tampering
  <2>1. ASSUME NEW i \in 1..Len(wire), DropBatch(i) PROVE wire' \in Seq(G)
    <3>1. SubSeq(wire, 1, i - 1) \in Seq(G) /\ SubSeq(wire, i + 1, Len(wire)) \in Seq(G)
      BY <1>1, SubSeqProperties
    <3>2. wire' = SubSeq(wire, 1, i - 1) \o SubSeq(wire, i + 1, Len(wire))
      BY <2>1 DEF DropBatch, Without
    <3> QED BY <3>1, <3>2, ConcatProperties
  <2>2. ASSUME NEW i \in 1..Len(wire), DuplicateBatch(i) PROVE wire' \in Seq(G)
    <3>1. wire[i] \in G /\ wire' = Append(wire, wire[i])
      BY <1>1, <2>2 DEF DuplicateBatch
    <3> QED BY <3>1, AppendProperties
  <2>3. ASSUME NEW i \in 1..Len(wire), GarbleSignature(i) PROVE wire' \in Seq(G)
    <3>1. PICK b : b = [wire[i] EXCEPT !.signature.by = NoKey]
      OBVIOUS
    <3>2. b \in G
      BY <2>3, <3>1
    <3>3. wire' = [wire EXCEPT ![i] = b]
      BY <2>3, <3>1 DEF GarbleSignature
    <3> QED BY <3>2, <3>3, ExceptSeq
  <2>4. ASSUME NEW i \in 1..Len(wire), NEW j \in 1..Len(wire[i].entries), NEW event \in Event,
               RewriteEvent(i, j, event)
        PROVE  wire' \in Seq(G)
    <3>1. PICK b : b = [wire[i] EXCEPT !.entries =
                [wire[i].entries EXCEPT ![j] = [wire[i].entries[j] EXCEPT !.event = event]]]
      OBVIOUS
    <3>2. b \in G
      BY <2>4, <3>1
    <3>3. wire' = [wire EXCEPT ![i] = b]
      BY <2>4, <3>1 DEF RewriteEvent
    <3> QED BY <3>2, <3>3, ExceptSeq
  <2>5. ASSUME NEW key \in Key, NEW event \in Event, ForgeBatch(key, event)
        PROVE  wire' \in Seq(G)
    <3>1. PICK b : b = SignBatch(key, <<[seq |-> chain.next_seq, prev |-> chain.head, event |-> event,
                               hash |-> EntryHash(chain.next_seq, chain.head, event)]>>,
                       EntryHash(chain.next_seq, chain.head, event))
      OBVIOUS
    <3>2. b \in G /\ <<b>> \in Seq(G)
      BY <2>5, <3>1
    <3>3. wire' = <<b>> \o wire
      BY <2>5, <3>1 DEF ForgeBatch
    <3> QED BY <3>2, <3>3, ConcatProperties
  <2> QED BY <1>2, <2>1, <2>2, <2>3, <2>4, <2>5 DEF Tampering
<1>3. CASE PushAudit
  <2>1. PICK b : b = SignBatch(DeviceKey, peeked.entries, peeked.head)
    OBVIOUS
  <2>2. wire' = wire \/ wire' = Append(wire, b)
    BY <1>3, <2>1 DEF PushAudit
  <2> QED BY <1>3, <2>1, <2>2, AppendProperties
<1>4. CASE PumpDies \/ \E kind \in {"crash", "unreachable"} : CrashAndBoot(kind)
  <2>1. PICK k \in 0..Len(wire) : wire' = SubSeq(wire, 1, k)
    BY <1>4 DEF PumpDies, CrashAndBoot
  <2> QED BY <2>1, PrefixInSeq
<1>5. CASE Ingest
  BY <1>5, HeadTailProperties DEF Ingest
<1>6. CASE UNCHANGED wire
  BY <1>6
<1>7. UNCHANGED wire \/ Ingest \/ PumpDies \/ PushAudit \/ Tampering
        \/ \E kind \in {"crash", "unreachable"} : CrashAndBoot(kind)
  BY DEF Next, vars, Emit, SyncStep, ReadSeq, ReadHead, SaveCheckpoint, PeekAudit,
    PushUnavailable, ConfirmAudit, GoOffline, GoOnline, SaveFails
<1> QED BY <1>2, <1>3, <1>4, <1>5, <1>6, <1>7

\* What a refusal of verify_batch says about the batch.
LEMMA VerifyError ==
  ASSUME NEW prev, NEW next_seq, NEW batch, NEW key,
         Len(batch.entries) \in Nat,
         NEW result, result = VerifyBatch(prev, next_seq, batch, key)
  PROVE  /\ result \in {"Ok", "Gap", "BrokenChain", "Tampered", "Malformed", "BadSignature"}
         /\ result = "Tampered" =>
              \E i \in 1..Len(batch.entries) :
                EntryHash(batch.entries[i].seq, batch.entries[i].prev, batch.entries[i].event)
                  # batch.entries[i].hash
         /\ result = "BrokenChain" =>
              \/ \E i \in 1..Len(batch.entries) :
                   /\ batch.entries[i].seq = next_seq + i - 1
                   /\ batch.entries[i].prev # Running(prev, batch.entries, i)
              \/ Running(prev, batch.entries, Len(batch.entries) + 1) # batch.head
         /\ result = "Malformed" => batch.signature.by = NoKey
         /\ result = "BadSignature" =>
              batch.signature.by # NoKey /\ batch.signature # [by |-> key, over |-> batch.head]
<1> DEFINE bad == BadEntries(prev, next_seq, batch.entries)
<1>1. CASE bad # {}
  <2>1. PICK i : i = First(bad)
    OBVIOUS
  <2>2. i \in bad
    BY <1>1, <2>1, FirstIsBad DEF BadEntries
  <2>3. i \in 1..Len(batch.entries)
    BY <2>2 DEF BadEntries
  <2>4. result = EntryError(prev, next_seq, batch.entries, i)
    BY <1>1, <2>1 DEF VerifyBatch
  <2> QED BY <2>3, <2>4 DEF EntryError
<1>2. CASE bad = {}
  BY <1>2 DEF VerifyBatch, SignatureError
<1> QED BY <1>1, <1>2

\* ChainedBatch stays true while the device's chain only grows.
LEMMA ChainedStays ==
  ASSUME IntegrityInv, SpoolInv, [Next]_vars, NoCrash', NEW b \in SignedSpoolBatch, ChainedBatch(b)
  PROVE  ChainedBatch(b)'
<1>1. SpoolOK /\ ~(\E kind \in {"crash", "unreachable"} : CrashAndBoot(kind))
  BY NoCrashBefore DEF SpoolInv
<1>2. seq \in Nat /\ head \in Seq(Link) /\ Len(head) = seq
  BY <1>1, SpoolFacts DEF IntegrityInv
<1>3. CASE \E event \in Event : Emit(event)
  <2>1. PICK event \in Event : Emit(event)
    BY <1>3
  <2>2. PICK l : l = [seq |-> seq + 1, event |-> event]
    OBVIOUS
  <2>3. l \in Link /\ head' = Append(head, l) /\ seq' = seq + 1
    BY <1>2, <2>1, <2>2 DEF Link, Emit, EntryHash
  <2>4. PICK s : s = b.entries[1].seq
    OBVIOUS
  <2>5. s \in 1..(seq + 1) /\ b.entries[1].prev = SubSeq(head, 1, s - 1)
    BY <2>4 DEF ChainedBatch
  <2>6. s \in 1..(seq' + 1) /\ s - 1 \in 0..Len(head)
    BY <1>2, <2>3, <2>5
  <2>7. SubSeq(head', 1, s - 1) = SubSeq(head, 1, s - 1)
    BY <1>2, <2>3, <2>6, PrefixAppend
  <2>8. b.entries[1].seq \in 1..(seq' + 1) /\ b.entries[1].prev = SubSeq(head', 1, b.entries[1].seq - 1)
    BY ONLY <2>4, <2>5, <2>6, <2>7
  <2> QED BY <2>8 DEF ChainedBatch
<1>4. CASE ~(\E event \in Event : Emit(event))
  <2>1. UNCHANGED <<seq, head>>
    BY <1>1, <1>4 DEF Next, vars, spoolVars, SyncStep, ReadSeq, ReadHead, SaveCheckpoint, PeekAudit,
      PushAudit, PushUnavailable, ConfirmAudit, Ingest, GoOffline, GoOnline, PumpDies, SaveFails, Tampering,
      DropBatch, DuplicateBatch, RewriteEvent, GarbleSignature, ForgeBatch
  <2> QED BY <2>1 DEF ChainedBatch
<1> QED BY <1>3, <1>4

LEMMA ExplainedStays ==
  ASSUME IntegrityInv, SpoolInv, [Next]_vars
  PROVE  Explained \subseteq Explained'
<1>1. happened \subseteq happened'
  BY FaultsStay
<1>2. NoCrash' => NoCrash
  BY <1>1 DEF NoCrash
<1>3. ASSUME NEW b \in Explained PROVE b \in Explained'
  <2>1. b \in SignedSpoolBatch /\ (NoCrash => ChainedBatch(b))
    BY DEF Explained
  <2>2. NoCrash' => ChainedBatch(b)'
    BY <1>2, <2>1, ChainedStays
  <2>3. /\ "corrupt" \notin happened => b.entries \in Seq(SoundEntry)
        /\ "forge" \notin happened =>
             b.signature.over = b.head /\ b.signature.by \in {DeviceKey, NoKey}
        /\ "garble" \notin happened => b.signature.by # NoKey
    BY DEF Explained
  <2> QED BY <1>1, <2>1, <2>2, <2>3 DEF Explained
<1> QED BY <1>3

\* What sync_once signs needs no explanation.
LEMMA PushExplained ==
  ASSUME IntegrityInv, SpoolInv, AlertInv, PushAudit
  PROVE  SignBatch(DeviceKey, peeked.entries, peeked.head) \in Explained
<1>1. PICK b : b = SignBatch(DeviceKey, peeked.entries, peeked.head)
  OBVIOUS
<1>2. b.entries = peeked.entries /\ b.head = peeked.head
        /\ b.signature.by = DeviceKey /\ b.signature.over = b.head
  BY <1>1 DEF SignBatch
<1>3. b \in SignedSpoolBatch
  BY <1>1, SyncAssumption DEF SignBatch, SignedSpoolBatch, Signature, IntegrityInv, TypeOK
<1>4. DeviceKey # NoKey
  BY SyncAssumption, NoKeyAssumption
<1>5. "corrupt" \notin happened => b.entries \in Seq(SoundEntry)
  BY <1>2 DEF AlertInv
<1>6. ASSUME NoCrash PROVE ChainedBatch(b)
  <2>1. SpoolOK /\ pc = "push"
    BY <1>6 DEF SpoolInv, PushAudit
  <2>2. /\ seq \in Nat /\ Len(pending) \in Nat /\ Base \in Nat /\ Base + Len(pending) = seq
        /\ Len(peeked.entries) \in Nat
    BY <2>1, SpoolFacts DEF IntegrityInv
  <2>3. PICK m : m = Len(peeked.entries)
    OBVIOUS
  <2>4. /\ m \in Nat /\ m \in 1..Len(pending)
        /\ \A j \in 1..m : peeked.entries[j] = EntryAt(head, Base + j)
        /\ peeked.head = SubSeq(head, 1, Base + m)
    <3>1. PeekedOK
      BY <2>1 DEF SpoolOK
    <3> QED BY <2>2, <2>3, <3>1 DEF PeekedOK
  <2>5. \A j \in 1..m : /\ peeked.entries[j].seq = Base + j
                        /\ peeked.entries[j].prev = SubSeq(head, 1, (Base + j) - 1)
                        /\ peeked.entries[j].hash = SubSeq(head, 1, Base + j)
    <3> TAKE j \in 1..m
    <3>1. PICK n, e : n = Base + j /\ e = peeked.entries[j]
      OBVIOUS
    <3>2. e = EntryAt(head, n)
      BY <2>4, <3>1
    <3>3. e.seq = n /\ e.prev = SubSeq(head, 1, n - 1) /\ e.hash = SubSeq(head, 1, n)
      BY ONLY <3>2 DEF EntryAt
    <3> QED BY ONLY <3>1, <3>3
  <2>6. 1 \in 1..m /\ m \in 1..m /\ m # 0 /\ Base + 1 \in 1..(seq + 1)
    BY <2>2, <2>4
  <2>7. /\ peeked.entries[1].seq \in 1..(seq + 1)
        /\ peeked.entries[1].prev = SubSeq(head, 1, peeked.entries[1].seq - 1)
        /\ peeked.entries[m].hash = peeked.head
    BY ONLY <2>4, <2>5, <2>6
  <2>8. ASSUME NEW j \in 2..m PROVE peeked.entries[j].prev = peeked.entries[j - 1].hash
    <3>1. j \in 1..m /\ j - 1 \in 1..m /\ (Base + j) - 1 = Base + (j - 1)
      BY <2>2, <2>4
    <3>2. peeked.entries[j].prev = SubSeq(head, 1, (Base + j) - 1)
      BY ONLY <2>5, <3>1
    <3>3. peeked.entries[j - 1].hash = SubSeq(head, 1, Base + (j - 1))
      BY ONLY <2>5, <3>1
    <3> QED BY ONLY <3>1, <3>2, <3>3
  <2> QED BY ONLY <1>2, <2>3, <2>6, <2>7, <2>8 DEF ChainedBatch
<1>7. b \in Explained
  BY ONLY <1>2, <1>3, <1>4, <1>5, <1>6 DEF Explained
<1> QED BY ONLY <1>1, <1>7

LEMMA GarbledExplained ==
  ASSUME AlertInv, NEW i \in 1..Len(wire), GarbleSignature(i), NEW c, c \in Explained', c = wire[i]
  PROVE  [wire[i] EXCEPT !.signature.by = NoKey] \in Explained'
<1>1. PICK b : b = [c EXCEPT !.signature.by = NoKey]
  OBVIOUS
<1>2. c \in SignedSpoolBatch
  BY DEF Explained
<1>3. b \in SignedSpoolBatch /\ b.entries = c.entries /\ b.head = c.head
        /\ b.signature.by = NoKey /\ b.signature.over = c.signature.over
  BY <1>1, <1>2 DEF SignedSpoolBatch, Signature
<1>4. "garble" \in happened'
  BY DEF GarbleSignature, Fault
<1>5. NoCrash' => ChainedBatch(b)'
  BY <1>3 DEF Explained, ChainedBatch
<1>6. b \in Explained'
  BY <1>3, <1>4, <1>5 DEF Explained
<1> QED BY <1>1, <1>6

LEMMA RewrittenExplained ==
  ASSUME NEW i \in 1..Len(wire), NEW j \in 1..Len(wire[i].entries), NEW event \in Event,
         RewriteEvent(i, j, event), NEW c, c \in Explained', c = wire[i]
  PROVE  [wire[i] EXCEPT !.entries =
            [wire[i].entries EXCEPT ![j] = [wire[i].entries[j] EXCEPT !.event = event]]] \in Explained'
<1>1. PICK en : en = c.entries
  OBVIOUS
<1>2. PICK e : e = [en[j] EXCEPT !.event = event]
  OBVIOUS
<1>3. PICK em : em = [en EXCEPT ![j] = e]
  OBVIOUS
<1>4. PICK b : b = [c EXCEPT !.entries = em]
  OBVIOUS
<1>5. c \in SignedSpoolBatch
  BY DEF Explained
<1>6. en \in Seq(SpoolEntry) /\ j \in 1..Len(en) /\ Len(en) \in Nat
  BY <1>1, <1>5 DEF SignedSpoolBatch
<1>7. en[j] \in SpoolEntry
  BY <1>6, ElementOfSeq
<1>8. e \in SpoolEntry /\ e.seq = en[j].seq /\ e.prev = en[j].prev /\ e.hash = en[j].hash
  BY <1>2, <1>7 DEF SpoolEntry
<1>9. em \in Seq(SpoolEntry) /\ Len(em) = Len(en)
        /\ \A k \in 1..Len(en) : em[k] = IF k = j THEN e ELSE en[k]
  BY <1>3, <1>6, <1>8, ExceptSeq
<1>10. \A k \in 1..Len(en) : em[k].seq = en[k].seq /\ em[k].prev = en[k].prev /\ em[k].hash = en[k].hash
  BY <1>8, <1>9
<1>11. b \in SignedSpoolBatch /\ b.entries = em /\ b.head = c.head /\ b.signature = c.signature
  BY <1>4, <1>5, <1>9 DEF SignedSpoolBatch
<1>12. "corrupt" \in happened'
  BY DEF RewriteEvent, Fault
<1>13. ASSUME NoCrash' PROVE ChainedBatch(b)'
  <2>1. /\ Len(en) # 0 /\ en[1].seq \in 1..(seq' + 1)
        /\ en[1].prev = SubSeq(head', 1, en[1].seq - 1)
        /\ \A k \in 2..Len(en) : en[k].prev = en[k - 1].hash
        /\ en[Len(en)].hash = c.head
    BY <1>1, <1>13 DEF Explained, ChainedBatch
  <2>2. 1 \in 1..Len(en) /\ Len(en) \in 1..Len(en)
    BY <1>6, <2>1
  <2>3. em[1].seq = en[1].seq /\ em[1].prev = en[1].prev /\ em[Len(en)].hash = en[Len(en)].hash
    BY <1>10, <2>2
  <2>4. ASSUME NEW k \in 2..Len(em) PROVE em[k].prev = em[k - 1].hash
    <3>1. k \in 1..Len(en) /\ k - 1 \in 1..Len(en) /\ k \in 2..Len(en)
      BY <1>6, <1>9
    <3> QED BY <1>10, <2>1, <3>1
  <2>5. em[1].seq \in 1..(seq' + 1) /\ em[1].prev = SubSeq(head', 1, em[1].seq - 1)
          /\ em[Len(em)].hash = b.head /\ Len(em) # 0
    BY ONLY <1>9, <1>11, <2>1, <2>3
  <2> QED BY ONLY <1>11, <2>4, <2>5 DEF ChainedBatch
<1>14. b \in Explained'
  <2>1. /\ "forge" \notin happened' =>
             c.signature.over = c.head /\ c.signature.by \in {DeviceKey, NoKey}
        /\ "garble" \notin happened' => c.signature.by # NoKey
    BY DEF Explained
  <2> QED BY ONLY <1>11, <1>12, <1>13, <2>1 DEF Explained
<1> QED BY ONLY <1>1, <1>2, <1>3, <1>4, <1>14, c = wire[i]

LEMMA ForgedExplained ==
  ASSUME IntegrityInv, SpoolInv, [Next]_vars, NEW key \in Key, NEW event \in Event, ForgeBatch(key, event)
  PROVE  SignBatch(key, <<[seq |-> chain.next_seq, prev |-> chain.head, event |-> event,
                           hash |-> EntryHash(chain.next_seq, chain.head, event)]>>,
                   EntryHash(chain.next_seq, chain.head, event)) \in Explained'
<1>1. PICK forged : forged = EntryHash(chain.next_seq, chain.head, event)
  OBVIOUS
<1>2. PICK e : e = [seq |-> chain.next_seq, prev |-> chain.head, event |-> event, hash |-> forged]
  OBVIOUS
<1>3. PICK es : es = <<e>>
  OBVIOUS
<1>4. PICK b : b = SignBatch(key, es, forged)
  OBVIOUS
<1>5. chain.head \in ChainHash /\ chain.next_seq \in Nat
  BY DEF IntegrityInv, TypeOK
<1>6. forged \in ChainHash
  BY <1>1, <1>5, EmitHead
<1>7. e \in SpoolEntry /\ e.hash = EntryHash(e.seq, e.prev, e.event)
  BY <1>1, <1>2, <1>5, <1>6 DEF SpoolEntry
<1>8. e \in SoundEntry
  BY <1>7 DEF SoundEntry
<1>9. es \in Seq(SpoolEntry) /\ es \in Seq(SoundEntry) /\ Len(es) = 1 /\ es[1] = e
  BY <1>3, <1>7, <1>8
<1>10. b.entries = es /\ b.head = forged /\ b.signature.by = key /\ key # NoKey /\ b \in SignedSpoolBatch
  BY <1>4, <1>6, <1>9, NoKeyAssumption DEF SignBatch, SignedSpoolBatch, Signature
<1>11. "forge" \in happened' /\ UNCHANGED <<seq, head>>
  BY DEF ForgeBatch, Fault, spoolVars
<1>12. ASSUME NoCrash' PROVE ChainedBatch(b)'
  <2>1. SpoolOK
    BY <1>12, NoCrashBefore DEF SpoolInv
  <2>2. PICK c : c = Len(chain.head)
    OBVIOUS
  <2>3. seq \in Nat /\ c \in Nat /\ c <= seq /\ chain.head = SubSeq(head, 1, c) /\ chain.next_seq = c + 1
    BY SMTT(30), <2>1, <2>2 DEF SpoolOK, IntegrityInv, TypeOK, ChainHash, LedgerGenuine
  <2>4. c + 1 \in 1..(seq + 1) /\ (c + 1) - 1 = c
    BY ONLY <2>3
  <2>5. e.seq = c + 1 /\ e.prev = chain.head /\ e.hash = forged
    BY ONLY <1>2, <2>3
  <2>6. e.seq \in 1..(seq' + 1) /\ e.prev = SubSeq(head', 1, e.seq - 1)
    BY ONLY <1>11, <2>3, <2>4, <2>5
  <2>7. \A j \in 2..1 : FALSE
    OBVIOUS
  <2>8. Len(es) # 0 /\ es[1].seq \in 1..(seq' + 1) /\ es[1].prev = SubSeq(head', 1, es[1].seq - 1)
          /\ es[Len(es)].hash = b.head
    BY ONLY <1>9, <1>10, <2>5, <2>6
  <2>9. \A j \in 2..Len(es) : es[j].prev = es[j - 1].hash
    BY ONLY <1>9, <2>7
  <2> QED BY ONLY <1>10, <2>8, <2>9 DEF ChainedBatch
<1>13. b \in Explained'
  BY ONLY <1>9, <1>10, <1>11, <1>12 DEF Explained
<1> QED BY ONLY <1>1, <1>2, <1>3, <1>4, <1>13

LEMMA WireExplained ==
  ASSUME IntegrityInv, SpoolInv, AlertInv, [Next]_vars
  PROVE  wire' \in Seq(Explained')
<1>1. Explained \subseteq Explained'
  BY ExplainedStays
<1>2. wire \in Seq(Explained') /\ Len(wire) \in Nat
  BY <1>1, SeqMonotonic DEF AlertInv
<1>3. \A i \in 1..Len(wire) : wire[i] \in Explained'
  BY <1>2, ElementOfSeq
<1>4. Explained' \subseteq SignedSpoolBatch
  BY DEF Explained
<1>5. PushAudit => SignBatch(DeviceKey, peeked.entries, peeked.head) \in Explained'
  BY <1>1, PushExplained
<1>6. \A i \in 1..Len(wire) :
        GarbleSignature(i) => [wire[i] EXCEPT !.signature.by = NoKey] \in Explained'
  BY <1>3, GarbledExplained
<1>7. \A i \in 1..Len(wire) : \A j \in 1..Len(wire[i].entries), event \in Event :
        RewriteEvent(i, j, event) =>
          [wire[i] EXCEPT !.entries =
             [wire[i].entries EXCEPT ![j] = [wire[i].entries[j] EXCEPT !.event = event]]] \in Explained'
  BY <1>3, RewrittenExplained
<1>8. \A key \in Key, event \in Event :
        ForgeBatch(key, event) =>
          SignBatch(key, <<[seq |-> chain.next_seq, prev |-> chain.head, event |-> event,
                            hash |-> EntryHash(chain.next_seq, chain.head, event)]>>,
                    EntryHash(chain.next_seq, chain.head, event)) \in Explained'
  BY ForgedExplained
<1> QED BY <1>2, <1>4, <1>5, <1>6, <1>7, <1>8, WireMoves

\* The entries the device itself holds hash to what they say.
LEMMA SpoolSound ==
  ASSUME IntegrityInv, AlertInv, [Next]_vars, "corrupt" \notin happened'
  PROVE  /\ pending' \in Seq(SoundEntry) /\ peeked'.entries \in Seq(SoundEntry)
         /\ ckpt'.pending \in Seq(SoundEntry)
<1>1. /\ pending \in Seq(SoundEntry) /\ peeked.entries \in Seq(SoundEntry)
      /\ ckpt.pending \in Seq(SoundEntry)
  BY FaultsStay DEF AlertInv
<1>2. << >> \in Seq(SoundEntry) /\ NoBatch.entries = << >>
  BY EmptySeq DEF NoBatch
<1>3. CASE \E event \in Event : Emit(event)
  <2>1. PICK event \in Event : Emit(event)
    BY <1>3
  <2>2. PICK e : e = [seq |-> seq + 1, prev |-> head, event |-> event, hash |-> head']
    OBVIOUS
  <2>3. seq + 1 \in Nat /\ head \in ChainHash /\ head' \in ChainHash
    BY <2>1, EmitHead DEF Emit, IntegrityInv, TypeOK
  <2>4. e \in SoundEntry
    BY <2>1, <2>2, <2>3 DEF Emit, SoundEntry, SpoolEntry
  <2>5. pending' = Append(pending, e) /\ UNCHANGED <<peeked, ckpt>>
    BY <2>1, <2>2 DEF Emit, syncVars
  <2> QED BY <1>1, <2>4, <2>5, AppendProperties
<1>4. CASE ConfirmAudit
  <2>1. pending' \in Seq(SoundEntry)
    BY <1>1, <1>4, RetainType DEF ConfirmAudit
  <2> QED BY <1>1, <1>2, <1>4, <2>1 DEF ConfirmAudit
<1>5. CASE SaveCheckpoint \/ PeekAudit \/ PushUnavailable
  <2>1. CASE SaveCheckpoint
    <3>1. pending' = pending /\ peeked' = peeked /\ ckpt'.pending = pending
      BY <2>1 DEF SaveCheckpoint, spoolVars
    <3> QED BY <1>1, <3>1
  <2>2. CASE PeekAudit
    <3>1. pending' = pending /\ ckpt' = ckpt /\ (peeked'.entries = pending \/ peeked' = NoBatch)
      BY <2>2 DEF PeekAudit, spoolVars
    <3> QED BY <1>1, <1>2, <3>1
  <2>3. CASE PushUnavailable
    BY <1>1, <1>2, <2>3 DEF PushUnavailable, spoolVars
  <2> QED BY <1>5, <2>1, <2>2, <2>3
<1>6. CASE \E kind \in {"crash", "unreachable"} : CrashAndBoot(kind)
  <2>1. pending' = ckpt.pending \/ pending' = << >>
    BY <1>6 DEF CrashAndBoot
  <2>2. peeked' = NoBatch /\ ckpt' = ckpt
    BY <1>6 DEF CrashAndBoot
  <2> QED BY <1>1, <1>2, <2>1, <2>2
<1>7. CASE UNCHANGED <<pending, peeked, ckpt>>
  BY <1>1, <1>7
<1>8. \/ UNCHANGED <<pending, peeked, ckpt>> \/ ConfirmAudit
      \/ SaveCheckpoint \/ PeekAudit \/ PushUnavailable
      \/ (\E event \in Event : Emit(event))
      \/ \E kind \in {"crash", "unreachable"} : CrashAndBoot(kind)
  BY DEF Next, vars, spoolVars, syncVars, SyncStep, ReadSeq, ReadHead, PushAudit, Ingest, GoOffline,
    GoOnline, PumpDies, SaveFails, Tampering, DropBatch, DuplicateBatch, RewriteEvent, GarbleSignature,
    ForgeBatch
<1> QED BY <1>3, <1>4, <1>5, <1>6, <1>7, <1>8

\* The alert that AuditLedger::ingest raises for a batch of Explained.
LEMMA IngestExplained ==
  ASSUME IntegrityInv, SpoolInv, AlertInv, Ingest
  PROVE  KindsExplained'
<1>1. PICK b : b = Head(wire)
  OBVIOUS
<1>2. b \in Explained
  BY <1>1, HeadTailProperties DEF Ingest, AlertInv
<1>3. b \in SignedSpoolBatch /\ b.entries \in Seq(SpoolEntry) /\ Len(b.entries) \in Nat
  BY <1>2 DEF Explained, SignedSpoolBatch
<1>4. PICK r : r = VerifyBatch(chain.head, chain.next_seq, b, chain.public_key)
  OBVIOUS
<1>5. happened' = happened /\ (alerts' = alerts \/ (alerts' = alerts \cup {AlertKind(r)} /\ r # "Ok"))
  BY <1>1, <1>4 DEF Ingest, faultVars
<1>6. KindsExplained
  BY DEF AlertInv
<1>7. /\ r \in {"Ok", "Gap", "BrokenChain", "Tampered", "Malformed", "BadSignature"}
      /\ r = "Tampered" =>
           \E i \in 1..Len(b.entries) :
             EntryHash(b.entries[i].seq, b.entries[i].prev, b.entries[i].event) # b.entries[i].hash
      /\ r = "BrokenChain" =>
           \/ \E i \in 1..Len(b.entries) :
                /\ b.entries[i].seq = chain.next_seq + i - 1
                /\ b.entries[i].prev # Running(chain.head, b.entries, i)
           \/ Running(chain.head, b.entries, Len(b.entries) + 1) # b.head
      /\ r = "Malformed" => b.signature.by = NoKey
      /\ r = "BadSignature" =>
           b.signature.by # NoKey /\ b.signature # [by |-> chain.public_key, over |-> b.head]
  BY <1>3, <1>4, VerifyError
<1>8. ASSUME r = "Tampered" PROVE "corrupt" \in happened
  <2> SUFFICES ASSUME "corrupt" \notin happened PROVE FALSE
    OBVIOUS
  <2>1. b.entries \in Seq(SoundEntry)
    BY <1>2 DEF Explained
  <2>2. PICK i \in 1..Len(b.entries) :
          EntryHash(b.entries[i].seq, b.entries[i].prev, b.entries[i].event) # b.entries[i].hash
    BY <1>7, <1>8
  <2>3. b.entries[i] \in SoundEntry
    BY <2>1, ElementOfSeq
  <2> QED BY <2>2, <2>3 DEF SoundEntry
<1>9. ASSUME r = "BadSignature" PROVE "forge" \in happened
  <2> SUFFICES ASSUME "forge" \notin happened PROVE FALSE
    OBVIOUS
  <2>1. b.signature.over = b.head /\ b.signature.by = DeviceKey /\ b.signature \in Signature
    BY <1>2, <1>3, <1>7, <1>9 DEF Explained, SignedSpoolBatch
  <2>2. b.signature = [by |-> DeviceKey, over |-> b.head]
    BY <2>1 DEF Signature
  <2> QED BY <1>7, <1>9, <2>2 DEF IntegrityInv
<1>10. ASSUME r = "Malformed" PROVE "garble" \in happened
  BY <1>2, <1>7, <1>10 DEF Explained
<1>11. ASSUME r = "BrokenChain" PROVE ~NoCrash
  <2> SUFFICES ASSUME NoCrash PROVE FALSE
    OBVIOUS
  <2>1. ChainedBatch(b) /\ SpoolOK
    BY <1>2 DEF Explained, SpoolInv
  <2>2. PICK es, n : es = b.entries /\ n = Len(b.entries)
    OBVIOUS
  <2>3. /\ n \in Nat /\ n # 0 /\ es[1].seq \in 1..(seq + 1)
        /\ es[1].prev = SubSeq(head, 1, es[1].seq - 1)
        /\ \A j \in 2..n : es[j].prev = es[j - 1].hash
        /\ es[n].hash = b.head
    BY <1>3, <2>1, <2>2 DEF ChainedBatch
  <2>4. Running(chain.head, es, n + 1) = b.head
    <3>1. n + 1 # 1 /\ (n + 1) - 1 = n
      BY <2>3
    <3> QED BY <2>3, <3>1 DEF Running
  <2>5. PICK i \in 1..n : es[i].seq = chain.next_seq + i - 1 /\ es[i].prev # Running(chain.head, es, i)
    BY <1>7, <1>11, <2>2, <2>4
  <2>6. CASE i = 1
    <3>1. PICK c : c = Len(chain.head)
      OBVIOUS
    <3>2. c \in Nat /\ chain.next_seq = c + 1 /\ chain.head = SubSeq(head, 1, c)
      BY SMTT(30), <2>1, <3>1 DEF SpoolOK, IntegrityInv, TypeOK, ChainHash, LedgerGenuine
    <3>3. es[1].seq = (c + 1) + 1 - 1
      BY <2>5, <2>6, <3>2
    <3>4. es[1].seq - 1 = c
      BY <3>2, <3>3
    <3>5. es[1].prev = chain.head
      BY <2>3, <3>2, <3>4
    <3> QED BY <2>5, <2>6, <3>5 DEF Running
  <2>7. CASE i # 1
    <3>1. i \in 2..n
      BY <2>3, <2>7
    <3> QED BY <2>3, <2>5, <2>7, <3>1 DEF Running
  <2> QED BY <2>6, <2>7
<1>12. \A k \in alerts' :
          \/ k \in alerts \/ k = "gap"
          \/ (k = "tampered" /\ r = "Tampered")
          \/ (k = "bad_signature" /\ r = "BadSignature")
          \/ (k = "rejected" /\ r \in {"BrokenChain", "Malformed"})
  <2>1. r # "Ok" =>
          \/ AlertKind(r) = "gap"
          \/ (AlertKind(r) = "tampered" /\ r = "Tampered")
          \/ (AlertKind(r) = "bad_signature" /\ r = "BadSignature")
          \/ (AlertKind(r) = "rejected" /\ r \in {"BrokenChain", "Malformed"})
    BY ONLY <1>7 DEF AlertKind
  <2> QED BY ONLY <1>5, <2>1
<1>13. "tampered" \in alerts' => "corrupt" \in happened'
  BY ONLY <1>5, <1>6, <1>8, <1>12 DEF KindsExplained
<1>14. "bad_signature" \in alerts' => "forge" \in happened'
  BY ONLY <1>5, <1>6, <1>9, <1>12 DEF KindsExplained
<1>15. "rejected" \in alerts' => happened' \cap {"garble", "crash", "unreachable"} # {}
  BY ONLY <1>5, <1>6, <1>10, <1>11, <1>12 DEF KindsExplained, NoCrash
<1> QED BY ONLY <1>13, <1>14, <1>15 DEF KindsExplained

LEMMA AlertStep ==
  ASSUME IntegrityInv, SpoolInv, AlertInv, [Next]_vars
  PROVE  AlertInv'
<1>1. KindsExplained'
  <2>1. CASE Ingest
    BY <2>1, IngestExplained
  <2>2. CASE UNCHANGED alerts
    BY <2>2, FaultsStay DEF AlertInv, KindsExplained
  <2>3. UNCHANGED alerts \/ Ingest
    BY DEF Next, vars, Emit, SyncStep, ReadSeq, ReadHead, SaveCheckpoint, PeekAudit, PushAudit,
      PushUnavailable, ConfirmAudit, GoOffline, GoOnline, PumpDies, SaveFails, CrashAndBoot, Tampering,
      DropBatch, DuplicateBatch, RewriteEvent, GarbleSignature, ForgeBatch, ledgerVars
  <2> QED BY <2>1, <2>2, <2>3
<1> QED BY <1>1, WireExplained, SpoolSound DEF AlertInv

LEMMA InitAlert == Init => AlertInv
<1> SUFFICES ASSUME Init PROVE AlertInv
  OBVIOUS
<1>1. << >> \in Seq(SoundEntry) /\ << >> \in Seq(Explained)
  BY EmptySeq
<1> QED BY <1>1 DEF Init, NoBatch, NoCheckpoint, AlertInv, KindsExplained

LEMMA AlertInvariant == Spec => []AlertInv
BY IntegrityInvariant, SpoolInvariant, InitAlert, AlertStep, PTL DEF Spec

\* An alert of the ledger accuses nobody wrongly: "tampered" is raised only after an
\* event was rewritten, "bad_signature" only after a forgery, "rejected" only after
\* undecodable bytes or a restart, and outages and failed saves alone raise none,
\* under every fault and in either boot mode.
THEOREM AlertsMeanIt == Spec => []AlertsExplained
<1>1. IntegrityInv /\ AlertInv /\ PathInv => AlertsExplained
  BY DEF IntegrityInv, AlertInv, KindsExplained, PathInv, PathOK, Calm, AlertsExplained
<1> QED BY IntegrityInvariant, AlertInvariant, PathInvariant, <1>1, PTL

-----------------------------------------------------------------------------
(***************************************************************************)
(* The stores of the gateway.  The inductive invariant has two halves.     *)
(* DirInv says how the two directories, which number users apart, stand    *)
(* for the same users, memberships, invitations and devices.  AuditInv     *)
(* says what each handler under way knows, and that what the stores lack   *)
(* of a device's chain is what the device's one request is about to store. *)
(***************************************************************************)

-----------------------------------------------------------------------------
(* The audit stores, the ledger and the requests. *)

\* What the audit stores depend on of the directory: the devices and their keys.
Dev == 1..mem.next_device
keyOf == [d \in Dev |-> mem.devices[d].pubkey]
KeysOK == mem.next_device \in Nat /\ keyOf \in [Dev -> Key]

Alert == Nat \X {"gap", "tampered", "bad_signature", "rejected"}
Position == [next_seq : Nat \ {0}, head : ChainHash]
Chain == [public_key : Key, next_seq : Nat \ {0}, head : ChainHash]

\* The links of head were put in the spool of key, under their numbers.
Emitted(key, links) ==
  /\ links \in ChainHash
  /\ \A n \in 1..Len(links) : <<key, n, links[n].event>> \in emitted

\* The links of head are what device d signed.
SignedBy(d, links) == Emitted(keyOf[d], links)

SpoolsOK ==
  /\ spool \in [Key -> ChainHash] /\ \A k \in Key : Emitted(k, spool[k])

LedgerOK ==
  /\ ledger = [chains |-> ledger.chains, verified |-> ledger.verified, alerts |-> ledger.alerts]
  /\ DOMAIN ledger.chains \subseteq Dev /\ ledger.chains \in [DOMAIN ledger.chains -> Chain]
  /\ \A d \in DOMAIN ledger.chains : /\ ledger.chains[d].public_key = keyOf[d]
                                     /\ SignedBy(d, ledger.chains[d].head)
  /\ ledger.alerts \in Seq(Alert)

ShapesOK ==
  /\ memAudit = [chains |-> memAudit.chains, events |-> memAudit.events,
                 alerts |-> memAudit.alerts]
  /\ pgAudit = [audit_chain |-> pgAudit.audit_chain, audit_event |-> pgAudit.audit_event,
                audit_alert |-> pgAudit.audit_alert]
  /\ memAudit.alerts = pgAudit.audit_alert /\ memAudit.alerts \in Seq(Alert)

ChainsOK ==
  /\ pgAudit.audit_chain \in [DOMAIN pgAudit.audit_chain -> Position]
  /\ DOMAIN pgAudit.audit_chain \subseteq Dev
  /\ memAudit.chains = [d \in DOMAIN pgAudit.audit_chain |->
       [public_key |-> keyOf[d], next_seq |-> pgAudit.audit_chain[d].next_seq,
        head |-> pgAudit.audit_chain[d].head]]
  /\ \A d \in DOMAIN pgAudit.audit_chain : SignedBy(d, pgAudit.audit_chain[d].head)

RowsOK ==
  /\ DOMAIN pgAudit.audit_event \subseteq Dev \X Nat
  /\ \A k \in DOMAIN pgAudit.audit_event :
       <<keyOf[k[1]], k[2], pgAudit.audit_event[k]>> \in emitted
  /\ memAudit.events \in Seq(Nat \X Nat \X Event)
  /\ \A i \in DOMAIN memAudit.events :
       LET e == memAudit.events[i] IN
         /\ <<e[1], e[2]>> \in DOMAIN pgAudit.audit_event
         /\ e[1] \notin reused \cup excused => pgAudit.audit_event[<<e[1], e[2]>>] = e[3]

\* The entries are what the device put in its spool.
Signed(d, entries) ==
  /\ entries \in Seq(SpoolEntry)
  /\ \A i \in DOMAIN entries : <<keyOf[d], entries[i].seq, entries[i].event>> \in emitted

EnrollReq == [pc : {"register", "persist", "certify"}, device : Nat, key : Key]
PositionReq == [pc : {"position"}, device : Nat, entries : Seq(SpoolEntry)]
HeadReq == [pc : {"head"}, next_seq : Nat \ {0}, device : Nat, entries : Seq(SpoolEntry)]
AppendReq == [pc : {"append"}, head : ChainHash, next_seq : Nat \ {0}, device : Nat,
              entries : Seq(SpoolEntry)]
AlertReq == [pc : {"alert"}, device : Nat]
RecordReq == [pc : {"record"}, device : Nat, alert : Alert]

Batched == {"position", "head", "append"}
Alerted == {"alert", "record"}

ReqType == {Idle} \cup EnrollReq \cup PositionReq \cup HeadReq \cup AppendReq \cup AlertReq
             \cup RecordReq
ReqFits(q) ==
  /\ q \in ReqType
  /\ q \in EnrollReq => q.device \in Dev /\ q.key = keyOf[q.device]
  /\ q.pc \in Batched => q.device \in DOMAIN ledger.chains /\ Signed(q.device, q.entries)
  /\ q.pc = "append" => SignedBy(q.device, q.head)
ReqOK == req \in [Request -> ReqType] /\ \A r \in Request : ReqFits(req[r])

AuxOK == /\ excused \subseteq Nat /\ reused \subseteq Nat
         /\ work \in 0..MaxWork /\ nstorefaults \in 0..MaxStoreFaults

Requests(d) == {r \in Request : req[r] # Idle /\ req[r].device = d}

\* Link n of the device's chain is in both tables of events.
Kept(d, n) == /\ \E i \in DOMAIN memAudit.events :
                   memAudit.events[i] = <<d, n, ledger.chains[d].head[n].event>>
              /\ <<d, n>> \in DOMAIN pgAudit.audit_event

\* The stored position and head are those of the ledger, whose events are stored.
Synced(d) ==
  /\ d \in DOMAIN pgAudit.audit_chain
  /\ pgAudit.audit_chain[d].next_seq = ledger.chains[d].next_seq
  /\ pgAudit.audit_chain[d].head = ledger.chains[d].head
  /\ \A n \in 1..Len(ledger.chains[d].head) : Kept(d, n)

\* The entries of a batch under way are in the ledger's chain; with what is
\* stored they are all of it.
Carries(d, entries) ==
  /\ \A i \in DOMAIN entries : /\ entries[i].seq \in 1..Len(ledger.chains[d].head)
                               /\ entries[i].event = ledger.chains[d].head[entries[i].seq].event
  /\ \A n \in 1..Len(ledger.chains[d].head) :
       Kept(d, n) \/ \E i \in DOMAIN entries : entries[i].seq = n

ChainSynced(d) ==
  d \in DOMAIN ledger.chains =>
    Synced(d) \/ \E r \in Requests(d) : req[r].pc \in Batched \cup {"persist"}

RegisterSynced(d) ==
  \A r \in Requests(d) : req[r].pc = "persist" =>
    d \in DOMAIN ledger.chains /\ ledger.chains[d] = Fresh(req[r].key)

BatchSynced(d) ==
  \A r \in Requests(d) : req[r].pc \in Batched =>
    /\ d \in DOMAIN pgAudit.audit_chain /\ Carries(d, req[r].entries)
    /\ req[r].pc \in {"head", "append"} => req[r].next_seq = ledger.chains[d].next_seq
    /\ req[r].pc = "append" => req[r].head = ledger.chains[d].head

\* Alert i of the ledger is in the table.
Recorded(i) == \E j \in DOMAIN pgAudit.audit_alert : pgAudit.audit_alert[j] = ledger.alerts[i]

AlertsSynced(d) ==
  /\ (\A i \in AlertsOf(d) : Recorded(i)) \/ \E r \in Requests(d) : req[r].pc \in Alerted
  /\ \A r \in Requests(d) :
       /\ req[r].pc = "alert" => \A i, j \in AlertsOf(d) : i < j => Recorded(i)
       /\ req[r].pc = "record" =>
            \A i \in AlertsOf(d) : Recorded(i) \/ ledger.alerts[i] = req[r].alert

\* The rows of a device that was registered once are the links of its chain.
RowsSynced(d) ==
  d \notin reused => \A n \in Nat : <<d, n>> \in DOMAIN pgAudit.audit_event =>
    /\ d \in DOMAIN ledger.chains /\ n \in 1..Len(ledger.chains[d].head)
    /\ pgAudit.audit_event[<<d, n>>] = ledger.chains[d].head[n].event

ChainKnown(d) == d \in DOMAIN pgAudit.audit_chain => d \in DOMAIN ledger.chains

\* A device that is not excused has one request at a time, and what the ledger
\* has of it is stored, or is what the request under way is about to store.
DeviceSynced(d) ==
  /\ \A r, s \in Requests(d) : r = s
  /\ ChainSynced(d) /\ RegisterSynced(d) /\ BatchSynced(d) /\ AlertsSynced(d)
  /\ RowsSynced(d) /\ ChainKnown(d)

TablesInv == SpoolsOK /\ LedgerOK /\ ShapesOK /\ ChainsOK /\ RowsOK /\ ReqOK /\ AuxOK
SyncInv == \A d \in Nat \ excused : DeviceSynced(d)
AuditInv == TablesInv /\ SyncInv

-----------------------------------------------------------------------------
(* The directory: what the two stores have in common, whatever the         *)
(* identifiers each of them gives.                                         *)

ShapeOK ==
  /\ DOMAIN mem = {"next_user", "next_device", "users", "emails", "memberships", "invitations",
                   "devices_by_key", "devices", "device_fingerprints"}
  /\ DOMAIN pg = {"user_seq", "app_user", "membership", "invitation", "device"}

\* Both stores know the same users, in the same order.
UsersOK ==
  /\ mem.next_user \in Nat /\ pg.user_seq \in Nat
  /\ mem.users \in [DOMAIN mem.users -> 1..mem.next_user]
  /\ DOMAIN mem.emails = 1..mem.next_user
  /\ \A u \in 1..mem.next_user : mem.emails[u] \in DOMAIN mem.users /\ mem.users[mem.emails[u]] = u
  /\ \A e \in DOMAIN mem.users : mem.emails[mem.users[e]] = e
  /\ pg.app_user \in [DOMAIN mem.users -> 1..pg.user_seq]
  /\ \A e, f \in DOMAIN mem.users : mem.users[e] < mem.users[f] <=> pg.app_user[e] < pg.app_user[f]

MembershipsOK ==
  /\ \A k \in DOMAIN mem.memberships :
       \E ws \in Workspace, e \in DOMAIN mem.users : k = <<ws, mem.users[e]>>
  /\ \A k \in DOMAIN pg.membership :
       \E ws \in Workspace, e \in DOMAIN mem.users : k = <<ws, pg.app_user[e]>>
  /\ \A ws \in Workspace, e \in DOMAIN mem.users :
       /\ <<ws, mem.users[e]>> \in DOMAIN mem.memberships
            <=> <<ws, pg.app_user[e]>> \in DOMAIN pg.membership
       /\ <<ws, mem.users[e]>> \in DOMAIN mem.memberships =>
            LET m == mem.memberships[<<ws, mem.users[e]>>] IN
              /\ m \in [role : Role, status : MembershipStatus]
              /\ pg.membership[<<ws, pg.app_user[e]>>]
                   = [role |-> RoleTo(m.role), status |-> StatusTo(m.status)]

InvitationsOK ==
  /\ DOMAIN pg.invitation = DOMAIN mem.invitations
  /\ \A k \in DOMAIN mem.invitations :
       LET i == mem.invitations[k] IN
         /\ i \in [role : Role, accepted : BOOLEAN]
         /\ pg.invitation[k] = [role |-> RoleTo(i.role), accepted |-> i.accepted]

DeviceRow == [workspace : Workspace, enrolled_by : Nat, pubkey : Key, status : DeviceStatus]

\* A row of each store that stand for the same device.
SameDevice(row, dev) ==
  /\ row = [workspace |-> row.workspace, enrolled_by |-> row.enrolled_by, pubkey |-> row.pubkey,
            status |-> row.status]
  /\ row \in DeviceRow /\ row.enrolled_by \in 1..mem.next_user
  /\ dev = [workspace_id |-> row.workspace, enrolled_by |-> pg.app_user[mem.emails[row.enrolled_by]],
            device_pubkey |-> row.pubkey, status |-> DeviceStatusTo(row.status),
            cert_fingerprint |-> dev.cert_fingerprint]

DevicesOK ==
  /\ mem.next_device \in Nat /\ DOMAIN mem.devices = Dev /\ DOMAIN pg.device = Dev
  /\ \A d \in Dev : SameDevice(mem.devices[d], pg.device[d])
  /\ \A d \in Dev :
       /\ <<mem.devices[d].workspace, mem.devices[d].pubkey>> \in DOMAIN mem.devices_by_key
       /\ mem.devices_by_key[<<mem.devices[d].workspace, mem.devices[d].pubkey>>] = d
  /\ \A k \in DOMAIN mem.devices_by_key :
       /\ mem.devices_by_key[k] \in Dev
       /\ k = <<mem.devices[mem.devices_by_key[k]].workspace, mem.devices[mem.devices_by_key[k]].pubkey>>

\* A device's row has the latest of its certificates.
FingerprintsOK ==
  /\ \E n \in Nat : DOMAIN mem.device_fingerprints = 1..n
  /\ \A fp \in DOMAIN mem.device_fingerprints : mem.device_fingerprints[fp] \in Dev
  /\ \A d \in Dev :
       /\ pg.device[d].cert_fingerprint \in DOMAIN mem.device_fingerprints \cup {NoCert}
       /\ pg.device[d].cert_fingerprint # NoCert =>
            mem.device_fingerprints[pg.device[d].cert_fingerprint] = d
       /\ \A fp \in DOMAIN mem.device_fingerprints :
            mem.device_fingerprints[fp] = d => fp <= pg.device[d].cert_fingerprint

DirInv == ShapeOK /\ UsersOK /\ MembershipsOK /\ InvitationsOK /\ DevicesOK /\ FingerprintsOK
-----------------------------------------------------------------------------
(* What an accepted batch is. *)

\* The batch of the entries j + 1 to i of a chain, h its first i links.
BatchShape(key, j, i, h, es) ==
  /\ h \in ChainHash /\ Len(h) = i /\ \A n \in 1..i : h[n] = spool[key][n]
  /\ Batch(key, j, i) = [entries |-> es, head |-> h, signature |-> [by |-> key, over |-> h]]
  /\ es \in Seq(SpoolEntry) /\ Len(es) = i - j
  /\ \A k \in 1..(i - j) : /\ es[k].seq = j + k /\ es[k].event = h[j + k].event
                           /\ es[k].prev = SubSeq(h, 1, j + k - 1)
                           /\ es[k].hash = SubSeq(h, 1, j + k)

LEMMA BatchMeans ==
  ASSUME NEW key \in Key, spool \in [Key -> ChainHash],
         NEW i \in 0..Len(spool[key]), NEW j \in 0..i,
         NEW h, h = SubSeq(spool[key], 1, i), NEW es, es = EntriesAfter(h, j)
  PROVE  BatchShape(key, j, i, h, es)
<1>1. spool[key] \in Seq(Link)
  BY DEF ChainHash
<1>2. h \in Seq(Link) /\ Len(h) = i /\ \A n \in 1..i : h[n] = spool[key][n]
  BY <1>1, PrefixFacts
<1>3. Batch(key, j, i) = [entries |-> es, head |-> h, signature |-> [by |-> key, over |-> h]]
  BY DEF Batch, SignBatch
<1>4. i \in Nat /\ j \in Nat /\ i - j \in Nat
  OBVIOUS
<1>5. ASSUME NEW k \in 1..(i - j)
      PROVE  [seq |-> j + k, prev |-> SubSeq(h, 1, j + k - 1), event |-> h[j + k].event,
              hash |-> SubSeq(h, 1, j + k)] \in SpoolEntry
  <2>1. j + k - 1 \in 0..Len(h) /\ j + k \in 0..Len(h) /\ j + k \in 1..Len(h)
    BY <1>2, <1>4
  <2>2. SubSeq(h, 1, j + k - 1) \in ChainHash /\ SubSeq(h, 1, j + k) \in ChainHash
    BY <1>2, <2>1, PrefixFacts DEF ChainHash
  <2>3. h[j + k].event \in Event
    <3>1. h[j + k] \in Link
      BY <1>2, <2>1
    <3> QED BY <3>1 DEF Link
  <2> QED BY <2>1, <2>2, <2>3 DEF SpoolEntry
<1>6. es = [k \in 1..(i - j) |->
        [seq |-> j + k, prev |-> SubSeq(h, 1, j + k - 1), event |-> h[j + k].event,
         hash |-> SubSeq(h, 1, j + k)]]
  BY <1>2 DEF EntriesAfter
<1>7. es \in [1..(i - j) -> SpoolEntry]
  BY <1>5, <1>6
<1>8. \A k \in 1..(i - j) : /\ es[k].seq = j + k /\ es[k].event = h[j + k].event
                            /\ es[k].prev = SubSeq(h, 1, j + k - 1)
                            /\ es[k].hash = SubSeq(h, 1, j + k)
  BY SMTT(30), <1>6
<1>9. es \in Seq(SpoolEntry) /\ Len(es) = i - j
  BY <1>4, <1>7
<1>10. h \in ChainHash
  BY <1>2 DEF ChainHash
<1> QED BY <1>2, <1>3, <1>8, <1>9, <1>10 DEF BatchShape

\* A batch of a chain extends the head that the ledger has, which is the chain up to
\* the first entry, to the chain up to the last.
Continues(key, j, i, prev, es, hd) ==
  /\ es \in Seq(SpoolEntry) /\ hd \in ChainHash /\ es = Batch(key, j, i).entries
  /\ Running(prev, es, Len(es) + 1) = hd
  /\ Len(hd) = i /\ \A n \in 1..i : hd[n] = spool[key][n]
  /\ Len(prev) = j /\ \A n \in 1..j : prev[n] = hd[n]
  /\ Len(es) = i - j
  /\ \A k \in 1..(i - j) : es[k].seq = j + k /\ es[k].event = hd[j + k].event

\* An accepted batch does, and its signer is the one who was registered.
LEMMA AcceptedEntries ==
  ASSUME NEW key \in Key, spool \in [Key -> ChainHash],
         NEW i \in 0..Len(spool[key]), NEW j \in 0..i,
         NEW prev \in ChainHash, NEW next_seq \in Nat \ {0}, NEW signer,
         VerifyBatch(prev, next_seq, Batch(key, j, i), signer) = "Ok"
  PROVE  key = signer /\ \E es, hd : Continues(key, j, i, prev, es, hd)
<1> PICK h, es, b : h = SubSeq(spool[key], 1, i) /\ es = EntriesAfter(h, j) /\ b = Batch(key, j, i)
  OBVIOUS
<1>0. BatchShape(key, j, i, h, es)
  BY BatchMeans, Zenon
<1>1. /\ h \in ChainHash /\ Len(h) = i /\ \A n \in 1..i : h[n] = spool[key][n]
      /\ b = [entries |-> es, head |-> h, signature |-> [by |-> key, over |-> h]]
      /\ es \in Seq(SpoolEntry) /\ Len(es) = i - j
      /\ \A k \in 1..(i - j) : /\ es[k].seq = j + k /\ es[k].event = h[j + k].event
                               /\ es[k].prev = SubSeq(h, 1, j + k - 1)
                               /\ es[k].hash = SubSeq(h, 1, j + k)
  BY <1>0 DEF BatchShape
<1>2. /\ \A k \in 1..Len(es) : EntryError(prev, next_seq, es, k) = "Ok"
      /\ Running(prev, es, Len(es) + 1) = h
      /\ SignatureError(b, signer) = "Ok"
  <2>1. VerifyBatch(prev, next_seq, b, signer) = "Ok"
    OBVIOUS
  <2>2. /\ \A k \in 1..Len(b.entries) : EntryError(prev, next_seq, b.entries, k) = "Ok"
        /\ Running(prev, b.entries, Len(b.entries) + 1) = b.head
        /\ SignatureError(b, signer) = "Ok"
    BY <2>1, VerifyOk, Zenon
  <2>3. b.entries = es /\ b.head = h
    BY <1>1
  <2> QED BY <2>2, <2>3
<1>3. key = signer
  BY <1>1, <1>2 DEF SignatureError
<1>4. i \in Nat /\ j \in Nat /\ i - j \in Nat /\ h \in Seq(Link)
  BY <1>1 DEF ChainHash
<1>5. Len(prev) = j /\ \A n \in 1..j : prev[n] = h[n]
  <2>1. CASE i = j
    BY <1>1, <1>2, <1>4, <2>1 DEF Running
  <2>2. CASE i # j
    <3>1. 1 \in 1..Len(es) /\ j \in 0..Len(h)
      BY <1>1, <1>4, <2>2
    <3>2. es[1].prev = Running(prev, es, 1)
      BY <1>2, <3>1 DEF EntryError
    <3>3. es[1].prev = SubSeq(h, 1, j)
      <4>1. 1 \in 1..(i - j) /\ j + 1 - 1 = j
        BY <1>4, <2>2
      <4> QED BY <1>1, <4>1
    <3>4. prev = SubSeq(h, 1, j)
      BY <3>2, <3>3 DEF Running
    <3> QED BY <1>4, <3>1, <3>4, PrefixFacts
  <2> QED BY <2>1, <2>2
<1>6. b.entries = es
  BY <1>1
<1>7. Continues(key, j, i, prev, es, h)
  BY <1>1, <1>2, <1>5, <1>6 DEF Continues
<1> QED BY <1>3, <1>7
-----------------------------------------------------------------------------
(* What stays as it is: devices keep their keys, and what was put in a     *)
(* spool stays so.                                                         *)

KeysGrow == Dev \subseteq Dev' /\ \A d \in Dev : keyOf'[d] = keyOf[d]
SignedGrows == KeysGrow /\ emitted \subseteq emitted'

LEMMA SignedByStays ==
  ASSUME SignedGrows, NEW d \in Dev, NEW h, SignedBy(d, h)
  PROVE  SignedBy(d, h)'
<1>1. keyOf'[d] = keyOf[d] /\ emitted \subseteq emitted'
  BY DEF KeysGrow, SignedGrows
<1> QED BY <1>1 DEF SignedBy, Emitted

LEMMA SignedStays ==
  ASSUME SignedGrows, NEW d \in Dev, NEW entries, Signed(d, entries)
  PROVE  Signed(d, entries)'
<1>1. keyOf'[d] = keyOf[d] /\ emitted \subseteq emitted'
  BY DEF KeysGrow, SignedGrows
<1> QED BY <1>1 DEF Signed

LEMMA LedgerStays ==
  ASSUME LedgerOK, SignedGrows, UNCHANGED ledger
  PROVE  LedgerOK'
<1>1. DOMAIN ledger.chains \subseteq Dev /\ DOMAIN ledger.chains \subseteq Dev'
  BY DEF LedgerOK, KeysGrow, SignedGrows
<1>2. ASSUME NEW d \in DOMAIN ledger.chains
      PROVE  ledger.chains[d].public_key = keyOf'[d] /\ SignedBy(d, ledger.chains[d].head)'
  <2>1. keyOf'[d] = keyOf[d]
    BY <1>1 DEF KeysGrow, SignedGrows
  <2>2. PICK h : h = ledger.chains[d].head
    OBVIOUS
  <2>3. SignedBy(d, h)
    BY <2>2 DEF LedgerOK
  <2>4. SignedBy(d, h)'
    BY <1>1, <2>3, SignedByStays
  <2>5. ledger.chains[d].public_key = keyOf'[d]
    BY <2>1 DEF LedgerOK
  <2>6. SignedBy(d, ledger.chains[d].head)'
    BY <2>2, <2>4 DEF SignedBy, Emitted
  <2> QED BY <2>5, <2>6
<1> QED BY <1>1, <1>2 DEF LedgerOK

LEMMA ChainsStay ==
  ASSUME ChainsOK, SignedGrows, memAudit'.chains = memAudit.chains,
         pgAudit'.audit_chain = pgAudit.audit_chain
  PROVE  ChainsOK'
<1>1. /\ DOMAIN pgAudit.audit_chain \subseteq Dev /\ DOMAIN pgAudit.audit_chain \subseteq Dev'
      /\ \A d \in DOMAIN pgAudit.audit_chain : keyOf'[d] = keyOf[d]
  BY DEF ChainsOK, KeysGrow, SignedGrows
<1>2. ASSUME NEW d \in DOMAIN pgAudit.audit_chain
      PROVE  SignedBy(d, pgAudit.audit_chain[d].head)'
  <2>1. PICK h : h = pgAudit.audit_chain[d].head
    OBVIOUS
  <2>2. SignedBy(d, h)
    BY <2>1 DEF ChainsOK
  <2>3. SignedBy(d, h)'
    BY <1>1, <2>2, SignedByStays
  <2> QED BY <2>1, <2>3 DEF SignedBy, Emitted
<1>3. memAudit.chains = [d \in DOMAIN pgAudit.audit_chain |->
        [public_key |-> keyOf'[d], next_seq |-> pgAudit.audit_chain[d].next_seq,
         head |-> pgAudit.audit_chain[d].head]]
  BY <1>1 DEF ChainsOK
<1> QED BY <1>1, <1>2, <1>3 DEF ChainsOK

LEMMA RowsStay ==
  ASSUME RowsOK, SignedGrows, memAudit'.events = memAudit.events,
         pgAudit'.audit_event = pgAudit.audit_event,
         \A d \in Dev : d \in reused \cup excused => d \in (reused \cup excused)'
  PROVE  RowsOK'
<1>1. DOMAIN pgAudit.audit_event \subseteq Dev \X Nat /\ DOMAIN pgAudit.audit_event \subseteq Dev' \X Nat
  BY DEF RowsOK, KeysGrow, SignedGrows
<1>2. \A k \in DOMAIN pgAudit.audit_event :
        <<keyOf'[k[1]], k[2], pgAudit.audit_event[k]>> \in emitted'
  BY <1>1 DEF RowsOK, KeysGrow, SignedGrows
<1>3. ASSUME NEW i \in DOMAIN memAudit.events
      PROVE  LET e == memAudit.events[i] IN
               /\ <<e[1], e[2]>> \in DOMAIN pgAudit.audit_event
               /\ e[1] \notin (reused \cup excused)' => pgAudit.audit_event[<<e[1], e[2]>>] = e[3]
  <2> PICK e : e = memAudit.events[i]
    OBVIOUS
  <2>1. <<e[1], e[2]>> \in DOMAIN pgAudit.audit_event
    BY DEF RowsOK
  <2>2. e[1] \in Dev
    BY <1>1, <2>1
  <2>3. e[1] \notin (reused \cup excused) => pgAudit.audit_event[<<e[1], e[2]>>] = e[3]
    BY DEF RowsOK
  <2> QED BY <2>1, <2>2, <2>3
<1> QED BY <1>1, <1>2, <1>3 DEF RowsOK

LEMMA FitsStays ==
  ASSUME LedgerOK, SignedGrows, DOMAIN ledger.chains \subseteq DOMAIN ledger'.chains,
         NEW q, ReqFits(q)
  PROVE  ReqFits(q)'
<1>1. /\ Dev \subseteq Dev' /\ DOMAIN ledger.chains \subseteq Dev
      /\ \A d \in Dev : keyOf'[d] = keyOf[d]
  BY DEF LedgerOK, KeysGrow, SignedGrows
<1>2. q \in EnrollReq => q.device \in Dev' /\ q.key = keyOf'[q.device]
  BY <1>1 DEF ReqFits
<1>3. ASSUME q.pc \in Batched PROVE q.device \in DOMAIN ledger'.chains /\ Signed(q.device, q.entries)'
  <2>1. q.device \in Dev /\ Signed(q.device, q.entries)
    BY <1>1, <1>3 DEF ReqFits
  <2> QED BY <1>3, <2>1, SignedStays DEF ReqFits
<1>4. ASSUME q.pc = "append" PROVE SignedBy(q.device, q.head)'
  <2>1. q.device \in Dev /\ SignedBy(q.device, q.head)
    BY <1>1, <1>4 DEF ReqFits, Batched
  <2> QED BY <2>1, SignedByStays
<1> QED BY <1>2, <1>3, <1>4 DEF ReqFits

LEMMA RequestsStay ==
  ASSUME LedgerOK, SignedGrows, DOMAIN ledger.chains \subseteq DOMAIN ledger'.chains,
         ReqOK, UNCHANGED req
  PROVE  ReqOK'
<1>1. ASSUME NEW r \in Request PROVE ReqFits(req[r])'
  <2> PICK q : q = req[r]
    OBVIOUS
  <2>1. ReqFits(q)
    BY DEF ReqOK
  <2>2. ReqFits(q)'
    BY <2>1, FitsStays
  <2>3. q = req'[r]
    OBVIOUS
  <2> QED BY <2>2, <2>3 DEF ReqFits, Signed, SignedBy, Emitted
<1> QED BY <1>1 DEF ReqOK

\* A handler takes a step to a request that fits.
LEMMA RequestMoves ==
  ASSUME LedgerOK, SignedGrows, DOMAIN ledger.chains \subseteq DOMAIN ledger'.chains,
         ReqOK, NEW r \in Request, NEW q, ReqFits(q)', req' = [req EXCEPT ![r] = q]
  PROVE  ReqOK'
<1>0. req \in [Request -> ReqType] /\ q \in ReqType
  BY DEF ReqOK, ReqFits
<1>1. ASSUME NEW s \in Request PROVE ReqFits(req[s])'
  <2> PICK p : p = req'[s]
    OBVIOUS
  <2>1. p = IF s = r THEN q ELSE req[s]
    BY <1>0
  <2>2. ReqFits(p)'
    <3>1. CASE s = r
      BY <2>1, <3>1
    <3>2. CASE s # r
      <4>1. ReqFits(p)
        BY <2>1, <3>2 DEF ReqOK
      <4> QED BY <4>1, FitsStays
    <3> QED BY <3>1, <3>2
  <2> QED BY <2>2 DEF ReqFits, Signed, SignedBy, Emitted
<1>2. req' \in [Request -> ReqType]
  BY <1>0
<1> QED BY <1>1, <1>2 DEF ReqOK

LEMMA IdleFits == ReqFits(Idle)
BY DEF ReqFits, ReqType, Idle, EnrollReq, Batched

LEMMA IdleFitsNext == ReqFits(Idle)'
BY DEF ReqFits, ReqType, Idle, EnrollReq, Batched
-----------------------------------------------------------------------------
(* What a step leaves as it was for a device. *)

SameRequests(d) ==
  Requests(d)' = Requests(d) /\ \A r \in Requests(d) : req'[r] = req[r]
SameChain(d) ==
  /\ d \in DOMAIN ledger'.chains <=> d \in DOMAIN ledger.chains
  /\ d \in DOMAIN ledger.chains => ledger'.chains[d] = ledger.chains[d]
SameTable(d) ==
  /\ d \in DOMAIN pgAudit'.audit_chain <=> d \in DOMAIN pgAudit.audit_chain
  /\ d \in DOMAIN pgAudit.audit_chain => pgAudit'.audit_chain[d] = pgAudit.audit_chain[d]
SameRows(d) ==
  \A n \in Nat :
    /\ <<d, n>> \in DOMAIN pgAudit'.audit_event <=> <<d, n>> \in DOMAIN pgAudit.audit_event
    /\ <<d, n>> \in DOMAIN pgAudit.audit_event =>
         pgAudit'.audit_event[<<d, n>>] = pgAudit.audit_event[<<d, n>>]
SameAlerts(d) ==
  AlertsOf(d)' = AlertsOf(d) /\ \A i \in AlertsOf(d) : ledger'.alerts[i] = ledger.alerts[i]
MoreEvents ==
  \A i \in DOMAIN memAudit.events :
    i \in DOMAIN memAudit'.events /\ memAudit'.events[i] = memAudit.events[i]
MoreAlerts ==
  \A j \in DOMAIN pgAudit.audit_alert :
    j \in DOMAIN pgAudit'.audit_alert /\ pgAudit'.audit_alert[j] = pgAudit.audit_alert[j]
SameStores(d) ==
  SameChain(d) /\ SameTable(d) /\ SameRows(d) /\ SameAlerts(d) /\ MoreEvents /\ MoreAlerts

LEMMA KeptStays ==
  ASSUME NEW d \in DOMAIN ledger.chains, NEW n \in Nat, SameChain(d), SameRows(d), MoreEvents, Kept(d, n)
  PROVE  Kept(d, n)'
BY DEF SameChain, SameRows, MoreEvents, Kept

LEMMA SyncedStays ==
  ASSUME NEW d, LedgerOK, d \in DOMAIN ledger.chains,
         SameChain(d), SameTable(d), SameRows(d), MoreEvents, Synced(d)
  PROVE  Synced(d)'
<1>1. \A n \in 1..Len(ledger.chains[d].head) : Kept(d, n)'
  <2> TAKE n \in 1..Len(ledger.chains[d].head)
  <2>1. ledger.chains[d].head \in Seq(Link)
    BY DEF LedgerOK, Chain, ChainHash
  <2>2. n \in Nat
    BY <2>1
  <2> QED BY <2>2, KeptStays DEF Synced
<1> QED BY <1>1 DEF SameChain, SameTable, Synced

LEMMA CarriesStays ==
  ASSUME NEW d, NEW entries, LedgerOK, d \in DOMAIN ledger.chains,
         SameChain(d), SameRows(d), MoreEvents, Carries(d, entries)
  PROVE  Carries(d, entries)'
<1>1. ledger.chains[d].head \in Seq(Link)
  BY DEF LedgerOK, Chain, ChainHash
<1>2. \A n \in 1..Len(ledger.chains[d].head) : Kept(d, n) => Kept(d, n)'
  BY <1>1, KeptStays
<1> QED BY <1>2 DEF SameChain, Carries

LEMMA RecordedStays ==
  ASSUME NEW d, SameAlerts(d), MoreAlerts, NEW i \in AlertsOf(d), Recorded(i)
  PROVE  Recorded(i)'
BY DEF SameAlerts, MoreAlerts, Recorded

LEMMA ChainStays ==
  ASSUME NEW d, LedgerOK, SameRequests(d), SameChain(d), SameTable(d), SameRows(d), MoreEvents,
         ChainSynced(d)
  PROVE  ChainSynced(d)'
<1> SUFFICES ASSUME d \in DOMAIN ledger'.chains
             PROVE  Synced(d)' \/ \E r \in Requests(d)' : req'[r].pc \in Batched \cup {"persist"}
  BY DEF ChainSynced
<1>1. d \in DOMAIN ledger.chains
  BY DEF SameChain
<1>2. CASE Synced(d)
  BY <1>1, <1>2, SyncedStays
<1>3. ASSUME NEW r \in Requests(d), req[r].pc \in Batched \cup {"persist"}
      PROVE  \E s \in Requests(d)' : req'[s].pc \in Batched \cup {"persist"}
  BY <1>3 DEF SameRequests
<1> QED BY <1>1, <1>2, <1>3 DEF ChainSynced

LEMMA RegisterStays ==
  ASSUME NEW d, SameRequests(d), SameChain(d), RegisterSynced(d)
  PROVE  RegisterSynced(d)'
<1> SUFFICES ASSUME NEW r \in Requests(d)', req'[r].pc = "persist"
             PROVE  d \in DOMAIN ledger'.chains /\ ledger'.chains[d] = Fresh(req'[r].key)
  BY DEF RegisterSynced, Fresh
<1>1. r \in Requests(d) /\ req'[r] = req[r]
  BY DEF SameRequests
<1> QED BY <1>1 DEF SameChain, RegisterSynced

LEMMA BatchStays ==
  ASSUME NEW d, LedgerOK, ReqOK, SameRequests(d), SameChain(d), SameTable(d), SameRows(d),
         MoreEvents, BatchSynced(d)
  PROVE  BatchSynced(d)'
<1> SUFFICES ASSUME NEW r \in Requests(d)', req'[r].pc \in Batched
             PROVE  /\ d \in DOMAIN pgAudit'.audit_chain /\ Carries(d, req[r].entries)'
                    /\ req'[r].pc \in {"head", "append"} => req'[r].next_seq = ledger'.chains[d].next_seq
                    /\ req'[r].pc = "append" => req'[r].head = ledger'.chains[d].head
  BY DEF BatchSynced
<1>1. r \in Requests(d) /\ req'[r] = req[r] /\ r \in Request /\ req[r].device = d
  BY DEF SameRequests, Requests
<1>2. d \in DOMAIN ledger.chains
  BY <1>1 DEF ReqOK, ReqFits
<1>3. PICK es : es = req[r].entries
  OBVIOUS
<1>4. Carries(d, es)
  BY <1>1, <1>3 DEF BatchSynced
<1>5. Carries(d, es)'
  BY <1>2, <1>4, CarriesStays
<1>6. Carries(d, req[r].entries)'
  <2>1. req'[r].entries = es
    BY ONLY <1>1, <1>3
  <2> QED BY ONLY <1>5, <2>1 DEF Carries
<1>7. d \in DOMAIN pgAudit'.audit_chain
  BY <1>1 DEF BatchSynced, SameTable
<1>8. req[r].pc \in {"head", "append"} => req[r].next_seq = ledger.chains[d].next_seq
  BY <1>1 DEF BatchSynced
<1>9. req[r].pc = "append" => req[r].head = ledger.chains[d].head
  BY <1>1 DEF BatchSynced
<1>10. ledger'.chains[d] = ledger.chains[d]
  BY <1>2 DEF SameChain
<1> QED BY <1>1, <1>6, <1>7, <1>8, <1>9, <1>10

LEMMA AlertsStay ==
  ASSUME NEW d, SameRequests(d), SameAlerts(d), MoreAlerts, AlertsSynced(d)
  PROVE  AlertsSynced(d)'
<1>1. \A i \in AlertsOf(d) : Recorded(i) => Recorded(i)'
  BY RecordedStays
<1>2. (\A i \in AlertsOf(d)' : Recorded(i)') \/ \E r \in Requests(d)' : req'[r].pc \in Alerted
  BY <1>1 DEF AlertsSynced, SameRequests, SameAlerts
<1>3. ASSUME NEW r \in Requests(d)'
      PROVE  /\ req'[r].pc = "alert" => \A i, j \in AlertsOf(d)' : i < j => Recorded(i)'
             /\ req'[r].pc = "record" =>
                  \A i \in AlertsOf(d)' : Recorded(i)' \/ ledger'.alerts[i] = req'[r].alert
  BY <1>1 DEF AlertsSynced, SameRequests, SameAlerts
<1> QED BY <1>2, <1>3 DEF AlertsSynced

LEMMA RowsSyncStays ==
  ASSUME NEW d, SameChain(d), SameRows(d), d \in reused => d \in reused', RowsSynced(d)
  PROVE  RowsSynced(d)'
BY DEF SameChain, SameRows, RowsSynced

LEMMA KnownStays ==
  ASSUME NEW d, SameChain(d), SameTable(d), ChainKnown(d)
  PROVE  ChainKnown(d)'
BY DEF SameChain, SameTable, ChainKnown

\* A device that a step does not touch stays in step.
LEMMA DeviceStays ==
  ASSUME NEW d, LedgerOK, ReqOK, SameRequests(d), SameStores(d), d \in reused => d \in reused',
         DeviceSynced(d)
  PROVE  DeviceSynced(d)'
<1>1. /\ ChainSynced(d) /\ RegisterSynced(d) /\ BatchSynced(d) /\ AlertsSynced(d)
      /\ RowsSynced(d) /\ ChainKnown(d) /\ \A r, s \in Requests(d) : r = s
  BY DEF DeviceSynced
<1>2. ChainSynced(d)' /\ RegisterSynced(d)' /\ BatchSynced(d)'
  BY <1>1, ChainStays, RegisterStays, BatchStays DEF SameStores
<1>3. AlertsSynced(d)' /\ RowsSynced(d)' /\ ChainKnown(d)'
  BY <1>1, AlertsStay, RowsSyncStays, KnownStays DEF SameStores
<1>4. \A r, s \in Requests(d)' : r = s
  BY <1>1 DEF SameRequests
<1> QED BY <1>2, <1>3, <1>4 DEF DeviceSynced
-----------------------------------------------------------------------------
(* The device of a request that moves, and the others.                     *)

LEMMA RequestTyped ==
  ASSUME ReqOK, NEW r \in Request
  PROVE  req[r] \in ReqType /\ ReqFits(req[r]) /\ (req[r] = Idle <=> req[r].pc = "idle")
<1>1. req[r] \in ReqType /\ ReqFits(req[r])
  BY DEF ReqOK
<1>2. req[r] = Idle <=> req[r].pc = "idle"
  BY <1>1 DEF ReqType, Idle, EnrollReq, PositionReq, HeadReq, AppendReq, AlertReq, RecordReq
<1> QED BY <1>1, <1>2

LEMMA OtherRequests ==
  ASSUME ReqOK, NEW r \in Request, NEW q, req' = [req EXCEPT ![r] = q], NEW d,
         req[r] = Idle \/ req[r].device # d, q = Idle \/ q.device # d
  PROVE  SameRequests(d)
<1>1. /\ req'[r] = q /\ \A s \in Request : s # r => req'[s] = req[s]
  BY DEF ReqOK
<1> QED BY <1>1 DEF SameRequests, Requests

LEMMA OwnRequest ==
  ASSUME ReqOK, NEW r \in Request, NEW q, req' = [req EXCEPT ![r] = q], NEW d,
         Requests(d) \subseteq {r}
  PROVE  /\ req'[r] = q
         /\ q # Idle /\ q.device = d => Requests(d)' = {r}
         /\ q = Idle => Requests(d)' = {}
<1>1. /\ req'[r] = q /\ \A s \in Request : s # r => req'[s] = req[s]
  BY DEF ReqOK
<1> QED BY <1>1 DEF Requests

LEMMA FlightMeans == \A d : InFlight(d) <=> Requests(d) # {}
BY DEF InFlight, Requests

LEMMA StoresUntouched ==
  ASSUME UNCHANGED auditVars, NEW d
  PROVE  SameStores(d)
BY DEF auditVars, SameStores, SameChain, SameTable, SameRows, SameAlerts, MoreEvents, MoreAlerts,
       AlertsOf

\* A step about one device.
LEMMA SyncMoves ==
  ASSUME AuditInv, excused \subseteq excused', reused \subseteq reused', NEW d0,
         \A d \in Nat \ {d0} : SameRequests(d) /\ SameStores(d),
         d0 \in Nat \ excused' /\ DeviceSynced(d0) => DeviceSynced(d0)'
  PROVE  SyncInv'
<1> SUFFICES ASSUME NEW d \in Nat \ excused' PROVE DeviceSynced(d)'
  BY DEF SyncInv
<1>1. DeviceSynced(d) /\ LedgerOK /\ ReqOK
  BY DEF AuditInv, SyncInv, TablesInv
<1>2. CASE d = d0
  BY <1>1, <1>2
<1>3. CASE d # d0
  <2>1. SameRequests(d) /\ SameStores(d) /\ (d \in reused => d \in reused')
    BY <1>3
  <2> QED BY <1>1, <2>1, DeviceStays
<1> QED BY <1>2, <1>3

LEMMA SyncStays ==
  ASSUME AuditInv, UNCHANGED <<req, excused, reused>>, UNCHANGED auditVars
  PROVE  SyncInv'
<1>1. \A d : SameRequests(d)
  BY DEF SameRequests, Requests
<1>2. \A d : SameStores(d)
  BY StoresUntouched
<1> SUFFICES ASSUME NEW d \in Nat \ excused' PROVE DeviceSynced(d)'
  BY DEF SyncInv
<1>3. DeviceSynced(d) /\ LedgerOK /\ ReqOK
  BY DEF AuditInv, SyncInv, TablesInv
<1> QED BY <1>1, <1>2, <1>3, DeviceStays

\* What is in step with the ledger stays so when only the requests move.
LEMMA StoresStep ==
  ASSUME LedgerOK, NEW d, SameStores(d), d \in reused => d \in reused', DeviceSynced(d)
  PROVE  /\ RowsSynced(d)' /\ ChainKnown(d)'
         /\ d \in DOMAIN ledger.chains /\ Synced(d) => Synced(d)'
         /\ d \in DOMAIN ledger'.chains <=> d \in DOMAIN ledger.chains
         /\ \A i \in AlertsOf(d)' : i \in AlertsOf(d) /\ (Recorded(i) => Recorded(i)')
<1>1. RowsSynced(d)' /\ ChainKnown(d)'
  BY RowsSyncStays, KnownStays DEF SameStores, DeviceSynced
<1>2. d \in DOMAIN ledger.chains /\ Synced(d) => Synced(d)'
  BY SyncedStays DEF SameStores
<1>3. d \in DOMAIN ledger'.chains <=> d \in DOMAIN ledger.chains
  BY DEF SameStores, SameChain
<1>4. \A i \in AlertsOf(d)' : i \in AlertsOf(d) /\ (Recorded(i) => Recorded(i)')
  BY RecordedStays DEF SameStores, SameAlerts
<1> QED BY <1>1, <1>2, <1>3, <1>4

\* No request is left, or one that has nothing to store.
LEMMA NothingPending ==
  ASSUME NEW d, \A r, s \in Requests(d)' : r = s,
         d \in DOMAIN ledger'.chains => Synced(d)',
         \A i \in AlertsOf(d)' : Recorded(i)', RowsSynced(d)', ChainKnown(d)',
         \A r \in Requests(d)' : req'[r].pc \in {"register", "certify"}
  PROVE  DeviceSynced(d)'
BY DEF DeviceSynced, ChainSynced, RegisterSynced, BatchSynced, AlertsSynced, Batched

-----------------------------------------------------------------------------
(* The handlers, one step at a time. *)

\* Steps that change no table and no ledger.
LEMMA TypesStay ==
  ASSUME TablesInv, SignedGrows, UNCHANGED auditVars, excused \subseteq excused', reused \subseteq reused'
  PROVE  LedgerOK' /\ ShapesOK' /\ ChainsOK' /\ RowsOK'
<1>1. /\ LedgerOK /\ ShapesOK /\ ChainsOK /\ RowsOK /\ UNCHANGED ledger
      /\ UNCHANGED <<memAudit, pgAudit>>
  BY DEF TablesInv, auditVars
<1>3. ShapesOK'
  BY <1>1 DEF ShapesOK
<1>2. \A d \in Dev : d \in reused \cup excused => d \in (reused \cup excused)'
  OBVIOUS
<1> QED BY <1>1, <1>2, <1>3, LedgerStays, ChainsStay, RowsStay

LEMMA SpoolsStay ==
  ASSUME SpoolsOK, emitted \subseteq emitted', UNCHANGED spool
  PROVE  SpoolsOK'
BY DEF SpoolsOK, Emitted

\* A call of the console, or nothing at all.
LEMMA QuietStep ==
  ASSUME AuditInv, SignedGrows, AuxOK',
         UNCHANGED <<req, spool, emitted, excused, reused>>, UNCHANGED auditVars
  PROVE  AuditInv'
<1>1. TablesInv
  BY DEF AuditInv
<1>2. LedgerOK' /\ ShapesOK' /\ ChainsOK' /\ RowsOK'
  BY <1>1, TypesStay
<1>3. ReqOK'
  BY <1>1, RequestsStay DEF TablesInv, auditVars
<1>4. SpoolsOK'
  BY <1>1, SpoolsStay DEF TablesInv
<1> QED BY <1>2, <1>3, <1>4, SyncStays DEF AuditInv, TablesInv

\* complete_enrollment begins: the device is the one recorded, with its key.
LEMMA EnrollBegins ==
  ASSUME AuditInv, SignedGrows, AuxOK', NEW r \in Request, NEW d0 \in Nat, d0 \in Dev',
         NEW key \in Key, keyOf'[d0] = key, req[r] = Idle,
         req' = [req EXCEPT ![r] = [pc |-> "register", device |-> d0, key |-> key]],
         Excuse(d0), UNCHANGED <<spool, emitted, reused>>, UNCHANGED auditVars
  PROVE  AuditInv'
<1>1. TablesInv /\ LedgerOK /\ ReqOK /\ SpoolsOK
  BY DEF AuditInv, TablesInv
<1>2. excused \subseteq excused' /\ reused \subseteq reused' /\ (d0 \notin excused' => Requests(d0) = {})
  BY FlightMeans DEF Excuse
<1>3. LedgerOK' /\ ShapesOK' /\ ChainsOK' /\ RowsOK' /\ SpoolsOK'
  BY <1>1, <1>2, TypesStay, SpoolsStay
<1>4. PICK q : q = [pc |-> "register", device |-> d0, key |-> key]
  OBVIOUS
<1>5. q \in EnrollReq /\ q.pc = "register" /\ q.device = d0 /\ q.key = key /\ q # Idle
  BY <1>4 DEF EnrollReq, Idle
<1>6. ReqFits(q)'
  BY <1>5 DEF ReqFits, ReqType, Batched
<1>7. req' = [req EXCEPT ![r] = q]
  BY <1>4
<1>8. ReqOK'
  <2>1. DOMAIN ledger.chains \subseteq DOMAIN ledger'.chains
    BY DEF auditVars
  <2> QED BY <1>1, <1>6, <1>7, <2>1, RequestMoves
<1>9. \A d \in Nat \ {d0} : SameRequests(d) /\ SameStores(d)
  <2> TAKE d \in Nat \ {d0}
  <2>1. SameRequests(d)
    BY <1>1, <1>5, <1>7, OtherRequests
  <2> QED BY <2>1, StoresUntouched
<1>10. ASSUME d0 \in Nat \ excused', DeviceSynced(d0) PROVE DeviceSynced(d0)'
  <2>1. Requests(d0)' = {r} /\ req'[r] = q
    BY <1>1, <1>2, <1>5, <1>7, <1>10, OwnRequest
  <2>2. SameStores(d0)
    BY StoresUntouched
  <2>3. /\ d0 \in DOMAIN ledger.chains => Synced(d0)
        /\ \A i \in AlertsOf(d0) : Recorded(i)
    BY <1>2, <1>10 DEF DeviceSynced, ChainSynced, AlertsSynced
  <2>4. /\ d0 \in DOMAIN ledger'.chains => Synced(d0)'
        /\ \A i \in AlertsOf(d0)' : Recorded(i)'
        /\ RowsSynced(d0)' /\ ChainKnown(d0)'
    BY <1>1, <1>2, <1>10, <2>2, <2>3, StoresStep
  <2> QED BY <1>5, <2>1, <2>4, NothingPending
<1>11. SyncInv'
  BY <1>2, <1>9, <1>10, SyncMoves
<1> QED BY <1>3, <1>8, <1>11 DEF AuditInv, TablesInv

\* A handler's only request for d0 is r, which becomes q.
Moved(r, q, d0) ==
  /\ Requests(d0) = {r} /\ req'[r] = q
  /\ q # Idle => Requests(d0)' = {r}
  /\ q = Idle => Requests(d0)' = {}

LEMMA HandlerStep ==
  ASSUME AuditInv, SignedGrows, LedgerOK', ShapesOK', ChainsOK', RowsOK', SpoolsOK', AuxOK',
         DOMAIN ledger.chains \subseteq DOMAIN ledger'.chains,
         excused \subseteq excused', reused \subseteq reused',
         NEW r \in Request, NEW d0, d0 = req[r].device, req[r].pc # "idle",
         NEW q, ReqFits(q)', q = Idle \/ q.device = d0, req' = [req EXCEPT ![r] = q],
         \A d \in Nat \ {d0} : SameStores(d),
         d0 \in Nat \ excused' /\ DeviceSynced(d0) /\ Moved(r, q, d0) => DeviceSynced(d0)'
  PROVE  AuditInv'
<1>1. LedgerOK /\ ReqOK
  BY DEF AuditInv, TablesInv
<1>2. ReqOK'
  BY <1>1, RequestMoves
<1>3. req[r] # Idle /\ r \in Requests(d0)
  BY <1>1, RequestTyped DEF Requests
<1>4. \A d \in Nat \ {d0} : SameRequests(d) /\ SameStores(d)
  BY <1>1, OtherRequests
<1>5. ASSUME d0 \in Nat \ excused', DeviceSynced(d0) PROVE DeviceSynced(d0)'
  <2>1. Requests(d0) = {r}
    BY <1>3, <1>5 DEF DeviceSynced
  <2>2. Moved(r, q, d0)
    BY <1>1, <2>1, OwnRequest DEF Moved
  <2> QED BY <1>5, <2>2
<1>6. SyncInv'
  BY <1>4, <1>5, SyncMoves
<1> QED BY <1>2, <1>6 DEF AuditInv, TablesInv

\* The handlers that read, or end.
LEMMA ReaderStep ==
  ASSUME AuditInv, SignedGrows, AuxOK', NEW r \in Request, NEW d0, d0 = req[r].device,
         req[r].pc # "idle", NEW q, ReqFits(q)', q = Idle \/ q.device = d0,
         req' = [req EXCEPT ![r] = q],
         UNCHANGED <<spool, emitted, excused, reused>>, UNCHANGED auditVars,
         d0 \in Nat \ excused /\ DeviceSynced(d0) /\ Moved(r, q, d0) => DeviceSynced(d0)'
  PROVE  AuditInv'
<1>1. TablesInv /\ SpoolsOK
  BY DEF AuditInv, TablesInv
<1>2. LedgerOK' /\ ShapesOK' /\ ChainsOK' /\ RowsOK' /\ SpoolsOK'
  BY <1>1, TypesStay, SpoolsStay
<1>3. \A d \in Nat \ {d0} : SameStores(d)
  BY StoresUntouched
<1>4. DOMAIN ledger.chains \subseteq DOMAIN ledger'.chains
  BY DEF auditVars
<1> QED BY <1>2, <1>3, <1>4, HandlerStep

LEMMA CertifyStep ==
  ASSUME AuditInv, SignedGrows, AuxOK', NEW r \in Request, req[r].pc = "certify",
         req' = [req EXCEPT ![r] = Idle],
         UNCHANGED <<spool, emitted, excused, reused>>, UNCHANGED auditVars
  PROVE  AuditInv'
<1>1. LedgerOK
  BY DEF AuditInv, TablesInv
<1>2. PICK d0 : d0 = req[r].device
  OBVIOUS
<1>3. ASSUME d0 \in Nat \ excused, DeviceSynced(d0), Moved(r, Idle, d0) PROVE DeviceSynced(d0)'
  <2>1. Requests(d0) = {r} /\ Requests(d0)' = {}
    BY <1>3 DEF Moved
  <2>2. SameStores(d0)
    BY StoresUntouched
  <2>3. /\ d0 \in DOMAIN ledger.chains => Synced(d0)
        /\ \A i \in AlertsOf(d0) : Recorded(i)
    BY <1>3, <2>1 DEF DeviceSynced, ChainSynced, AlertsSynced, Batched, Alerted
  <2>4. /\ d0 \in DOMAIN ledger'.chains => Synced(d0)'
        /\ \A i \in AlertsOf(d0)' : Recorded(i)'
        /\ RowsSynced(d0)' /\ ChainKnown(d0)'
    BY <1>1, <1>3, <2>2, <2>3, StoresStep
  <2> QED BY <2>1, <2>4, NothingPending
<1>4. req[r].pc # "idle"
  OBVIOUS
<1> QED BY <1>2, <1>3, <1>4, IdleFitsNext, ReaderStep

\* The entries of a batch under way, and what is read with them.
LEMMA BatchReader ==
  ASSUME AuditInv, NEW r \in Request, NEW d0, NEW q, req[r].pc \in Batched, q.pc \in Batched,
         q.entries = req[r].entries, UNCHANGED auditVars, UNCHANGED reused,
         q.pc \in {"head", "append"} =>
           \/ q.next_seq = ledger.chains[d0].next_seq
           \/ req[r].pc = "head" /\ q.next_seq = req[r].next_seq,
         q.pc = "append" => q.head = ledger.chains[d0].head,
         d0 = req[r].device, q # Idle, DeviceSynced(d0), Moved(r, q, d0)
  PROVE  DeviceSynced(d0)'
<1>1. /\ LedgerOK /\ ReqOK /\ Requests(d0) = {r} /\ Requests(d0)' = {r} /\ req'[r] = q
      /\ SameStores(d0)
  BY StoresUntouched DEF AuditInv, TablesInv, Moved
<1>2. RowsSynced(d0)' /\ ChainKnown(d0)'
  BY <1>1, StoresStep
<1>3. ChainSynced(d0)' /\ RegisterSynced(d0)'
  BY <1>1 DEF ChainSynced, RegisterSynced, Batched
<1>4. d0 \in DOMAIN ledger.chains
  BY <1>1 DEF ReqOK, ReqFits
<1>5. PICK es : es = req[r].entries
  OBVIOUS
<1>6. d0 \in DOMAIN pgAudit.audit_chain /\ Carries(d0, es)
  BY <1>1, <1>5 DEF DeviceSynced, BatchSynced
<1>7. Carries(d0, es)'
  BY <1>1, <1>4, <1>6, CarriesStays DEF SameStores
<1>8. q.pc \in {"head", "append"} => q.next_seq = ledger.chains[d0].next_seq
  BY <1>1 DEF DeviceSynced, BatchSynced
<1>9. BatchSynced(d0)'
  <2>1. /\ ledger' = ledger /\ pgAudit' = pgAudit
        /\ \A s \in Requests(d0)' : s = r
    BY <1>1 DEF auditVars
  <2>2. req'[r].entries = es
    BY <1>1, <1>5
  <2>3. Carries(d0, req[r].entries)'
    BY <1>7, <2>2 DEF Carries
  <2> QED BY <1>1, <1>6, <1>8, <2>1, <2>3 DEF BatchSynced
<1>10. AlertsSynced(d0)'
  <2>1. \A i \in AlertsOf(d0) : Recorded(i)
    BY <1>1 DEF DeviceSynced, AlertsSynced, Alerted, Batched
  <2>2. \A i \in AlertsOf(d0)' : Recorded(i)'
    BY <1>1, <2>1, StoresStep
  <2> QED BY <1>1, <2>2 DEF AlertsSynced, Batched
<1> QED BY <1>1, <1>2, <1>3, <1>9, <1>10 DEF DeviceSynced

LEMMA HighWaterStep ==
  ASSUME AuditInv, SignedGrows, AuxOK', NEW r \in Request, high_water(r)
  PROVE  AuditInv'
<1>1. PICK d0, es, q : /\ d0 = req[r].device /\ es = req[r].entries
                       /\ q = [pc |-> "head", next_seq |-> ChainOf(d0).next_seq, device |-> d0,
                               entries |-> es]
  OBVIOUS
<1>2. /\ req[r].pc = "position" /\ req' = [req EXCEPT ![r] = q]
      /\ UNCHANGED <<spool, emitted, excused, reused>> /\ UNCHANGED auditVars
  BY <1>1 DEF high_water, auxVars
<1>3. /\ LedgerOK /\ ReqOK /\ req[r] \in PositionReq
      /\ d0 \in DOMAIN ledger.chains /\ Signed(d0, es)
  <2>1. LedgerOK /\ ReqOK /\ ReqFits(req[r])
    BY DEF AuditInv, TablesInv, ReqOK
  <2> QED BY <1>1, <1>2, <2>1 DEF ReqFits, ReqType, Idle, EnrollReq, PositionReq, HeadReq,
                                  AppendReq, AlertReq, RecordReq, Batched
<1>4. ChainOf(d0) = ledger.chains[d0] /\ ledger.chains[d0].next_seq \in Nat \ {0} /\ d0 \in Dev
  BY <1>3 DEF ChainOf, LedgerOK, Chain
<1>5. /\ q.pc = "head" /\ q.device = d0 /\ q.entries = es /\ q # Idle
      /\ q.next_seq = ledger.chains[d0].next_seq /\ q \in HeadReq
  BY <1>1, <1>3, <1>4 DEF Idle, HeadReq, PositionReq
<1>6. ReqFits(q)'
  <2>1. q \in ReqType /\ ~(q \in EnrollReq)
    BY <1>5 DEF ReqType, EnrollReq
  <2>2. Signed(d0, es)'
    BY <1>3, <1>4, SignedStays
  <2>3. d0 \in DOMAIN ledger'.chains
    BY <1>2, <1>3 DEF auditVars
  <2> QED BY <1>5, <2>1, <2>2, <2>3 DEF ReqFits
<1>7. ASSUME d0 \in Nat \ excused, DeviceSynced(d0), Moved(r, q, d0) PROVE DeviceSynced(d0)'
  <2>1. req[r].pc \in Batched /\ q.pc \in Batched /\ q.pc # "append"
    BY <1>2, <1>5 DEF Batched
  <2>2. q.entries = req[r].entries /\ UNCHANGED reused /\ UNCHANGED auditVars
    BY <1>1, <1>2, <1>5
  <2>3. d0 = req[r].device /\ q # Idle /\ q.next_seq = ledger.chains[d0].next_seq
    BY <1>1, <1>5
  <2>4. q.pc = "append" => q.head = ledger.chains[d0].head
    BY <2>1
  <2> QED BY <1>7, <2>1, <2>2, <2>3, <2>4, BatchReader
<1> QED BY <1>1, <1>2, <1>5, <1>6, <1>7, ReaderStep

LEMMA HeadForStep ==
  ASSUME AuditInv, SignedGrows, AuxOK', NEW r \in Request, head_for(r)
  PROVE  AuditInv'
<1>1. PICK d0, es, q : /\ d0 = req[r].device /\ es = req[r].entries
                       /\ q = [pc |-> "append", head |-> ChainOf(d0).head,
                               next_seq |-> req[r].next_seq, device |-> d0, entries |-> es]
  OBVIOUS
<1>2. /\ req[r].pc = "head" /\ req' = [req EXCEPT ![r] = q]
      /\ UNCHANGED <<spool, emitted, excused, reused>> /\ UNCHANGED auditVars
  BY <1>1 DEF head_for, auxVars
<1>3. /\ LedgerOK /\ ReqOK /\ req[r] \in HeadReq
      /\ d0 \in DOMAIN ledger.chains /\ Signed(d0, es)
  <2>1. LedgerOK /\ ReqOK /\ ReqFits(req[r])
    BY DEF AuditInv, TablesInv, ReqOK
  <2> QED BY <1>1, <1>2, <2>1 DEF ReqFits, ReqType, Idle, EnrollReq, PositionReq, HeadReq,
                                  AppendReq, AlertReq, RecordReq, Batched
<1>4. /\ ChainOf(d0) = ledger.chains[d0] /\ ledger.chains[d0].head \in ChainHash /\ d0 \in Dev
      /\ SignedBy(d0, ledger.chains[d0].head)
  BY <1>3 DEF ChainOf, LedgerOK, Chain
<1>5. /\ q.pc = "append" /\ q.device = d0 /\ q.entries = es /\ q # Idle
      /\ q.head = ledger.chains[d0].head /\ q.next_seq = req[r].next_seq /\ q \in AppendReq
  BY <1>1, <1>3, <1>4 DEF Idle, HeadReq, AppendReq
<1>6. ReqFits(q)'
  <2>1. q \in ReqType /\ ~(q \in EnrollReq)
    BY <1>5 DEF ReqType, EnrollReq
  <2>2. Signed(d0, es)' /\ SignedBy(d0, q.head)'
    BY <1>3, <1>4, <1>5, SignedStays, SignedByStays
  <2>3. d0 \in DOMAIN ledger'.chains
    BY <1>2, <1>3 DEF auditVars
  <2> QED BY <1>5, <2>1, <2>2, <2>3 DEF ReqFits
<1>7. ASSUME d0 \in Nat \ excused, DeviceSynced(d0), Moved(r, q, d0) PROVE DeviceSynced(d0)'
  <2>1. req[r].pc \in Batched /\ q.pc \in Batched
    BY <1>2, <1>5 DEF Batched
  <2> QED BY <1>1, <1>2, <1>5, <1>7, <2>1, BatchReader
<1> QED BY <1>1, <1>2, <1>5, <1>6, <1>7, ReaderStep

\* The request of a handler, by its pc.
LEMMA ByPc ==
  ASSUME ReqOK, NEW r \in Request
  PROVE  /\ req[r].pc \in {"register", "persist", "certify"} => req[r] \in EnrollReq
         /\ req[r].pc = "append" => req[r] \in AppendReq
         /\ req[r].pc = "alert" => req[r] \in AlertReq
         /\ req[r].pc = "record" => req[r] \in RecordReq
<1>1. req[r] \in ReqType
  BY DEF ReqOK
<1> QED BY <1>1 DEF ReqType, Idle, EnrollReq, PositionReq, HeadReq, AppendReq, AlertReq, RecordReq

LEMMA FindAlertStep ==
  ASSUME AuditInv, SignedGrows, AuxOK', NEW r \in Request, FindAlert(r)
  PROVE  AuditInv'
<1>1. PICK d0 : d0 = req[r].device
  OBVIOUS
<1>2. /\ req[r].pc = "alert" /\ UNCHANGED <<spool, emitted, excused, reused>>
      /\ UNCHANGED auditVars
  BY DEF FindAlert, auxVars
<1>3. LedgerOK /\ ReqOK /\ req[r] \in AlertReq /\ d0 \in Nat /\ req[r].pc # "idle"
  BY <1>1, <1>2, ByPc DEF AuditInv, TablesInv, AlertReq
<1>4. ASSUME NEW q, DeviceSynced(d0), Moved(r, q, d0)
      PROVE  /\ d0 \in DOMAIN ledger'.chains => Synced(d0)'
             /\ RowsSynced(d0)' /\ ChainKnown(d0)'
             /\ AlertsOf(d0)' = AlertsOf(d0) /\ ledger' = ledger
             /\ \A i, j \in AlertsOf(d0) : i < j => Recorded(i)'
  <2>1. SameStores(d0) /\ Requests(d0) = {r}
    BY <1>2, <1>4, StoresUntouched DEF Moved
  <2>2. d0 \in DOMAIN ledger.chains => Synced(d0)
    BY <1>2, <1>4, <2>1 DEF DeviceSynced, ChainSynced, Batched
  <2>3. \A i, j \in AlertsOf(d0) : i < j => Recorded(i)
    BY <1>2, <1>4, <2>1 DEF DeviceSynced, AlertsSynced
  <2>4. AlertsOf(d0)' = AlertsOf(d0) /\ ledger' = ledger
    BY <1>2 DEF auditVars, AlertsOf
  <2> QED BY <1>2, <1>3, <1>4, <2>1, <2>2, <2>3, <2>4, StoresStep
<1>5. CASE AlertsOf(d0) = {} /\ req' = [req EXCEPT ![r] = Idle]
  <2>1. ASSUME d0 \in Nat \ excused, DeviceSynced(d0), Moved(r, Idle, d0) PROVE DeviceSynced(d0)'
    BY <1>4, <1>5, <2>1, NothingPending DEF Moved
  <2> QED BY <1>1, <1>2, <1>3, <1>5, <2>1, IdleFitsNext, ReaderStep
<1>6. ASSUME NEW i \in AlertsOf(d0), \A j \in AlertsOf(d0) : j <= i,
             req' = [req EXCEPT ![r] = [pc |-> "record", device |-> d0, alert |-> ledger.alerts[i]]]
      PROVE  AuditInv'
  <2>1. PICK q : q = [pc |-> "record", device |-> d0, alert |-> ledger.alerts[i]]
    OBVIOUS
  <2>2. ledger.alerts[i] \in Alert
    BY <1>3 DEF AlertsOf, LedgerOK
  <2>3. /\ q \in RecordReq /\ q.pc = "record" /\ q.device = d0 /\ q # Idle
        /\ q.alert = ledger.alerts[i]
    BY <1>3, <2>1, <2>2 DEF RecordReq, Idle
  <2>4. ReqFits(q)'
    BY <2>3 DEF ReqFits, ReqType, EnrollReq, Batched
  <2>5. ASSUME d0 \in Nat \ excused, DeviceSynced(d0), Moved(r, q, d0) PROVE DeviceSynced(d0)'
    <3>1. /\ Requests(d0)' = {r} /\ req'[r] = q
          /\ d0 \in DOMAIN ledger'.chains => Synced(d0)'
          /\ RowsSynced(d0)' /\ ChainKnown(d0)'
          /\ AlertsOf(d0)' = AlertsOf(d0) /\ ledger' = ledger
      BY <1>4, <2>3, <2>5 DEF Moved
    <3>2. \A j \in AlertsOf(d0) : j # i => Recorded(j)'
      <4> TAKE j \in AlertsOf(d0)
      <4>1. j \in Nat /\ i \in Nat
        BY <1>3 DEF AlertsOf, LedgerOK
      <4>2. j # i => j < i
        BY <1>6, <4>1
      <4> QED BY <1>4, <2>5, <4>2
    <3>3. AlertsSynced(d0)'
      BY <2>3, <3>1, <3>2 DEF AlertsSynced, Alerted
    <3>4. ChainSynced(d0)' /\ RegisterSynced(d0)' /\ BatchSynced(d0)'
      BY <2>3, <3>1 DEF ChainSynced, RegisterSynced, BatchSynced, Batched
    <3> QED BY <3>1, <3>3, <3>4 DEF DeviceSynced
  <2>6. req' = [req EXCEPT ![r] = q]
    BY <1>6, <2>1
  <2> QED BY <1>1, <1>2, <1>3, <2>3, <2>4, <2>5, <2>6, ReaderStep
<1> QED BY <1>1, <1>5, <1>6 DEF FindAlert

\* The alert that is recorded is the one that was missing.
LEMMA RecordAlertStep ==
  ASSUME AuditInv, SignedGrows, AuxOK', NEW r \in Request, RecordAlert(r)
  PROVE  AuditInv'
<1>1. PICK d0, a : d0 = req[r].device /\ a = req[r].alert
  OBVIOUS
<1>2. /\ req[r].pc = "record" /\ req[r].pc # "idle" /\ req' = [req EXCEPT ![r] = Idle]
      /\ UNCHANGED <<ledger, spool, emitted, reused>>
  BY DEF RecordAlert
<1>3. TablesInv /\ SpoolsOK /\ LedgerOK /\ ShapesOK /\ ChainsOK /\ RowsOK /\ ReqOK
      /\ req[r] \in RecordReq
      /\ d0 \in Nat /\ a \in Alert
  BY <1>1, <1>2, ByPc DEF AuditInv, TablesInv, RecordReq
<1>4. CASE excused' = excused \cup {d0} /\ UNCHANGED <<memAudit, pgAudit>>
  <2>1. UNCHANGED auditVars /\ excused \subseteq excused' /\ reused \subseteq reused'
    BY <1>2, <1>4 DEF auditVars
  <2>2. LedgerOK' /\ ShapesOK' /\ ChainsOK' /\ RowsOK' /\ SpoolsOK'
    BY <1>2, <1>3, <2>1, TypesStay, SpoolsStay
  <2>3. \A d \in Nat \ {d0} : SameStores(d)
    BY <2>1, StoresUntouched
  <2>4. DOMAIN ledger.chains \subseteq DOMAIN ledger'.chains /\ d0 \notin Nat \ excused'
    BY <1>2, <1>4
  <2> QED BY <1>1, <1>2, <2>1, <2>2, <2>3, <2>4, IdleFitsNext, HandlerStep
<1>5. CASE /\ memAudit' = [memAudit EXCEPT !.alerts = Append(@, a)]
           /\ pgAudit' = [pgAudit EXCEPT !.audit_alert = Append(@, a)]
           /\ UNCHANGED excused
  <2>1. /\ memAudit'.alerts = Append(memAudit.alerts, a) /\ memAudit'.chains = memAudit.chains
        /\ memAudit'.events = memAudit.events
        /\ memAudit' = [chains |-> memAudit'.chains, events |-> memAudit'.events,
                        alerts |-> memAudit'.alerts]
    BY <1>3, <1>5 DEF ShapesOK
  <2>2. /\ pgAudit'.audit_alert = Append(pgAudit.audit_alert, a)
        /\ pgAudit'.audit_chain = pgAudit.audit_chain /\ pgAudit'.audit_event = pgAudit.audit_event
        /\ pgAudit' = [audit_chain |-> pgAudit'.audit_chain, audit_event |-> pgAudit'.audit_event,
                       audit_alert |-> pgAudit'.audit_alert]
    BY <1>3, <1>5 DEF ShapesOK
  <2>3. /\ pgAudit.audit_alert \in Seq(Alert) /\ memAudit'.alerts = pgAudit'.audit_alert
        /\ memAudit'.alerts \in Seq(Alert)
    BY <1>3, <2>1, <2>2 DEF ShapesOK
  <2>4. /\ \A j \in DOMAIN pgAudit.audit_alert :
             j \in DOMAIN pgAudit'.audit_alert /\ pgAudit'.audit_alert[j] = pgAudit.audit_alert[j]
        /\ \E j \in DOMAIN pgAudit'.audit_alert : pgAudit'.audit_alert[j] = a
    BY <1>3, <2>2, <2>3
  <2>5. ASSUME NEW d PROVE SameStores(d)
    BY <1>2, <2>1, <2>2, <2>4 DEF SameStores, SameChain, SameTable, SameRows, SameAlerts, MoreEvents,
                                  MoreAlerts, AlertsOf
  <2>6. LedgerOK' /\ SpoolsOK'
    BY <1>2, <1>3, LedgerStays, SpoolsStay
  <2>7. ShapesOK'
    BY <2>1, <2>2, <2>3 DEF ShapesOK
  <2>8. ChainsOK' /\ RowsOK'
    BY <1>2, <1>3, <1>5, <2>1, <2>2, ChainsStay, RowsStay
  <2>9. ASSUME d0 \in Nat \ excused', DeviceSynced(d0), Moved(r, Idle, d0) PROVE DeviceSynced(d0)'
    <3>1. Requests(d0) = {r} /\ Requests(d0)' = {} /\ d0 \notin excused
      BY <1>5, <2>9 DEF Moved
    <3>2. d0 \in DOMAIN ledger.chains => Synced(d0)
      BY <1>2, <2>9, <3>1 DEF DeviceSynced, ChainSynced, Batched
    <3>3. \A i \in AlertsOf(d0) : Recorded(i) \/ ledger.alerts[i] = a
      BY <1>1, <1>2, <2>9, <3>1 DEF DeviceSynced, AlertsSynced
    <3>4. \A i : ledger.alerts[i] = a => Recorded(i)'
      BY <1>2, <2>4 DEF Recorded
    <3>5. /\ d0 \in DOMAIN ledger'.chains => Synced(d0)'
          /\ \A i \in AlertsOf(d0)' : Recorded(i)'
          /\ RowsSynced(d0)' /\ ChainKnown(d0)'
      BY <1>2, <1>3, <2>5, <2>9, <3>2, <3>3, <3>4, StoresStep
    <3> QED BY <3>1, <3>5, NothingPending
  <2>10. DOMAIN ledger.chains \subseteq DOMAIN ledger'.chains
    BY <1>2
  <2> QED
    BY <1>1, <1>2, <1>5, <2>5, <2>6, <2>7, <2>8, <2>9, <2>10, IdleFitsNext, HandlerStep
<1> QED BY <1>1, <1>4, <1>5 DEF RecordAlert

LEMMA FreshMeans ==
  ASSUME NEW key \in Key
  PROVE  /\ Fresh(key) \in Chain /\ Fresh(key).public_key = key /\ Fresh(key).next_seq = 1
         /\ Fresh(key).head = << >> /\ << >> \in ChainHash /\ Len(<< >>) = 0
BY DEF Fresh, Chain, GENESIS, ChainHash

LEMMA NothingSigned == \A d : SignedBy(d, << >>) /\ SignedBy(d, << >>)'
BY DEF SignedBy, Emitted, ChainHash

\* AuditLedger::register starts the device's chain, anew if it had one.
LEMMA RegisterStep ==
  ASSUME AuditInv, SignedGrows, AuxOK', NEW r \in Request, EnrollRegister(r), KeysOK
  PROVE  AuditInv'
<1>1. PICK d0, key, q : d0 = req[r].device /\ key = req[r].key /\ q = [req[r] EXCEPT !.pc = "persist"]
  OBVIOUS
<1>2. /\ req[r].pc = "register" /\ req[r].pc # "idle" /\ req' = [req EXCEPT ![r] = q]
      /\ ledger' = [ledger EXCEPT !.chains = Put(ledger.chains, d0, Fresh(key))]
      /\ UNCHANGED <<memAudit, pgAudit, spool, emitted, excused>>
      /\ reused' = IF Known(d0) THEN reused \cup {d0} ELSE reused
  BY <1>1 DEF EnrollRegister
<1>3. SpoolsOK /\ LedgerOK /\ ShapesOK /\ ChainsOK /\ RowsOK /\ ReqOK
  BY DEF AuditInv, TablesInv
<1>4. req[r] \in EnrollReq /\ d0 \in Dev /\ key = keyOf[d0] /\ key \in Key /\ d0 \in Nat
  BY <1>1, <1>2, <1>3, ByPc DEF ReqOK, ReqFits, EnrollReq, KeysOK, Dev
<1>5. q \in EnrollReq /\ q.pc = "persist" /\ q.device = d0 /\ q.key = key /\ q # Idle
  BY <1>1, <1>4 DEF EnrollReq, Idle
<1>6. d0 \in Dev' /\ keyOf'[d0] = key
  BY <1>4 DEF SignedGrows, KeysGrow
<1>7. ReqFits(q)'
  BY <1>5, <1>6 DEF ReqFits, ReqType, Batched
<1>8. /\ ledger'.chains = Put(ledger.chains, d0, Fresh(key)) /\ ledger'.alerts = ledger.alerts
      /\ ledger' = [chains |-> ledger'.chains, verified |-> ledger'.verified, alerts |-> ledger'.alerts]
  BY <1>2, <1>3 DEF LedgerOK
<1>9. /\ DOMAIN ledger'.chains = DOMAIN ledger.chains \cup {d0} /\ ledger'.chains[d0] = Fresh(key)
      /\ \A d \in DOMAIN ledger.chains \ {d0} : ledger'.chains[d] = ledger.chains[d]
  BY <1>8 DEF Put
<1>10. LedgerOK'
  <2>1. ledger'.chains \in [DOMAIN ledger'.chains -> Chain]
    <3>1. \A d \in DOMAIN ledger'.chains : ledger'.chains[d] \in Chain
      BY <1>3, <1>4, <1>9, FreshMeans DEF LedgerOK
    <3>2. ledger'.chains = [d \in DOMAIN ledger'.chains |-> ledger'.chains[d]]
      BY <1>8 DEF Put
    <3> QED BY <3>1, <3>2
  <2>2. ASSUME NEW d \in DOMAIN ledger'.chains
        PROVE  ledger'.chains[d].public_key = keyOf'[d] /\ SignedBy(d, ledger.chains[d].head)'
    <3>1. PICK h : h = ledger'.chains[d].head
      OBVIOUS
    <3>2. CASE d = d0
      <4>1. ledger'.chains[d].public_key = keyOf'[d] /\ h = << >>
        BY <1>4, <1>6, <1>9, <3>1, <3>2, FreshMeans
      <4>2. SignedBy(d, << >>)'
        BY NothingSigned
      <4> QED BY <3>1, <4>1, <4>2 DEF SignedBy, Emitted
    <3>3. CASE d # d0
      <4>1. d \in Dev /\ h = ledger.chains[d].head /\ ledger'.chains[d] = ledger.chains[d]
        BY <1>3, <1>9, <3>1, <3>3 DEF LedgerOK
      <4>2. SignedBy(d, h) /\ ledger.chains[d].public_key = keyOf[d]
        BY <1>3, <1>9, <3>3, <4>1 DEF LedgerOK
      <4>3. SignedBy(d, h)'
        BY <4>1, <4>2, SignedByStays
      <4>4. ledger'.chains[d].public_key = keyOf'[d]
        BY <4>1, <4>2 DEF SignedGrows, KeysGrow
      <4> QED BY <3>1, <4>3, <4>4 DEF SignedBy, Emitted
    <3> QED BY <3>2, <3>3
  <2>3. DOMAIN ledger'.chains \subseteq Dev' /\ ledger'.alerts \in Seq(Alert)
    BY <1>3, <1>6, <1>8, <1>9 DEF LedgerOK, SignedGrows, KeysGrow
  <2> QED BY <1>8, <2>1, <2>2, <2>3 DEF LedgerOK
<1>11. ShapesOK' /\ SpoolsOK' /\ ChainsOK'
  BY <1>2, <1>3, ChainsStay, SpoolsStay DEF ShapesOK
<1>12. reused \subseteq reused' /\ excused \subseteq excused' /\ (d0 \notin reused' => ~Known(d0))
  BY <1>2
<1>13. RowsOK'
  <2>1. \A d \in Dev : d \in reused \cup excused => d \in (reused \cup excused)'
    BY <1>12
  <2> QED BY <1>2, <1>3, <2>1, RowsStay
<1>14. \A d \in Nat \ {d0} : SameStores(d)
  <2> TAKE d \in Nat \ {d0}
  <2>1. SameChain(d)
    <3>1. CASE d \in DOMAIN ledger.chains
      BY <1>9, <3>1 DEF SameChain
    <3>2. CASE d \notin DOMAIN ledger.chains
      <4>1. d \notin DOMAIN ledger'.chains
        BY <1>9, <3>2
      <4> QED BY <3>2, <4>1 DEF SameChain
    <3> QED BY <3>1, <3>2
  <2> QED BY <1>2, <1>8, <2>1 DEF SameStores, SameTable, SameRows, SameAlerts, MoreEvents, MoreAlerts,
                                   AlertsOf
<1>15. ASSUME d0 \in Nat \ excused', DeviceSynced(d0), Moved(r, q, d0) PROVE DeviceSynced(d0)'
  <2>1. Requests(d0) = {r} /\ Requests(d0)' = {r} /\ req'[r] = q
    BY <1>5, <1>15 DEF Moved
  <2>2. ChainSynced(d0)' /\ RegisterSynced(d0)' /\ BatchSynced(d0)' /\ ChainKnown(d0)'
    <3>1. (Fresh(req[r].key))' = Fresh(key)
      BY <1>5, <2>1 DEF Fresh, GENESIS
    <3> QED BY <1>5, <1>9, <2>1, <3>1
            DEF ChainSynced, RegisterSynced, BatchSynced, ChainKnown, Batched, Fresh
  <2>3. AlertsSynced(d0)'
    <3>1. \A i \in AlertsOf(d0) : Recorded(i)
      BY <1>2, <1>15, <2>1 DEF DeviceSynced, AlertsSynced, Alerted
    <3>2. AlertsOf(d0)' = AlertsOf(d0) /\ \A i \in AlertsOf(d0) : Recorded(i)'
      BY <1>2, <1>8, <3>1 DEF AlertsOf, Recorded
    <3> QED BY <1>5, <2>1, <3>2 DEF AlertsSynced
  <2>4. RowsSynced(d0)'
    <3>1. ASSUME d0 \notin reused', NEW n \in Nat, <<d0, n>> \in DOMAIN pgAudit.audit_event PROVE FALSE
      BY <1>12, <3>1 DEF Known
    <3> QED BY <1>2, <3>1 DEF RowsSynced
  <2> QED BY <2>1, <2>2, <2>3, <2>4 DEF DeviceSynced
<1>16. DOMAIN ledger.chains \subseteq DOMAIN ledger'.chains
  BY <1>9
<1> QED BY <1>1, <1>2, <1>5, <1>7, <1>10, <1>11, <1>12, <1>13, <1>14, <1>15, <1>16, HandlerStep

\* A position and a head are stored for a device, in both stores.
LEMMA ChainStored ==
  ASSUME ChainsOK, SignedGrows, NEW d0 \in Dev, NEW p \in Position, SignedBy(d0, p.head)',
         pgAudit'.audit_chain = Put(pgAudit.audit_chain, d0, p),
         memAudit'.chains = Put(memAudit.chains, d0,
           [public_key |-> keyOf[d0], next_seq |-> p.next_seq, head |-> p.head])
  PROVE  ChainsOK'
<1> DEFINE Row(k, c) == [public_key |-> k, next_seq |-> c.next_seq, head |-> c.head]
<1>1. PICK old, new : old = pgAudit.audit_chain /\ new = pgAudit'.audit_chain
  OBVIOUS
<1>2. /\ new = [d \in DOMAIN old \cup {d0} |-> IF d = d0 THEN p ELSE old[d]]
      /\ old \in [DOMAIN old -> Position] /\ DOMAIN old \subseteq Dev
      /\ memAudit.chains = [d \in DOMAIN old |-> Row(keyOf[d], old[d])]
      /\ memAudit'.chains = [d \in DOMAIN old \cup {d0} |->
                               IF d = d0 THEN Row(keyOf[d0], p) ELSE memAudit.chains[d]]
  BY <1>1 DEF ChainsOK, Put
<1>3. Dev \subseteq Dev' /\ \A d \in DOMAIN old \cup {d0} : keyOf'[d] = keyOf[d]
  BY <1>2 DEF SignedGrows, KeysGrow
<1>4. DOMAIN new = DOMAIN old \cup {d0} /\ DOMAIN new \subseteq Dev' /\ new \in [DOMAIN new -> Position]
  BY <1>2, <1>3
<1>5. memAudit'.chains = [d \in DOMAIN new |-> Row(keyOf'[d], new[d])]
  <2> HIDE DEF Row
  <2>1. \A d \in DOMAIN new : memAudit'.chains[d] = Row(keyOf'[d], new[d])
    BY <1>2, <1>3, <1>4
  <2>2. memAudit'.chains = [d \in DOMAIN new |-> memAudit'.chains[d]]
    BY <1>2, <1>4
  <2> QED BY <2>1, <2>2
<1>6. ASSUME NEW d \in DOMAIN new PROVE SignedBy(d, pgAudit.audit_chain[d].head)'
  <2>1. PICK h : h = new[d].head
    OBVIOUS
  <2>2. CASE d = d0
    <3>1. h = p.head
      BY <1>2, <1>4, <2>1, <2>2
    <3> QED BY <1>1, <2>1, <2>2, <3>1 DEF SignedBy, Emitted
  <2>3. CASE d # d0
    <3>1. h = old[d].head /\ d \in DOMAIN old /\ d \in Dev
      BY <1>2, <1>4, <2>1, <2>3
    <3>2. SignedBy(d, h)
      BY <1>1, <3>1 DEF ChainsOK
    <3>3. SignedBy(d, h)'
      BY <3>1, <3>2, SignedByStays
    <3> QED BY <1>1, <2>1, <3>3 DEF SignedBy, Emitted
  <2> QED BY <2>2, <2>3
<1> QED BY <1>1, <1>4, <1>5, <1>6 DEF ChainsOK

\* The audit store fails: the device is excused from here on.
LEMMA StoreFails ==
  ASSUME AuditInv, SignedGrows, AuxOK', NEW r \in Request, NEW d0, d0 = req[r].device,
         req[r].pc # "idle", NEW q, ReqFits(q)', q = Idle \/ q.device = d0,
         req' = [req EXCEPT ![r] = q], excused' = excused \cup {d0},
         UNCHANGED <<spool, emitted, reused>>, UNCHANGED auditVars
  PROVE  AuditInv'
<1>1. TablesInv /\ SpoolsOK
  BY DEF AuditInv, TablesInv
<1>2. LedgerOK' /\ ShapesOK' /\ ChainsOK' /\ RowsOK' /\ SpoolsOK'
  BY <1>1, TypesStay, SpoolsStay
<1>3. \A d \in Nat \ {d0} : SameStores(d)
  BY StoresUntouched
<1>4. DOMAIN ledger.chains \subseteq DOMAIN ledger'.chains /\ d0 \notin Nat \ excused'
  BY DEF auditVars
<1> QED BY <1>2, <1>3, <1>4, HandlerStep

\* register_chain stores the chain that the ledger has just started.
LEMMA PersistStep ==
  ASSUME AuditInv, SignedGrows, AuxOK', NEW r \in Request, EnrollPersist(r), KeysOK
  PROVE  AuditInv'
<1>1. PICK d0, key, q : d0 = req[r].device /\ key = req[r].key /\ q = [req[r] EXCEPT !.pc = "certify"]
  OBVIOUS
<1>2. /\ req[r].pc = "persist" /\ req[r].pc # "idle" /\ req' = [req EXCEPT ![r] = q]
      /\ UNCHANGED <<ledger, spool, emitted, reused>>
  BY <1>1 DEF EnrollPersist
<1>3. TablesInv /\ SpoolsOK /\ LedgerOK /\ ShapesOK /\ ChainsOK /\ RowsOK /\ ReqOK
  BY DEF AuditInv, TablesInv
<1>4. req[r] \in EnrollReq /\ d0 \in Dev /\ key = keyOf[d0] /\ key \in Key /\ d0 \in Nat
  BY <1>1, <1>2, <1>3, ByPc DEF ReqOK, ReqFits, EnrollReq, KeysOK, Dev
<1>5. q \in EnrollReq /\ q.pc = "certify" /\ q.device = d0 /\ q.key = key /\ q # Idle
  BY <1>1, <1>4 DEF EnrollReq, Idle
<1>6. ReqFits(q)'
  <2>1. d0 \in Dev' /\ keyOf'[d0] = key
    BY <1>4 DEF SignedGrows, KeysGrow
  <2> QED BY <1>5, <2>1 DEF ReqFits, ReqType, Batched
<1>7. CASE excused' = excused \cup {d0} /\ UNCHANGED <<memAudit, pgAudit>>
  <2>1. UNCHANGED auditVars
    BY <1>2, <1>7 DEF auditVars
  <2> QED BY <1>1, <1>2, <1>5, <1>6, <1>7, <2>1, StoreFails
<1>8. CASE /\ memAudit' = MemAuditRegister(memAudit, d0, key)
           /\ pgAudit' = PgAuditRegister(pgAudit, d0) /\ UNCHANGED excused
  <2>1. PICK p : p = [next_seq |-> 1, head |-> << >>]
    OBVIOUS
  <2>2. p \in Position /\ p.next_seq = 1 /\ p.head = << >>
    BY <2>1 DEF Position, ChainHash
  <2>3. /\ memAudit'.chains = Put(memAudit.chains, d0, Fresh(key))
        /\ memAudit'.events = memAudit.events /\ memAudit'.alerts = memAudit.alerts
        /\ memAudit' = [chains |-> memAudit'.chains, events |-> memAudit'.events,
                        alerts |-> memAudit'.alerts]
    BY <1>3, <1>8 DEF ShapesOK, MemAuditRegister
  <2>4. /\ pgAudit'.audit_chain = Put(pgAudit.audit_chain, d0, p)
        /\ pgAudit'.audit_event = pgAudit.audit_event /\ pgAudit'.audit_alert = pgAudit.audit_alert
        /\ pgAudit' = [audit_chain |-> pgAudit'.audit_chain, audit_event |-> pgAudit'.audit_event,
                       audit_alert |-> pgAudit'.audit_alert]
    BY <1>3, <1>8, <2>1 DEF ShapesOK, PgAuditRegister, GENESIS
  <2>5. Fresh(key) = [public_key |-> keyOf[d0], next_seq |-> p.next_seq, head |-> p.head]
    BY <1>4, <2>2 DEF Fresh, GENESIS
  <2>6. ShapesOK' /\ LedgerOK' /\ SpoolsOK'
    BY <1>2, <1>3, <2>3, <2>4, LedgerStays, SpoolsStay DEF ShapesOK
  <2>7. ChainsOK'
    <3>1. SignedBy(d0, p.head)'
      <4>1. SignedBy(d0, << >>)'
        BY NothingSigned
      <4> QED BY <2>2, <4>1
    <3>2. memAudit'.chains = Put(memAudit.chains, d0,
            [public_key |-> keyOf[d0], next_seq |-> p.next_seq, head |-> p.head])
      BY <2>3, <2>5
    <3> QED BY <1>3, <1>4, <2>2, <2>4, <3>1, <3>2, ChainStored
  <2>8. RowsOK'
    BY <1>2, <1>3, <1>8, <2>3, <2>4, RowsStay
  <2>9. /\ DOMAIN pgAudit'.audit_chain = DOMAIN pgAudit.audit_chain \cup {d0}
        /\ pgAudit'.audit_chain[d0] = p
        /\ \A d \in DOMAIN pgAudit.audit_chain \ {d0} : pgAudit'.audit_chain[d] = pgAudit.audit_chain[d]
    BY <2>4 DEF Put
  <2>10. \A d \in Nat \ {d0} : SameStores(d)
    BY <1>2, <2>3, <2>4, <2>9 DEF SameStores, SameChain, SameTable, SameRows, SameAlerts, MoreEvents,
                                  MoreAlerts, AlertsOf
  <2>11. ASSUME d0 \in Nat \ excused', DeviceSynced(d0), Moved(r, q, d0) PROVE DeviceSynced(d0)'
    <3>1. Requests(d0) = {r} /\ Requests(d0)' = {r} /\ req'[r] = q
      BY <1>5, <2>11 DEF Moved
    <3>2. d0 \in DOMAIN ledger.chains /\ ledger.chains[d0] = Fresh(key)
      BY <1>1, <1>2, <2>11, <3>1 DEF DeviceSynced, RegisterSynced
    <3>3. Synced(d0)'
      <4>1. ledger.chains[d0].next_seq = 1 /\ ledger.chains[d0].head = << >> /\ Len(<< >>) = 0
        BY <1>4, <3>2, FreshMeans
      <4>2. 1..Len(ledger'.chains[d0].head) = {}
        BY <1>2, <4>1
      <4> QED BY <1>2, <2>2, <2>9, <4>1, <4>2 DEF Synced
    <3>4. \A i \in AlertsOf(d0)' : Recorded(i)'
      <4>1. \A i \in AlertsOf(d0) : Recorded(i)
        BY <1>2, <2>11, <3>1 DEF DeviceSynced, AlertsSynced, Alerted
      <4> QED BY <1>2, <2>4, <4>1 DEF AlertsOf, Recorded
    <3>5. RowsSynced(d0)' /\ ChainKnown(d0)'
      BY <1>2, <2>4, <2>11, <3>2 DEF DeviceSynced, RowsSynced, ChainKnown
    <3> QED BY <1>5, <3>1, <3>3, <3>4, <3>5, NothingPending
  <2>12. DOMAIN ledger.chains \subseteq DOMAIN ledger'.chains
    BY <1>2
  <2> QED BY <1>1, <1>2, <1>5, <1>6, <1>8, <2>6, <2>7, <2>8, <2>10, <2>11, <2>12, HandlerStep
<1> QED BY <1>1, <1>7, <1>8 DEF EnrollPersist

\* What an insert of entries does to the table of events: a row that is there stays.
Inserted(d0, es, old, new) ==
  /\ DOMAIN new = DOMAIN old \cup {<<d0, es[i].seq>> : i \in DOMAIN es}
  /\ \A k \in DOMAIN old : new[k] = old[k]
  /\ \A k \in DOMAIN new \ DOMAIN old :
       \E i \in DOMAIN es : k = <<d0, es[i].seq>> /\ new[k] = es[i].event

LEMMA InsertMeans ==
  ASSUME NEW es \in Seq(SpoolEntry), NEW d0, NEW old, NEW new,
         new = [k \in DOMAIN old \cup {<<d0, es[i].seq>> : i \in DOMAIN es} |->
                  IF k \in DOMAIN old THEN old[k]
                  ELSE es[CHOOSE i \in DOMAIN es : es[i].seq = k[2]].event]
  PROVE  Inserted(d0, es, old, new)
<1>1. ASSUME NEW k \in DOMAIN new \ DOMAIN old
      PROVE  \E i \in DOMAIN es : k = <<d0, es[i].seq>> /\ new[k] = es[i].event
  <2>1. PICK j \in DOMAIN es : k = <<d0, es[j].seq>>
    OBVIOUS
  <2>2. PICK i : i = CHOOSE n \in DOMAIN es : es[n].seq = k[2]
    OBVIOUS
  <2>3. k[2] = es[j].seq
    BY <2>1
  <2>4. i \in DOMAIN es /\ es[i].seq = k[2]
    BY <2>2, <2>3
  <2>5. new[k] = es[i].event
    BY <1>1, <2>2
  <2> QED BY <2>1, <2>3, <2>4, <2>5
<1> QED BY <1>1 DEF Inserted

\* What an append of the entries does to the list of events.
Listed(d0, es, old, new) ==
  /\ new \in Seq(Nat \X Nat \X Event)
  /\ \A i \in DOMAIN old : i \in DOMAIN new /\ new[i] = old[i]
  /\ \A i \in DOMAIN es : \E j \in DOMAIN new : new[j] = <<d0, es[i].seq, es[i].event>>
  /\ \A j \in DOMAIN new \ DOMAIN old :
       \E i \in DOMAIN es : new[j] = <<d0, es[i].seq, es[i].event>>

LEMMA ListMeans ==
  ASSUME NEW es \in Seq(SpoolEntry), NEW d0 \in Nat, NEW old \in Seq(Nat \X Nat \X Event), NEW new,
         new = old \o [i \in DOMAIN es |-> <<d0, es[i].seq, es[i].event>>]
  PROVE  Listed(d0, es, old, new)
<1>1. PICK rows : rows = [i \in DOMAIN es |-> <<d0, es[i].seq, es[i].event>>]
  OBVIOUS
<1>2. Len(es) \in Nat /\ DOMAIN es = 1..Len(es)
  OBVIOUS
<1>3. ASSUME NEW i \in DOMAIN es PROVE <<d0, es[i].seq, es[i].event>> \in Nat \X Nat \X Event
  <2>1. es[i] \in SpoolEntry
    OBVIOUS
  <2> QED BY <2>1 DEF SpoolEntry
<1>4. PICK T : T = Nat \X Nat \X Event
  OBVIOUS
<1>5. rows \in [1..Len(es) -> T]
  BY <1>1, <1>2, <1>3, <1>4
<1>6. rows \in Seq(T) /\ Len(rows) = Len(es) /\ old \in Seq(T)
  <2>1. old \in Seq(T)
    BY <1>4
  <2>2. rows \in Seq(T)
    <3>1. \E n \in Nat : rows \in [1..n -> T]
      BY <1>2, <1>5
    <3> QED BY <3>1, SeqDef
  <2>3. Len(rows) = Len(es)
    BY <1>2, <1>5, <2>2
  <2> QED BY <2>1, <2>2, <2>3
<1>7. new = old \o rows
  BY <1>1
<1>8. /\ new \in Seq(T) /\ Len(new) = Len(old) + Len(rows)
      /\ \A i \in 1..Len(new) :
           new[i] = IF i <= Len(old) THEN old[i] ELSE rows[i - Len(old)]
  <2>1. /\ old \o rows \in Seq(T) /\ Len(old \o rows) = Len(old) + Len(rows)
        /\ \A i \in 1..(Len(old) + Len(rows)) :
             (old \o rows)[i] = IF i <= Len(old) THEN old[i] ELSE rows[i - Len(old)]
    BY <1>6, ConcatProperties, Zenon
  <2> QED BY <1>7, <2>1
<1>9. Len(old) \in Nat /\ DOMAIN old = 1..Len(old) /\ DOMAIN new = 1..Len(new)
  BY <1>6, <1>8
<1>10. \A i \in DOMAIN old : i \in DOMAIN new /\ new[i] = old[i]
  BY <1>2, <1>6, <1>8, <1>9
<1>11. \A i \in DOMAIN es : rows[i] = <<d0, es[i].seq, es[i].event>>
  BY <1>1
<1>12. ASSUME NEW i \in DOMAIN es PROVE \E j \in DOMAIN new : new[j] = <<d0, es[i].seq, es[i].event>>
  <2>1. PICK m : m = Len(old) + i
    OBVIOUS
  <2>2. m \in 1..Len(new) /\ ~(m <= Len(old)) /\ m - Len(old) = i
    BY <1>2, <1>6, <1>8, <1>9, <2>1
  <2>3. new[m] = rows[i]
    BY <1>8, <2>2
  <2> QED BY <1>9, <1>11, <2>2, <2>3
<1>13. ASSUME NEW j \in DOMAIN new \ DOMAIN old
       PROVE  \E i \in DOMAIN es : new[j] = <<d0, es[i].seq, es[i].event>>
  <2>1. j \in 1..Len(new) /\ ~(j <= Len(old)) /\ j - Len(old) \in 1..Len(es)
    BY <1>2, <1>6, <1>8, <1>9
  <2>2. new[j] = rows[j - Len(old)]
    BY <1>8, <2>1
  <2> QED BY <1>2, <1>11, <2>1, <2>2
<1>14. new \in Seq(Nat \X Nat \X Event)
  BY <1>4, <1>8
<1> QED BY <1>10, <1>12, <1>13, <1>14 DEF Listed

\* The tables after append_events: the chain that is there is moved, no row is
\* replaced, the events of the entries are added.
Appended(d0, es, p) ==
  /\ DOMAIN pgAudit'.audit_chain = DOMAIN pgAudit.audit_chain
  /\ d0 \in DOMAIN pgAudit.audit_chain => pgAudit'.audit_chain[d0] = p
  /\ \A d \in DOMAIN pgAudit.audit_chain \ {d0} : pgAudit'.audit_chain[d] = pgAudit.audit_chain[d]
  /\ Inserted(d0, es, pgAudit.audit_event, pgAudit'.audit_event)
  /\ Listed(d0, es, memAudit.events, memAudit'.events)
  /\ pgAudit'.audit_alert = pgAudit.audit_alert

LEMMA AppendMeans ==
  ASSUME ShapesOK, ChainsOK, RowsOK, SignedGrows, NEW d0 \in Dev, NEW es \in Seq(SpoolEntry),
         NEW hd \in ChainHash, NEW ns \in Nat \ {0}, SignedBy(d0, hd), d0 \in Nat,
         memAudit' = MemAuditAppend(memAudit, d0, es, ns, hd),
         pgAudit' = PgAuditAppend(pgAudit, d0, es, ns, hd)
  PROVE  ShapesOK' /\ ChainsOK' /\ Appended(d0, es, [next_seq |-> ns, head |-> hd])
<1>1. PICK p : p = [next_seq |-> ns, head |-> hd]
  OBVIOUS
<1>2. p \in Position /\ p.next_seq = ns /\ p.head = hd
  BY <1>1 DEF Position
<1>3. /\ memAudit'.alerts = memAudit.alerts
      /\ memAudit' = [chains |-> memAudit'.chains, events |-> memAudit'.events,
                      alerts |-> memAudit'.alerts]
      /\ memAudit'.events =
           memAudit.events \o [i \in DOMAIN es |-> <<d0, es[i].seq, es[i].event>>]
      /\ memAudit'.chains = IF d0 \in DOMAIN memAudit.chains
           THEN [memAudit.chains EXCEPT ![d0].next_seq = ns, ![d0].head = hd] ELSE memAudit.chains
  BY DEF ShapesOK, MemAuditAppend
<1>4. /\ pgAudit'.audit_alert = pgAudit.audit_alert
      /\ pgAudit' = [audit_chain |-> pgAudit'.audit_chain, audit_event |-> pgAudit'.audit_event,
                     audit_alert |-> pgAudit'.audit_alert]
      /\ pgAudit'.audit_chain = IF d0 \in DOMAIN pgAudit.audit_chain
           THEN [pgAudit.audit_chain EXCEPT ![d0] = p] ELSE pgAudit.audit_chain
      /\ pgAudit'.audit_event =
           [k \in DOMAIN pgAudit.audit_event \cup {<<d0, es[i].seq>> : i \in DOMAIN es} |->
              IF k \in DOMAIN pgAudit.audit_event THEN pgAudit.audit_event[k]
              ELSE es[CHOOSE i \in DOMAIN es : es[i].seq = k[2]].event]
  BY <1>1 DEF ShapesOK, PgAuditAppend
<1>5. ShapesOK'
  BY <1>3, <1>4 DEF ShapesOK
<1>6. Inserted(d0, es, pgAudit.audit_event, pgAudit'.audit_event)
  <2> PICK old, new : old = pgAudit.audit_event /\ new = pgAudit'.audit_event
    OBVIOUS
  <2>1. new = [k \in DOMAIN old \cup {<<d0, es[i].seq>> : i \in DOMAIN es} |->
                 IF k \in DOMAIN old THEN old[k]
                 ELSE es[CHOOSE i \in DOMAIN es : es[i].seq = k[2]].event]
    BY <1>4
  <2>2. Inserted(d0, es, old, new)
    BY <2>1, InsertMeans
  <2> QED BY <2>2
<1>7. Listed(d0, es, memAudit.events, memAudit'.events)
  <2> PICK old, new : old = memAudit.events /\ new = memAudit'.events
    OBVIOUS
  <2>1. /\ old \in Seq(Nat \X Nat \X Event)
        /\ new = old \o [i \in DOMAIN es |-> <<d0, es[i].seq, es[i].event>>]
    BY <1>3 DEF RowsOK
  <2>2. Listed(d0, es, old, new)
    BY <2>1, ListMeans
  <2> QED BY <2>2
<1>10. DOMAIN memAudit.chains = DOMAIN pgAudit.audit_chain
  BY DEF ChainsOK
<1>11. CASE d0 \in DOMAIN pgAudit.audit_chain
  <2>1. pgAudit'.audit_chain = Put(pgAudit.audit_chain, d0, p)
    BY <1>4, <1>11 DEF Put
  <2>2. PICK row : row = [public_key |-> keyOf[d0], next_seq |-> p.next_seq, head |-> p.head]
    OBVIOUS
  <2>3. PICK c : c = memAudit.chains[d0]
    OBVIOUS
  <2>4. c = [public_key |-> keyOf[d0], next_seq |-> pgAudit.audit_chain[d0].next_seq,
             head |-> pgAudit.audit_chain[d0].head]
    BY <1>11, <2>3 DEF ChainsOK
  <2>5. memAudit'.chains = [memAudit.chains EXCEPT ![d0] = [[c EXCEPT !.next_seq = ns] EXCEPT !.head = hd]]
    BY <1>3, <1>10, <1>11, <2>3
  <2>6. [[c EXCEPT !.next_seq = ns] EXCEPT !.head = hd] = row
    <3>1. PICK key, m, h : c = [public_key |-> key, next_seq |-> m, head |-> h] /\ key = keyOf[d0]
      BY <2>4
    <3>2. row = [public_key |-> key, next_seq |-> ns, head |-> hd]
      BY <1>2, <2>2, <3>1
    <3>3. [c EXCEPT !.next_seq = ns] = [public_key |-> key, next_seq |-> ns, head |-> h]
      BY <3>1
    <3>4. PICK c1 : c1 = [c EXCEPT !.next_seq = ns]
      OBVIOUS
    <3>5. [c1 EXCEPT !.head = hd] = [public_key |-> key, next_seq |-> ns, head |-> hd]
      <4>1. c1 = [public_key |-> key, next_seq |-> ns, head |-> h]
        BY <3>3, <3>4
      <4> QED BY <4>1
    <3> QED BY <3>2, <3>4, <3>5
  <2>7. memAudit'.chains = Put(memAudit.chains, d0, row)
    BY <1>10, <1>11, <2>5, <2>6 DEF Put
  <2>8. SignedBy(d0, p.head)'
    <3>1. SignedBy(d0, hd)'
      BY SignedByStays
    <3> QED BY <1>2, <3>1
  <2>9. ChainsOK'
    BY <1>2, <2>1, <2>2, <2>7, <2>8, ChainStored
  <2>10. /\ DOMAIN pgAudit'.audit_chain = DOMAIN pgAudit.audit_chain
         /\ pgAudit'.audit_chain[d0] = p
         /\ \A d \in DOMAIN pgAudit.audit_chain \ {d0} :
              pgAudit'.audit_chain[d] = pgAudit.audit_chain[d]
    BY <1>4, <1>11
  <2> QED BY <1>1, <1>4, <1>5, <1>6, <1>7, <1>11, <2>9, <2>10 DEF Appended
<1>12. CASE d0 \notin DOMAIN pgAudit.audit_chain
  <2>1. pgAudit'.audit_chain = pgAudit.audit_chain /\ memAudit'.chains = memAudit.chains
    BY <1>3, <1>4, <1>10, <1>12
  <2>2. ChainsOK'
    BY <2>1, ChainsStay
  <2> QED BY <1>4, <1>5, <1>6, <1>7, <1>12, <2>1, <2>2 DEF Appended
<1> QED BY <1>11, <1>12

\* The rows that are added are events of the device's spool.
LEMMA AppendRows ==
  ASSUME RowsOK, SignedGrows, NEW d0 \in Dev, d0 \in Nat, NEW es, Signed(d0, es), NEW p,
         Appended(d0, es, p), UNCHANGED <<excused, reused>>,
         d0 \notin reused \cup excused => RowsSynced(d0) /\ Carries(d0, es)
  PROVE  RowsOK'
<1> PICK old, new : old = pgAudit.audit_event /\ new = pgAudit'.audit_event
  OBVIOUS
<1>1. Inserted(d0, es, old, new) /\ Listed(d0, es, memAudit.events, memAudit'.events)
  BY DEF Appended
<1>2. /\ es \in Seq(SpoolEntry) /\ \A i \in DOMAIN es : es[i].seq \in Nat
      /\ \A i \in DOMAIN es : <<keyOf[d0], es[i].seq, es[i].event>> \in emitted
  <2>1. \A i \in DOMAIN es : es[i] \in SpoolEntry
    BY DEF Signed
  <2>2. \A i \in DOMAIN es : es[i].seq \in Nat
    BY <2>1 DEF SpoolEntry
  <2> QED BY <2>2 DEF Signed
<1>3. Dev \subseteq Dev' /\ emitted \subseteq emitted' /\ \A d \in Dev : keyOf'[d] = keyOf[d]
  BY DEF SignedGrows, KeysGrow
<1>4. DOMAIN old \subseteq Dev \X Nat /\ DOMAIN new \subseteq Dev' \X Nat
  <2>1. DOMAIN old \subseteq Dev \X Nat
    BY DEF RowsOK
  <2>2. \A i \in DOMAIN es : <<d0, es[i].seq>> \in Dev \X Nat
    BY <1>2
  <2>3. Dev \X Nat \subseteq Dev' \X Nat
    BY <1>3
  <2>4. DOMAIN new \subseteq Dev \X Nat
    BY <1>1, <2>1, <2>2 DEF Inserted
  <2> QED BY <2>1, <2>3, <2>4
<1>5. ASSUME NEW k \in DOMAIN new PROVE <<keyOf'[k[1]], k[2], new[k]>> \in emitted'
  <2>1. CASE k \in DOMAIN old
    <3>1. k[1] \in Dev /\ new[k] = old[k] /\ <<keyOf[k[1]], k[2], old[k]>> \in emitted
      BY <1>1, <1>4, <2>1 DEF RowsOK, Inserted
    <3> QED BY <1>3, <3>1
  <2>2. CASE k \notin DOMAIN old
    <3>1. PICK i \in DOMAIN es : k = <<d0, es[i].seq>> /\ new[k] = es[i].event
      BY <1>1, <2>2 DEF Inserted
    <3>2. k[1] = d0 /\ k[2] = es[i].seq /\ keyOf'[d0] = keyOf[d0]
      BY <1>3, <3>1
    <3> QED BY <1>2, <1>3, <3>1, <3>2
  <2> QED BY <2>1, <2>2
<1>6. ASSUME NEW i \in DOMAIN es
      PROVE  /\ <<d0, es[i].seq>> \in DOMAIN new
             /\ d0 \notin reused \cup excused => new[<<d0, es[i].seq>>] = es[i].event
  <2> PICK k : k = <<d0, es[i].seq>>
    OBVIOUS
  <2>1. k \in DOMAIN new
    BY <1>1 DEF Inserted
  <2>2. ASSUME d0 \notin reused \cup excused PROVE new[k] = es[i].event
    <3>1. \A n \in DOMAIN es : es[n].event = ledger.chains[d0].head[es[n].seq].event
      BY <2>2 DEF Carries
    <3>2. CASE k \in DOMAIN old
      <4>1. old[k] = ledger.chains[d0].head[es[i].seq].event
        BY <1>2, <2>2, <3>2 DEF RowsSynced
      <4> QED BY <1>1, <3>1, <3>2, <4>1 DEF Inserted
    <3>3. CASE k \notin DOMAIN old
      <4>1. PICK n \in DOMAIN es : k = <<d0, es[n].seq>> /\ new[k] = es[n].event
        BY <1>1, <2>1, <3>3 DEF Inserted
      <4>2. es[n].seq = es[i].seq
        BY <4>1
      <4> QED BY <3>1, <4>1, <4>2
    <3> QED BY <3>2, <3>3
  <2> QED BY <2>1, <2>2
<1>7. ASSUME NEW j \in DOMAIN memAudit'.events
      PROVE  LET e == memAudit'.events[j] IN
               /\ <<e[1], e[2]>> \in DOMAIN new
               /\ e[1] \notin reused \cup excused => new[<<e[1], e[2]>>] = e[3]
  <2> PICK e : e = memAudit'.events[j]
    OBVIOUS
  <2>1. CASE j \in DOMAIN memAudit.events
    <3>1. e = memAudit.events[j]
      BY <1>1, <2>1 DEF Listed
    <3>2. /\ <<e[1], e[2]>> \in DOMAIN old
          /\ e[1] \notin reused \cup excused => old[<<e[1], e[2]>>] = e[3]
      BY <2>1, <3>1 DEF RowsOK
    <3> QED BY <1>1, <3>2 DEF Inserted
  <2>2. CASE j \notin DOMAIN memAudit.events
    <3>1. PICK i \in DOMAIN es : e = <<d0, es[i].seq, es[i].event>>
      BY <1>1, <2>2 DEF Listed
    <3>2. e[1] = d0 /\ e[2] = es[i].seq /\ e[3] = es[i].event
      BY <3>1
    <3> QED BY <1>6, <3>2
  <2> QED BY <2>1, <2>2
<1>8. memAudit'.events \in Seq(Nat \X Nat \X Event)
  BY <1>1 DEF Listed
<1> QED BY <1>4, <1>5, <1>7, <1>8 DEF RowsOK

\* The device of a batch that was stored is in step.
LEMMA AppendSynced ==
  ASSUME LedgerOK, NEW d0, d0 \in DOMAIN ledger.chains, NEW es, NEW p, Appended(d0, es, p),
         d0 \in DOMAIN pgAudit.audit_chain, Carries(d0, es), RowsSynced(d0),
         p.next_seq = ledger.chains[d0].next_seq, p.head = ledger.chains[d0].head,
         UNCHANGED <<ledger, reused>>
  PROVE  Synced(d0)' /\ RowsSynced(d0)' /\ ChainKnown(d0)'
<1> PICK old, new, hd : old = pgAudit.audit_event /\ new = pgAudit'.audit_event
                        /\ hd = ledger.chains[d0].head
  OBVIOUS
<1>1. Inserted(d0, es, old, new) /\ Listed(d0, es, memAudit.events, memAudit'.events)
  BY DEF Appended
<1>2. /\ pgAudit'.audit_chain[d0] = p /\ d0 \in DOMAIN pgAudit'.audit_chain
      /\ ledger' = ledger
  BY DEF Appended
<1>3. \A i \in DOMAIN es : es[i].seq \in 1..Len(hd) /\ es[i].event = hd[es[i].seq].event
  BY DEF Carries
<1>4. ASSUME NEW n \in 1..Len(hd) PROVE Kept(d0, n)'
  <2>1. CASE Kept(d0, n)
    BY <1>1, <1>2, <2>1 DEF Kept, Inserted, Listed
  <2>2. CASE \E i \in DOMAIN es : es[i].seq = n
    <3>1. PICK i \in DOMAIN es : es[i].seq = n
      BY <2>2
    <3>2. PICK j \in DOMAIN memAudit'.events : memAudit'.events[j] = <<d0, es[i].seq, es[i].event>>
      BY <1>1 DEF Listed
    <3>3. memAudit'.events[j] = <<d0, n, hd[n].event>>
      BY <1>3, <3>1, <3>2
    <3>4. <<d0, n>> \in DOMAIN new
      BY <1>1, <3>1 DEF Inserted
    <3> QED BY <1>2, <3>3, <3>4 DEF Kept
  <2> QED BY <2>1, <2>2 DEF Carries
<1>5. Synced(d0)'
  BY <1>2, <1>4 DEF Synced
<1>6. ASSUME d0 \notin reused, NEW n \in Nat, <<d0, n>> \in DOMAIN new
      PROVE  n \in 1..Len(hd) /\ new[<<d0, n>>] = hd[n].event
  <2>1. CASE <<d0, n>> \in DOMAIN old
    BY <1>1, <1>6, <2>1 DEF RowsSynced, Inserted
  <2>2. CASE <<d0, n>> \notin DOMAIN old
    <3>1. PICK i \in DOMAIN es : <<d0, n>> = <<d0, es[i].seq>> /\ new[<<d0, n>>] = es[i].event
      BY <1>1, <1>6, <2>2 DEF Inserted
    <3>2. n = es[i].seq
      BY <3>1
    <3> QED BY <1>3, <3>1, <3>2
  <2> QED BY <2>1, <2>2
<1>7. RowsSynced(d0)'
  BY <1>2, <1>6 DEF RowsSynced
<1> QED BY <1>2, <1>5, <1>7 DEF ChainKnown

LEMMA AppendStep ==
  ASSUME AuditInv, SignedGrows, AuxOK', NEW r \in Request, AppendAudit(r), KeysOK
  PROVE  AuditInv'
<1>1. PICK d0, es, ns, hd : d0 = req[r].device /\ es = req[r].entries /\ ns = req[r].next_seq
                            /\ hd = req[r].head
  OBVIOUS
<1>2. /\ req[r].pc = "append" /\ req[r].pc # "idle" /\ req' = [req EXCEPT ![r] = Idle]
      /\ UNCHANGED <<ledger, spool, emitted, reused>>
  BY DEF AppendAudit
<1>3. SpoolsOK /\ LedgerOK /\ ShapesOK /\ ChainsOK /\ RowsOK /\ ReqOK
  BY DEF AuditInv, TablesInv
<1>4. /\ d0 \in DOMAIN ledger.chains /\ Signed(d0, es) /\ SignedBy(d0, hd)
      /\ d0 \in Nat /\ hd \in ChainHash /\ ns \in Nat \ {0} /\ es \in Seq(SpoolEntry)
  <2>1. req[r] \in AppendReq /\ ReqFits(req[r])
    BY <1>2, <1>3, ByPc DEF ReqOK
  <2> QED BY <1>1, <1>2, <2>1 DEF ReqFits, Batched, AppendReq
<1>5. d0 \in Dev
  BY <1>3, <1>4 DEF LedgerOK
<1>6. CASE excused' = excused \cup {d0} /\ UNCHANGED <<memAudit, pgAudit>>
  <2>1. UNCHANGED auditVars
    BY <1>2, <1>6 DEF auditVars
  <2> QED BY <1>1, <1>2, <1>6, <2>1, IdleFitsNext, StoreFails
<1>7. CASE /\ memAudit' = MemAuditAppend(memAudit, d0, es, ns, hd)
           /\ pgAudit' = PgAuditAppend(pgAudit, d0, es, ns, hd) /\ UNCHANGED excused
  <2>1. PICK p : p = [next_seq |-> ns, head |-> hd]
    OBVIOUS
  <2>2. ShapesOK' /\ ChainsOK' /\ Appended(d0, es, p)
    BY <1>3, <1>4, <1>5, <1>7, <2>1, AppendMeans
  <2>3. LedgerOK' /\ SpoolsOK'
    BY <1>2, <1>3, LedgerStays, SpoolsStay
  <2>4. ASSUME DeviceSynced(d0)
        PROVE  /\ d0 \in DOMAIN pgAudit.audit_chain /\ Carries(d0, es) /\ RowsSynced(d0)
               /\ ns = ledger.chains[d0].next_seq /\ hd = ledger.chains[d0].head
    <3>1. r \in Requests(d0)
      BY <1>1, <1>2, <1>3, RequestTyped DEF Requests
    <3> QED BY <1>1, <1>2, <2>4, <3>1 DEF DeviceSynced, BatchSynced, Batched
  <2>5. RowsOK'
    <3>1. d0 \notin reused \cup excused => RowsSynced(d0) /\ Carries(d0, es)
      BY <1>4, <2>4 DEF AuditInv, SyncInv
    <3>2. UNCHANGED <<excused, reused>>
      BY <1>2, <1>7
    <3> QED BY <1>3, <1>4, <1>5, <2>2, <3>1, <3>2, AppendRows
  <2>6. ASSUME NEW d \in Nat \ {d0} PROVE SameStores(d)
    <3>1. SameTable(d)
      BY <2>2, <2>6 DEF SameTable, Appended
    <3>2. SameRows(d)
      <4>1. Inserted(d0, es, pgAudit.audit_event, pgAudit'.audit_event)
        BY <2>2 DEF Appended
      <4>2. ASSUME NEW n \in Nat, <<d, n>> \in DOMAIN pgAudit'.audit_event
            PROVE  <<d, n>> \in DOMAIN pgAudit.audit_event
        <5>1. \A i \in DOMAIN es : <<d, n>> # <<d0, es[i].seq>>
          BY <2>6
        <5> QED BY <4>1, <4>2, <5>1 DEF Inserted
      <4>3. DOMAIN pgAudit.audit_event \subseteq DOMAIN pgAudit'.audit_event
        BY <4>1 DEF Inserted
      <4>4. \A k \in DOMAIN pgAudit.audit_event : pgAudit'.audit_event[k] = pgAudit.audit_event[k]
        BY <4>1 DEF Inserted
      <4> QED BY <4>2, <4>3, <4>4 DEF SameRows
    <3>3. MoreEvents /\ MoreAlerts
      BY <2>2 DEF MoreEvents, MoreAlerts, Appended, Listed
    <3>4. SameChain(d) /\ SameAlerts(d)
      BY <1>2 DEF SameChain, SameAlerts, AlertsOf
    <3> QED BY <3>1, <3>2, <3>3, <3>4 DEF SameStores
  <2>7. ASSUME d0 \in Nat \ excused', DeviceSynced(d0), Moved(r, Idle, d0) PROVE DeviceSynced(d0)'
    <3>1. Requests(d0) = {r} /\ Requests(d0)' = {}
      BY <2>7 DEF Moved
    <3>2. Synced(d0)' /\ RowsSynced(d0)' /\ ChainKnown(d0)'
      <4>1. p.next_seq = ledger.chains[d0].next_seq /\ p.head = ledger.chains[d0].head
        BY <2>1, <2>4, <2>7
      <4>2. UNCHANGED <<ledger, reused>>
        BY <1>2
      <4> QED BY <1>3, <1>4, <2>2, <2>4, <2>7, <4>1, <4>2, AppendSynced
    <3>3. \A i \in AlertsOf(d0)' : Recorded(i)'
      <4>1. \A i \in AlertsOf(d0) : Recorded(i)
        BY <1>2, <2>7, <3>1 DEF DeviceSynced, AlertsSynced, Alerted
      <4>2. pgAudit'.audit_alert = pgAudit.audit_alert
        BY <2>2 DEF Appended
      <4> QED BY <1>2, <4>1, <4>2 DEF AlertsOf, Recorded
    <3> QED BY <3>1, <3>2, <3>3, NothingPending
  <2>8. DOMAIN ledger.chains \subseteq DOMAIN ledger'.chains
    BY <1>2
  <2> QED BY <1>1, <1>2, <1>7, <2>2, <2>3, <2>5, <2>6, <2>7, <2>8, IdleFitsNext, HandlerStep
<1> QED BY <1>1, <1>6, <1>7 DEF AppendAudit

\* A handler of a batch begins: the ledger has answered, the stores are as they were.
LEMMA IngestBegins ==
  ASSUME AuditInv, SignedGrows, AuxOK', LedgerOK', NEW r \in Request, NEW d0 \in Nat, req[r] = Idle,
         NEW q, q.device = d0, q # Idle, ReqFits(q)', req' = [req EXCEPT ![r] = q],
         Excuse(d0), UNCHANGED <<memAudit, pgAudit, spool, emitted, reused>>,
         DOMAIN ledger.chains \subseteq DOMAIN ledger'.chains,
         \A d \in Nat \ {d0} : SameChain(d) /\ SameAlerts(d),
         DeviceSynced(d0) /\ Requests(d0) = {} /\ Requests(d0)' = {r} /\ req'[r] = q =>
           DeviceSynced(d0)'
  PROVE  AuditInv'
<1>1. SpoolsOK /\ LedgerOK /\ ShapesOK /\ ChainsOK /\ RowsOK /\ ReqOK
  BY DEF AuditInv, TablesInv
<1>2. excused \subseteq excused' /\ reused \subseteq reused' /\ (d0 \notin excused' => Requests(d0) = {})
  BY FlightMeans DEF Excuse
<1>3. ShapesOK' /\ ChainsOK' /\ SpoolsOK'
  BY <1>1, ChainsStay, SpoolsStay DEF ShapesOK
<1>4. RowsOK'
  <2>1. \A d \in Dev : d \in reused \cup excused => d \in (reused \cup excused)'
    BY <1>2
  <2> QED BY <1>1, <2>1, RowsStay
<1>5. ReqOK'
  BY <1>1, RequestMoves
<1>6. ASSUME NEW d \in Nat \ {d0} PROVE SameRequests(d) /\ SameStores(d)
  <2>1. SameRequests(d)
    BY <1>1, OtherRequests
  <2>2. SameStores(d)
    BY DEF SameStores, SameTable, SameRows, MoreEvents, MoreAlerts
  <2> QED BY <2>1, <2>2
<1>7. ASSUME d0 \in Nat \ excused', DeviceSynced(d0) PROVE DeviceSynced(d0)'
  BY <1>1, <1>2, <1>7, OwnRequest
<1>8. SyncInv'
  BY <1>2, <1>6, <1>7, SyncMoves
<1> QED BY <1>1, <1>3, <1>4, <1>5, <1>8 DEF AuditInv, TablesInv

\* Before a device's first request, what the ledger has of it is stored.
LEMMA AllStored ==
  ASSUME NEW d, DeviceSynced(d), Requests(d) = {}
  PROVE  /\ d \in DOMAIN ledger.chains => Synced(d)
         /\ \A i \in AlertsOf(d) : Recorded(i)
         /\ RowsSynced(d) /\ ChainKnown(d)
BY DEF DeviceSynced, ChainSynced, AlertsSynced

LEMMA AlertFits ==
  ASSUME NEW d \in Nat
  PROVE  /\ [pc |-> "alert", device |-> d].device = d /\ [pc |-> "alert", device |-> d] # Idle
         /\ [pc |-> "alert", device |-> d].pc = "alert"
         /\ ReqFits([pc |-> "alert", device |-> d])'
BY DEF ReqFits, ReqType, Idle, EnrollReq, AlertReq, Batched

\* The ledger does not know the device.
LEMMA UnknownStep ==
  ASSUME AuditInv, SignedGrows, AuxOK', NEW r \in Request, NEW d0 \in Nat, NEW batch,
         ingest_device_audit(r, d0, batch), d0 \notin DOMAIN ledger.chains
  PROVE  AuditInv'
<1>1. PICK q : q = [pc |-> "alert", device |-> d0]
  OBVIOUS
<1>2. /\ req[r] = Idle /\ Excuse(d0) /\ req' = [req EXCEPT ![r] = q]
      /\ UNCHANGED ledger /\ UNCHANGED <<memAudit, pgAudit, spool, emitted, reused>>
  BY <1>1 DEF ingest_device_audit, Admitted
<1>3. q.device = d0 /\ q # Idle /\ q.pc = "alert" /\ ReqFits(q)'
  BY <1>1, AlertFits
<1>4. LedgerOK'
  BY <1>2, LedgerStays DEF AuditInv, TablesInv
<1>5. \A d \in Nat \ {d0} : SameChain(d) /\ SameAlerts(d)
  BY <1>2 DEF SameChain, SameAlerts, AlertsOf
<1>6. ASSUME DeviceSynced(d0), Requests(d0) = {}, Requests(d0)' = {r}, req'[r] = q
      PROVE  DeviceSynced(d0)'
  <2>1. \A i \in AlertsOf(d0) : Recorded(i)
    BY <1>6, AllStored
  <2>2. AlertsSynced(d0)'
    BY <1>2, <1>3, <1>6, <2>1 DEF AlertsSynced, AlertsOf, Recorded
  <2>3. RowsSynced(d0)' /\ ChainKnown(d0)'
    BY <1>2, <1>6, AllStored DEF RowsSynced, ChainKnown
  <2>4. ChainSynced(d0)' /\ RegisterSynced(d0)' /\ BatchSynced(d0)'
    BY <1>2, <1>3, <1>6 DEF ChainSynced, RegisterSynced, BatchSynced, Batched
  <2> QED BY <1>6, <2>2, <2>3, <2>4 DEF DeviceSynced
<1>7. DOMAIN ledger.chains \subseteq DOMAIN ledger'.chains
  BY <1>2
<1> QED BY <1>2, <1>3, <1>4, <1>5, <1>6, <1>7, IngestBegins

\* The batch does not continue the chain: an alert is raised.
LEMMA RefusedStep ==
  ASSUME AuditInv, SignedGrows, AuxOK', NEW r \in Request, NEW d0 \in Nat, NEW batch,
         ingest_device_audit(r, d0, batch), d0 \in DOMAIN ledger.chains, ~Admitted(d0, batch)
  PROVE  AuditInv'
<1>1. PICK q, error : /\ q = [pc |-> "alert", device |-> d0]
                      /\ error = VerifyBatch(ledger.chains[d0].head, ledger.chains[d0].next_seq, batch,
                                             ledger.chains[d0].public_key)
  OBVIOUS
<1>2. /\ req[r] = Idle /\ Excuse(d0) /\ req' = [req EXCEPT ![r] = q]
      /\ UNCHANGED <<memAudit, pgAudit, spool, emitted, reused>>
  BY <1>1 DEF ingest_device_audit
<1>3. error # "Ok"
  BY <1>1 DEF Admitted
<1>4. ledger' = [ledger EXCEPT !.alerts = Append(ledger.alerts, <<d0, AlertKind(error)>>)]
  BY <1>1, <1>3 DEF ingest_device_audit, LedgerIngest
<1>5. q.device = d0 /\ q # Idle /\ q.pc = "alert" /\ ReqFits(q)'
  BY <1>1, AlertFits
<1>6. PICK a, old, new : a = <<d0, AlertKind(error)>> /\ old = ledger.alerts /\ new = ledger'.alerts
  OBVIOUS
<1>7. a \in Alert /\ a[1] = d0
  BY <1>6 DEF Alert, AlertKind
<1>8. LedgerOK /\ old \in Seq(Alert)
  BY <1>6 DEF AuditInv, TablesInv, LedgerOK
<1>9. /\ ledger'.chains = ledger.chains /\ new = Append(old, a)
      /\ ledger' = [chains |-> ledger'.chains, verified |-> ledger'.verified, alerts |-> ledger'.alerts]
  BY <1>4, <1>6, <1>8 DEF LedgerOK
<1>10. /\ new \in Seq(Alert) /\ DOMAIN new = DOMAIN old \cup {Len(old) + 1} /\ new[Len(old) + 1] = a
       /\ \A i \in DOMAIN old : new[i] = old[i] /\ i < Len(old) + 1
  BY <1>7, <1>8, <1>9
<1>11. LedgerOK'
  <2>1. ASSUME NEW d \in DOMAIN ledger.chains
        PROVE  ledger.chains[d].public_key = keyOf'[d] /\ SignedBy(d, ledger.chains[d].head)'
    <3>1. PICK h : h = ledger.chains[d].head
      OBVIOUS
    <3>2. d \in Dev /\ SignedBy(d, h) /\ ledger.chains[d].public_key = keyOf[d]
      BY <1>8, <3>1 DEF LedgerOK
    <3>3. SignedBy(d, h)' /\ keyOf'[d] = keyOf[d]
      BY <3>2, SignedByStays DEF SignedGrows, KeysGrow
    <3> QED BY <1>9, <3>1, <3>2, <3>3 DEF SignedBy, Emitted
  <2>2. DOMAIN ledger.chains \subseteq Dev'
    BY <1>8 DEF LedgerOK, SignedGrows, KeysGrow
  <2> QED BY <1>6, <1>8, <1>9, <1>10, <2>1, <2>2 DEF LedgerOK
<1>12. ASSUME NEW d \in Nat \ {d0} PROVE SameChain(d) /\ SameAlerts(d)
  BY <1>6, <1>7, <1>9, <1>10 DEF SameChain, SameAlerts, AlertsOf
<1>13. ASSUME DeviceSynced(d0), Requests(d0) = {}, Requests(d0)' = {r}, req'[r] = q
       PROVE  DeviceSynced(d0)'
  <2>1. /\ Synced(d0) /\ RowsSynced(d0) /\ ChainKnown(d0)
        /\ \A i \in AlertsOf(d0) : Recorded(i)
    BY <1>13, AllStored
  <2>2. \A i, j \in AlertsOf(d0)' : i < j => i \in AlertsOf(d0) /\ Recorded(i)'
    <3>1. ASSUME NEW i \in AlertsOf(d0)', NEW j \in AlertsOf(d0)', i < j
          PROVE  i \in DOMAIN old
      BY <1>6, <1>8, <1>10, <3>1 DEF AlertsOf
    <3>2. \A i \in DOMAIN old : i \in AlertsOf(d0)' => i \in AlertsOf(d0) /\ Recorded(i)'
      BY <1>2, <1>6, <1>10, <2>1 DEF AlertsOf, Recorded
    <3> QED BY <3>1, <3>2
  <2>3. AlertsSynced(d0)'
    BY <1>5, <1>13, <2>2 DEF AlertsSynced, Alerted
  <2>4. RowsSynced(d0)' /\ ChainKnown(d0)' /\ Synced(d0)'
    BY <1>2, <1>9, <2>1 DEF RowsSynced, ChainKnown, Synced, Kept
  <2>5. ChainSynced(d0)' /\ RegisterSynced(d0)' /\ BatchSynced(d0)'
    BY <1>5, <1>13, <2>4 DEF ChainSynced, RegisterSynced, BatchSynced, Batched
  <2> QED BY <1>13, <2>3, <2>4, <2>5 DEF DeviceSynced
<1>14. DOMAIN ledger.chains \subseteq DOMAIN ledger'.chains
  BY <1>9
<1> QED BY <1>2, <1>5, <1>11, <1>12, <1>13, <1>14, IngestBegins

\* What AuditLedger::ingest does with a batch it accepts: the chain of the device
\* grows by the entries, which its spool holds.
Extended(d0, es, hd) ==
  /\ es \in Seq(SpoolEntry) /\ hd \in ChainHash /\ SignedBy(d0, hd)
  /\ Len(ledger.chains[d0].head) <= Len(hd)
  /\ \A n \in 1..Len(ledger.chains[d0].head) : ledger.chains[d0].head[n] = hd[n]
  /\ \A k \in DOMAIN es : es[k].seq \in 1..Len(hd) /\ es[k].event = hd[es[k].seq].event
  /\ \A n \in 1..Len(hd) : n \in 1..Len(ledger.chains[d0].head) \/ \E k \in DOMAIN es : es[k].seq = n
  /\ ledger'.chains \in [DOMAIN ledger.chains -> Chain]
  /\ ledger'.chains[d0].head = hd /\ ledger'.chains[d0].public_key = ledger.chains[d0].public_key
  /\ \A d \in DOMAIN ledger.chains \ {d0} : ledger'.chains[d] = ledger.chains[d]
  /\ ledger'.alerts = ledger.alerts
  /\ ledger' = [chains |-> ledger'.chains, verified |-> ledger'.verified, alerts |-> ledger'.alerts]

LEMMA AcceptMeans ==
  ASSUME SpoolsOK, LedgerOK, NEW d0 \in DOMAIN ledger.chains, NEW key \in Key,
         NEW i \in 0..Len(spool[key]), NEW j \in 0..i, Admitted(d0, Batch(key, j, i)),
         ledger' = LedgerIngest(d0, Batch(key, j, i))
  PROVE  \E hd : Extended(d0, Batch(key, j, i).entries, hd)
<1>1. PICK b, c : b = Batch(key, j, i) /\ c = ledger.chains[d0]
  OBVIOUS
<1>2. /\ spool \in [Key -> ChainHash] /\ Emitted(key, spool[key]) /\ c \in Chain
      /\ c.public_key = keyOf[d0]
  BY <1>1 DEF SpoolsOK, LedgerOK
<1>3. /\ c.head \in ChainHash /\ c.next_seq \in Nat \ {0} /\ c.public_key \in Key
      /\ c = [public_key |-> c.public_key, next_seq |-> c.next_seq, head |-> c.head]
  BY <1>2 DEF Chain
<1>4. VerifyBatch(c.head, c.next_seq, Batch(key, j, i), c.public_key) = "Ok"
  BY <1>1 DEF Admitted
<1>5. key = c.public_key /\ \E es, hd : Continues(key, j, i, c.head, es, hd)
  <2>1. PICK prev, ns, signer : prev = c.head /\ ns = c.next_seq /\ signer = c.public_key
    OBVIOUS
  <2>2. /\ spool \in [Key -> ChainHash] /\ prev \in ChainHash /\ ns \in Nat \ {0}
        /\ VerifyBatch(prev, ns, Batch(key, j, i), signer) = "Ok"
    BY <1>2, <1>3, <1>4, <2>1
  <2>3. key = signer /\ \E es, hd : Continues(key, j, i, prev, es, hd)
    BY <2>2, AcceptedEntries
  <2> QED BY <2>1, <2>3, Zenon
<1> PICK es, hd : Continues(key, j, i, c.head, es, hd)
  BY <1>5
<1>0. /\ es \in Seq(SpoolEntry) /\ hd \in ChainHash /\ es = Batch(key, j, i).entries
      /\ Running(c.head, es, Len(es) + 1) = hd
      /\ Len(hd) = i /\ \A n \in 1..i : hd[n] = spool[key][n]
      /\ Len(c.head) = j /\ \A n \in 1..j : c.head[n] = hd[n]
      /\ Len(es) = i - j
      /\ \A k \in 1..(i - j) : es[k].seq = j + k /\ es[k].event = hd[j + k].event
  BY DEF Continues
<1>6. i \in Nat /\ j \in Nat /\ j <= i /\ DOMAIN es = 1..(i - j) /\ i <= Len(spool[key])
  <2>1. spool[key] \in Seq(Link)
    BY <1>2 DEF ChainHash
  <2>2. Len(spool[key]) \in Nat
    BY <2>1
  <2> QED BY <1>0, <2>2
<1>7. SignedBy(d0, hd)
  <2>1. \A n \in 1..Len(spool[key]) : <<key, n, spool[key][n].event>> \in emitted
    BY <1>2 DEF Emitted
  <2>2. \A n \in 1..Len(hd) : n \in 1..Len(spool[key]) /\ hd[n] = spool[key][n]
    <3>1. spool[key] \in Seq(Link)
      BY <1>2 DEF ChainHash
    <3> QED BY <1>0, <1>6, <3>1
  <2>3. \A n \in 1..Len(hd) : <<keyOf[d0], n, hd[n].event>> \in emitted
    BY <1>2, <1>5, <2>1, <2>2
  <2> QED BY <1>0, <2>3 DEF SignedBy, Emitted
<1>8. ledger' = [ledger EXCEPT
        !.chains[d0].next_seq = @ + Len(b.entries),
        !.chains[d0].head = Running(c.head, b.entries, Len(b.entries) + 1),
        !.verified = @ \o [k \in DOMAIN b.entries |-> <<d0, b.entries[k].event>>]]
  BY <1>1, <1>4 DEF LedgerIngest
<1>9. b.entries = es /\ Running(c.head, b.entries, Len(b.entries) + 1) = hd
  BY <1>1, <1>0
<1>10. /\ ledger'.alerts = ledger.alerts
       /\ ledger' = [chains |-> ledger'.chains, verified |-> ledger'.verified, alerts |-> ledger'.alerts]
       /\ ledger'.chains = [ledger.chains EXCEPT ![d0].next_seq = @ + Len(es), ![d0].head = hd]
  BY <1>8, <1>9 DEF LedgerOK
<1>11. PICK next, row : next = c.next_seq + Len(es)
                        /\ row = [public_key |-> c.public_key, next_seq |-> next, head |-> hd]
  OBVIOUS
<1>12. next \in Nat \ {0}
  BY <1>3, <1>0, <1>6, <1>11
<1>13. ledger'.chains = [ledger.chains EXCEPT ![d0] = row]
  <2>1. ledger'.chains = [ledger.chains EXCEPT ![d0] = [[c EXCEPT !.next_seq = next] EXCEPT !.head = hd]]
    BY <1>1, <1>10, <1>11
  <2>2. [[c EXCEPT !.next_seq = next] EXCEPT !.head = hd] = row
    <3>1. PICK k, m, h : c = [public_key |-> k, next_seq |-> m, head |-> h] /\ k = c.public_key
      BY <1>3
    <3>2. row = [public_key |-> k, next_seq |-> next, head |-> hd]
      BY <1>11, <3>1
    <3>3. PICK c1 : c1 = [c EXCEPT !.next_seq = next]
      OBVIOUS
    <3>4. c1 = [public_key |-> k, next_seq |-> next, head |-> h]
      BY <3>1, <3>3
    <3>5. [c1 EXCEPT !.head = hd] = [public_key |-> k, next_seq |-> next, head |-> hd]
      BY <3>4
    <3> QED BY <3>2, <3>3, <3>5
  <2> QED BY <2>1, <2>2
<1>14. row \in Chain /\ row.head = hd /\ row.public_key = c.public_key
  BY <1>3, <1>0, <1>11, <1>12 DEF Chain
<1>15. /\ ledger'.chains \in [DOMAIN ledger.chains -> Chain] /\ ledger'.chains[d0] = row
       /\ \A d \in DOMAIN ledger.chains \ {d0} : ledger'.chains[d] = ledger.chains[d]
  <2>1. ledger.chains \in [DOMAIN ledger.chains -> Chain]
    BY DEF LedgerOK
  <2> QED BY <1>13, <1>14, <2>1
<1>16. \A k \in DOMAIN es : es[k].seq \in 1..i /\ es[k].event = hd[es[k].seq].event
  BY <1>0, <1>6
<1>17. ASSUME NEW n \in 1..i, n \notin 1..j PROVE \E k \in DOMAIN es : es[k].seq = n
  <2>1. n - j \in DOMAIN es /\ j + (n - j) = n
    BY <1>6, <1>17
  <2> QED BY <1>0, <1>6, <2>1
<1>18. Extended(d0, es, hd)
  <2>1. /\ es \in Seq(SpoolEntry) /\ hd \in ChainHash
        /\ Len(ledger.chains[d0].head) <= Len(hd)
        /\ \A n \in 1..Len(ledger.chains[d0].head) : ledger.chains[d0].head[n] = hd[n]
    BY <1>1, <1>0, <1>6
  <2>2. /\ \A k \in DOMAIN es : es[k].seq \in 1..Len(hd) /\ es[k].event = hd[es[k].seq].event
        /\ \A n \in 1..Len(hd) :
             n \in 1..Len(ledger.chains[d0].head) \/ \E k \in DOMAIN es : es[k].seq = n
    <3>1. 1..Len(hd) = 1..i /\ 1..Len(ledger.chains[d0].head) = 1..j
      BY <1>0, <1>1
    <3> QED BY <1>16, <1>17, <3>1
  <2>3. /\ ledger'.chains[d0].head = hd
        /\ ledger'.chains[d0].public_key = ledger.chains[d0].public_key
    BY <1>1, <1>14, <1>15
  <2> QED BY <1>7, <1>10, <1>15, <2>1, <2>2, <2>3, Zenon DEF Extended
<1>19. es = Batch(key, j, i).entries
  BY <1>0
<1> QED BY <1>18, <1>19

\* The ledger takes the batch: its chain is ahead of the store by what the request carries.
LEMMA AdmittedStep ==
  ASSUME AuditInv, SignedGrows, AuxOK', NEW r \in Request, NEW d0 \in Nat, NEW batch,
         ingest_device_audit(r, d0, batch), d0 \in DOMAIN ledger.chains, Admitted(d0, batch),
         NEW es, es = batch.entries, NEW hd, Extended(d0, es, hd)
  PROVE  AuditInv'
<1>1. PICK q : q = [pc |-> "position", device |-> d0, entries |-> es]
  OBVIOUS
<1>2. /\ req[r] = Idle /\ Excuse(d0) /\ req' = [req EXCEPT ![r] = q]
      /\ UNCHANGED <<memAudit, pgAudit, spool, emitted, reused>>
  BY <1>1 DEF ingest_device_audit
<1>3. /\ LedgerOK /\ d0 \in Dev /\ Dev \subseteq Dev' /\ DOMAIN ledger.chains \subseteq Dev
      /\ DOMAIN ledger'.chains = DOMAIN ledger.chains
      /\ \A d \in Dev : keyOf'[d] = keyOf[d]
  BY DEF AuditInv, TablesInv, LedgerOK, SignedGrows, KeysGrow, Extended
<1>4. es \in Seq(SpoolEntry) /\ hd \in ChainHash /\ SignedBy(d0, hd)
  BY DEF Extended
<1>5. PICK old : old = ledger.chains[d0].head
  OBVIOUS
<1>6. /\ Len(old) \in Nat /\ Len(hd) \in Nat /\ Len(old) <= Len(hd)
      /\ \A n \in 1..Len(old) : n \in 1..Len(hd) /\ old[n] = hd[n]
  <2>1. old \in Seq(Link) /\ hd \in Seq(Link)
    BY <1>3, <1>4, <1>5 DEF LedgerOK, Chain, ChainHash
  <2> QED BY <1>5, <2>1 DEF Extended
<1>7. Signed(d0, es)
  <2>1. \A n \in 1..Len(hd) : <<keyOf[d0], n, hd[n].event>> \in emitted
    BY <1>4 DEF SignedBy, Emitted
  <2> QED BY SMTT(30), <1>4, <2>1 DEF Signed, Extended
<1>8. q.pc = "position" /\ q.device = d0 /\ q.entries = es /\ q # Idle /\ q \in PositionReq
  BY <1>1, <1>4 DEF Idle, PositionReq
<1>9. ReqFits(q)'
  <2>1. q \in ReqType /\ ~(q \in EnrollReq)
    BY <1>8 DEF ReqType, EnrollReq
  <2>2. Signed(d0, es)'
    BY <1>3, <1>7, SignedStays
  <2> QED BY <1>3, <1>8, <2>1, <2>2 DEF ReqFits
<1>10. LedgerOK'
  <2>1. ASSUME NEW d \in DOMAIN ledger'.chains
        PROVE  ledger'.chains[d].public_key = keyOf'[d] /\ SignedBy(d, ledger.chains[d].head)'
    <3>1. PICK h : h = ledger'.chains[d].head
      OBVIOUS
    <3>2. d \in Dev /\ keyOf'[d] = keyOf[d] /\ ledger.chains[d].public_key = keyOf[d]
      BY <1>3 DEF LedgerOK
    <3>3. ledger'.chains[d].public_key = keyOf'[d] /\ SignedBy(d, h)
      <4>1. CASE d = d0
        BY <1>4, <3>1, <3>2, <4>1 DEF Extended
      <4>2. CASE d # d0
        <5>1. ledger'.chains[d] = ledger.chains[d]
          BY <1>3, <4>2 DEF Extended
        <5> QED BY <1>3, <3>1, <3>2, <5>1 DEF LedgerOK
      <4> QED BY <4>1, <4>2
    <3>4. SignedBy(d, h)'
      BY <3>2, <3>3, SignedByStays
    <3> QED BY <3>1, <3>3, <3>4 DEF SignedBy, Emitted
  <2>2. ledger'.alerts \in Seq(Alert)
    BY <1>3 DEF Extended, LedgerOK
  <2>3. /\ ledger'.chains \in [DOMAIN ledger'.chains -> Chain]
        /\ ledger' = [chains |-> ledger'.chains, verified |-> ledger'.verified,
                      alerts |-> ledger'.alerts]
    BY <1>3 DEF Extended
  <2> QED BY <1>3, <2>1, <2>2, <2>3 DEF LedgerOK
<1>11. ASSUME NEW d \in Nat \ {d0} PROVE SameChain(d) /\ SameAlerts(d)
  BY <1>3 DEF Extended, SameChain, SameAlerts, AlertsOf
<1>12. ASSUME DeviceSynced(d0), Requests(d0) = {}, Requests(d0)' = {r}, req'[r] = q
       PROVE  DeviceSynced(d0)'
  <2>1. /\ Synced(d0) /\ RowsSynced(d0) /\ \A i \in AlertsOf(d0) : Recorded(i)
    BY <1>12, AllStored
  <2>2. ledger'.chains[d0].head = hd /\ ledger'.alerts = ledger.alerts
    BY DEF Extended
  <2>3. \A n \in 1..Len(old) : Kept(d0, n)'
    BY <1>2, <1>5, <1>6, <2>1, <2>2 DEF Synced, Kept
  <2>4. Carries(d0, es)'
    BY <1>5, <2>2, <2>3 DEF Carries, Extended
  <2>5. d0 \in DOMAIN pgAudit.audit_chain
    BY <2>1 DEF Synced
  <2>6. BatchSynced(d0)'
    <3>1. Carries(d0, req[r].entries)'
      BY <1>8, <1>12, <2>4 DEF Carries
    <3> QED BY <1>2, <1>8, <1>12, <2>5, <3>1 DEF BatchSynced
  <2>7. ChainSynced(d0)' /\ RegisterSynced(d0)'
    BY <1>8, <1>12 DEF ChainSynced, RegisterSynced, Batched
  <2>8. AlertsSynced(d0)'
    BY <1>2, <1>8, <1>12, <2>1, <2>2 DEF AlertsSynced, AlertsOf, Recorded
  <2>9. RowsSynced(d0)' /\ ChainKnown(d0)'
    BY <1>2, <1>3, <1>5, <1>6, <2>1, <2>2 DEF RowsSynced, ChainKnown
  <2> QED BY <1>12, <2>6, <2>7, <2>8, <2>9 DEF DeviceSynced
<1>13. DOMAIN ledger.chains \subseteq DOMAIN ledger'.chains
  BY <1>3
<1> QED BY <1>2, <1>8, <1>9, <1>10, <1>11, <1>12, <1>13, IngestBegins

LEMMA IngestStep ==
  ASSUME AuditInv, SignedGrows, AuxOK', NEW r \in Request, NEW d0 \in Nat, NEW key \in Key,
         NEW i \in 0..Len(spool[key]), NEW j \in 0..i, ingest_device_audit(r, d0, Batch(key, j, i))
  PROVE  AuditInv'
<1>1. PICK b : b = Batch(key, j, i)
  OBVIOUS
<1>2. ingest_device_audit(r, d0, b)
  BY <1>1
<1>3. CASE d0 \notin DOMAIN ledger.chains
  BY <1>2, <1>3, UnknownStep
<1>4. CASE d0 \in DOMAIN ledger.chains /\ ~Admitted(d0, b)
  BY <1>2, <1>4, RefusedStep
<1>5. CASE d0 \in DOMAIN ledger.chains /\ Admitted(d0, b)
  <2>1. ledger' = LedgerIngest(d0, b) /\ SpoolsOK /\ LedgerOK
    BY <1>2, <1>5 DEF ingest_device_audit, AuditInv, TablesInv
  <2>2. PICK hd : Extended(d0, b.entries, hd)
    BY <1>1, <1>5, <2>1, AcceptMeans
  <2> QED BY <1>2, <1>5, <2>2, AdmittedStep
<1> QED BY <1>3, <1>4, <1>5

-----------------------------------------------------------------------------
(* The devices and the faults. *)

\* A step that moves nothing but the spools.
LEMMA OnlySpools ==
  ASSUME AuditInv, SignedGrows, AuxOK', SpoolsOK', UNCHANGED <<req, excused, reused>>,
         UNCHANGED auditVars
  PROVE  AuditInv'
<1>1. TablesInv
  BY DEF AuditInv
<1>2. LedgerOK' /\ ShapesOK' /\ ChainsOK' /\ RowsOK'
  BY <1>1, TypesStay
<1>3. ReqOK'
  BY <1>1, RequestsStay DEF TablesInv, auditVars
<1> QED BY <1>2, <1>3, SyncStays DEF AuditInv, TablesInv

LEMMA EmitStep ==
  ASSUME AuditInv, SignedGrows, AuxOK', NEW key \in Key, NEW event \in Event, EmitEvent(key, event)
  PROVE  AuditInv'
<1>1. PICK old, new : old = spool[key] /\ new = Append(old, [seq |-> Len(old) + 1, event |-> event])
  OBVIOUS
<1>2. /\ spool' = [spool EXCEPT ![key] = new]
      /\ emitted' = emitted \cup {<<key, Len(old) + 1, event>>}
      /\ UNCHANGED <<req, excused, reused>> /\ UNCHANGED auditVars
  BY <1>1 DEF EmitEvent, EntryHash
<1>3. SpoolsOK
  BY DEF AuditInv, TablesInv
<1>4. old \in Seq(Link) /\ [seq |-> Len(old) + 1, event |-> event] \in Link
  <2>1. old \in Seq(Link)
    BY <1>1, <1>3 DEF SpoolsOK, ChainHash
  <2>2. Len(old) + 1 \in Nat
    BY <2>1
  <2> QED BY <2>1, <2>2 DEF Link
<1>5. /\ new \in Seq(Link) /\ Len(new) = Len(old) + 1 /\ Len(old) \in Nat
      /\ \A n \in 1..Len(old) : new[n] = old[n]
      /\ new[Len(old) + 1] = [seq |-> Len(old) + 1, event |-> event]
  BY <1>1, <1>4
<1>6. /\ spool' \in [Key -> ChainHash] /\ spool'[key] = new
      /\ \A k \in Key \ {key} : spool'[k] = spool[k]
  BY <1>2, <1>3, <1>5 DEF SpoolsOK, ChainHash
<1>7. ASSUME NEW k \in Key PROVE Emitted(k, spool[k])'
  <2>1. CASE k = key
    <3>1. \A n \in 1..Len(old) : <<key, n, old[n].event>> \in emitted
      BY <1>1, <1>3 DEF SpoolsOK, Emitted
    <3>2. ASSUME NEW n \in 1..Len(new) PROVE <<key, n, new[n].event>> \in emitted'
      <4>1. CASE n \in 1..Len(old)
        BY <1>2, <1>5, <3>1, <4>1
      <4>2. CASE n = Len(old) + 1
        BY <1>2, <1>5, <4>2
      <4> QED BY <1>5, <4>1, <4>2
    <3> QED BY <1>5, <1>6, <2>1, <3>2 DEF Emitted, ChainHash
  <2>2. CASE k # key
    BY <1>2, <1>3, <1>6, <2>2 DEF SpoolsOK, Emitted
  <2> QED BY <2>1, <2>2
<1>8. SpoolsOK'
  BY <1>6, <1>7 DEF SpoolsOK
<1>9. UNCHANGED <<req, excused, reused>> /\ UNCHANGED auditVars
  BY <1>2
<1> QED BY <1>8, <1>9, OnlySpools

LEMMA FreshSpoolStep ==
  ASSUME AuditInv, SignedGrows, AuxOK', NEW key \in Key, FreshSpool(key)
  PROVE  AuditInv'
<1>1. /\ spool' = [spool EXCEPT ![key] = << >>] /\ UNCHANGED emitted
      /\ UNCHANGED <<req, excused, reused>> /\ UNCHANGED auditVars
  BY DEF FreshSpool, auxVars, GENESIS
<1>2. SpoolsOK /\ << >> \in ChainHash /\ Len(<< >>) = 0
  BY DEF AuditInv, TablesInv, ChainHash
<1>3. /\ spool' \in [Key -> ChainHash] /\ spool'[key] = << >>
      /\ \A k \in Key \ {key} : spool'[k] = spool[k]
  BY <1>1, <1>2 DEF SpoolsOK
<1>4. ASSUME NEW k \in Key PROVE Emitted(k, spool[k])'
  <2>1. CASE k = key
    BY <1>2, <1>3, <2>1 DEF Emitted
  <2>2. CASE k # key
    BY <1>1, <1>2, <1>3, <2>2 DEF SpoolsOK, Emitted
  <2> QED BY <2>1, <2>2
<1>5. SpoolsOK'
  BY <1>3, <1>4 DEF SpoolsOK
<1>6. UNCHANGED <<req, excused, reused>> /\ UNCHANGED auditVars
  BY <1>1
<1> QED BY <1>5, <1>6, OnlySpools

\* What the directory has of the devices' keys, in both stores.
PgKeysOK ==
  /\ DOMAIN pg.device = Dev /\ DOMAIN mem.devices = Dev
  /\ \A d \in Dev : pg.device[d].device_pubkey = keyOf[d]

\* The gateway restarts with a ledger of its own: nothing is under way.
LEMMA RestartStep ==
  ASSUME AuditInv, SignedGrows, AuxOK', KeysOK, PgKeysOK, RestartGateway
  PROVE  AuditInv'
<1>1. /\ req' = [r \in Request |-> Idle] /\ UNCHANGED storeVars
      /\ UNCHANGED <<memAudit, pgAudit, spool, emitted, reused>>
  BY DEF RestartGateway
<1>2. SpoolsOK /\ LedgerOK /\ ShapesOK /\ ChainsOK /\ RowsOK /\ ReqOK /\ SyncInv
  BY DEF AuditInv, TablesInv
<1>3. ReqOK'
  <2>1. Idle \in ReqType
    BY DEF ReqType
  <2> QED BY <1>1, <2>1, IdleFitsNext DEF ReqOK
<1>4. SpoolsOK' /\ ShapesOK' /\ ChainsOK'
  BY <1>1, <1>2, SpoolsStay, ChainsStay DEF ShapesOK
<1>5. /\ ledger' = [chains |-> ledger'.chains, verified |-> ledger'.verified, alerts |-> ledger'.alerts]
      /\ ledger'.alerts = << >> /\ ledger'.alerts \in Seq(Alert)
  <2>1. \E cs : ledger' = [chains |-> cs, verified |-> << >>, alerts |-> << >>]
    BY DEF RestartGateway
  <2>2. PICK cs : ledger' = [chains |-> cs, verified |-> << >>, alerts |-> << >>]
    BY <2>1
  <2>3. ledger'.chains = cs /\ ledger'.verified = << >> /\ ledger'.alerts = << >>
    BY <2>2
  <2> QED BY <2>2, <2>3
<1>6. /\ \A d : Requests(d)' = {}
      /\ \A d : AlertsOf(d)' = {}
  BY <1>1, <1>5 DEF Requests, AlertsOf
<1>7. Dev' = Dev /\ \A d \in Dev : keyOf'[d] = keyOf[d]
  BY <1>1 DEF storeVars, Dev, keyOf
<1>8. CASE /\ ledger'.chains = PgLoadChains
           /\ excused' = excused \cup {d \in DOMAIN mem.devices : InFlight(d)}
  <2>1. /\ DOMAIN ledger'.chains = DOMAIN pgAudit.audit_chain
        /\ \A d \in DOMAIN pgAudit.audit_chain : /\ d \in Dev
             /\ ledger'.chains[d] = [public_key |-> keyOf[d],
                                     next_seq |-> pgAudit.audit_chain[d].next_seq,
                                     head |-> pgAudit.audit_chain[d].head]
    <3>1. DOMAIN pgAudit.audit_chain \subseteq Dev
      BY <1>2 DEF ChainsOK
    <3>2. DOMAIN pgAudit.audit_chain \cap DOMAIN pg.device = DOMAIN pgAudit.audit_chain
      BY <3>1 DEF PgKeysOK
    <3>3. ledger'.chains = [d \in DOMAIN pgAudit.audit_chain |->
            [public_key |-> pg.device[d].device_pubkey, next_seq |-> pgAudit.audit_chain[d].next_seq,
             head |-> pgAudit.audit_chain[d].head]]
      BY <1>8, <3>2 DEF PgLoadChains
    <3> QED BY <3>1, <3>3 DEF PgKeysOK
  <2>2. LedgerOK'
    <3>1. ASSUME NEW d \in DOMAIN ledger'.chains
          PROVE  /\ ledger'.chains[d] \in Chain /\ d \in Dev
                 /\ ledger'.chains[d].public_key = keyOf'[d] /\ SignedBy(d, ledger.chains[d].head)'
      <4>1. d \in Dev /\ d \in DOMAIN pgAudit.audit_chain /\ keyOf[d] \in Key
        BY <2>1, <3>1 DEF KeysOK
      <4>2. PICK p : p = pgAudit.audit_chain[d]
        OBVIOUS
      <4>3. p \in Position /\ SignedBy(d, p.head)
        BY <1>2, <4>1, <4>2 DEF ChainsOK
      <4>4. ledger'.chains[d] = [public_key |-> keyOf[d], next_seq |-> p.next_seq, head |-> p.head]
        BY <2>1, <4>1, <4>2
      <4>5. ledger'.chains[d] \in Chain
        BY <4>1, <4>3, <4>4 DEF Chain, Position
      <4>6. SignedBy(d, p.head)'
        <5>1. PICK h : h = p.head
          OBVIOUS
        <5>2. SignedBy(d, h)'
          BY <4>1, <4>3, <5>1, SignedByStays
        <5> QED BY <5>1, <5>2
      <4>7. ledger'.chains[d].head = p.head /\ ledger'.chains[d].public_key = keyOf[d]
        BY <4>4
      <4> QED BY <1>7, <4>1, <4>5, <4>6, <4>7 DEF SignedBy, Emitted
    <3>2. ledger'.chains \in [DOMAIN ledger'.chains -> Chain]
      <4>1. ledger'.chains = [d \in DOMAIN ledger'.chains |-> ledger'.chains[d]]
        BY <1>8 DEF PgLoadChains
      <4> QED BY <3>1, <4>1
    <3> QED BY <1>5, <1>7, <3>1, <3>2 DEF LedgerOK
  <2>3. RowsOK'
    <3>1. \A d \in Dev : d \in reused \cup excused => d \in (reused \cup excused)'
      BY <1>1, <1>8
    <3> QED BY <1>1, <1>2, <3>1, RowsStay
  <2>4. ASSUME NEW d \in Nat \ excused' PROVE DeviceSynced(d)'
    <3>1. DeviceSynced(d) /\ (d \in Dev => Requests(d) = {})
      BY <1>2, <1>8, <2>4, FlightMeans DEF SyncInv, PgKeysOK
    <3>2. d \in DOMAIN pgAudit.audit_chain => d \in DOMAIN ledger.chains
      BY <3>1 DEF DeviceSynced, ChainKnown
    <3>3. d \in DOMAIN ledger.chains =>
            /\ Synced(d) /\ d \in DOMAIN ledger'.chains
            /\ ledger'.chains[d].head = ledger.chains[d].head
            /\ ledger'.chains[d].next_seq = pgAudit.audit_chain[d].next_seq
      <4> SUFFICES ASSUME d \in DOMAIN ledger.chains
                   PROVE  /\ Synced(d) /\ d \in DOMAIN ledger'.chains
                          /\ ledger'.chains[d].head = ledger.chains[d].head
                          /\ ledger'.chains[d].next_seq = pgAudit.audit_chain[d].next_seq
        OBVIOUS
      <4>1. d \in Dev
        BY <1>2 DEF LedgerOK
      <4>2. Synced(d)
        BY <3>1, <4>1 DEF DeviceSynced, ChainSynced
      <4>3. d \in DOMAIN pgAudit.audit_chain /\ pgAudit.audit_chain[d].head = ledger.chains[d].head
        BY <4>2 DEF Synced
      <4>4. /\ d \in DOMAIN ledger'.chains
            /\ ledger'.chains[d].head = pgAudit.audit_chain[d].head
            /\ ledger'.chains[d].next_seq = pgAudit.audit_chain[d].next_seq
        <5>1. PICK c, p : c = ledger'.chains[d] /\ p = pgAudit.audit_chain[d]
          OBVIOUS
        <5>2. d \in DOMAIN ledger'.chains /\ c = [public_key |-> keyOf[d], next_seq |-> p.next_seq, head |-> p.head]
          BY <2>1, <4>3, <5>1
        <5>3. c.head = p.head /\ c.next_seq = p.next_seq
          BY <5>2
        <5> QED BY <5>1, <5>2, <5>3
      <4> QED BY <4>2, <4>3, <4>4
    <3>4. d \in DOMAIN ledger'.chains => Synced(d)'
      BY <1>1, <2>1, <3>2, <3>3 DEF Synced, Kept
    <3>5. RowsSynced(d)'
      BY <1>1, <3>1, <3>3 DEF DeviceSynced, RowsSynced
    <3>6. ChainKnown(d)'
      BY <1>1, <2>1 DEF ChainKnown
    <3> QED BY <1>6, <3>4, <3>5, <3>6, NothingPending
  <2> QED BY <1>3, <1>4, <2>2, <2>3, <2>4 DEF AuditInv, TablesInv, SyncInv
<1>9. CASE ledger'.chains = Empty /\ excused' = DOMAIN mem.devices
  <2>1. excused' = Dev /\ DOMAIN ledger'.chains = {}
    BY <1>9 DEF PgKeysOK, Empty
  <2>2. LedgerOK'
    <3>1. ledger'.chains \in [DOMAIN ledger'.chains -> Chain]
      BY <1>9, <2>1 DEF Empty
    <3> QED BY <1>5, <2>1, <3>1 DEF LedgerOK
  <2>3. RowsOK'
    <3>1. \A d \in Dev : d \in reused \cup excused => d \in (reused \cup excused)'
      BY <2>1
    <3> QED BY <1>1, <1>2, <3>1, RowsStay
  <2>4. ASSUME NEW d \in Nat \ excused' PROVE DeviceSynced(d)'
    <3>1. d \notin Dev
      BY <2>1, <2>4
    <3>2. /\ d \notin DOMAIN pgAudit.audit_chain
          /\ \A n : <<d, n>> \notin DOMAIN pgAudit.audit_event
      BY <1>2, <3>1 DEF ChainsOK, RowsOK
    <3>3. RowsSynced(d)' /\ ChainKnown(d)'
      BY <1>1, <3>2 DEF RowsSynced, ChainKnown
    <3> QED BY <1>6, <2>1, <3>3, NothingPending
  <2> QED BY <1>3, <1>4, <2>2, <2>3, <2>4 DEF AuditInv, TablesInv, SyncInv
<1> QED BY <1>8, <1>9 DEF RestartGateway

-----------------------------------------------------------------------------
(* The parts of the directory that a call leaves as they were.             *)

SameUsers ==
  /\ mem'.next_user = mem.next_user /\ mem'.users = mem.users /\ mem'.emails = mem.emails
  /\ pg'.app_user = pg.app_user
SameMemberships == mem'.memberships = mem.memberships /\ pg'.membership = pg.membership
SameInvitations == mem'.invitations = mem.invitations /\ pg'.invitation = pg.invitation
SameDevices ==
  /\ mem'.next_device = mem.next_device /\ mem'.devices = mem.devices
  /\ mem'.devices_by_key = mem.devices_by_key /\ pg'.device = pg.device
SameFingerprints == mem'.device_fingerprints = mem.device_fingerprints

LEMMA UsersStay ==
  ASSUME UsersOK, SameUsers, pg'.user_seq \in {pg.user_seq, pg.user_seq + 1}
  PROVE  UsersOK'
<1>1. pg'.user_seq \in Nat /\ 1..pg.user_seq \subseteq 1..pg'.user_seq
  BY DEF UsersOK
<1> QED BY <1>1 DEF UsersOK, SameUsers

LEMMA MembershipsStay ==
  ASSUME MembershipsOK, SameUsers, SameMemberships
  PROVE  MembershipsOK'
BY SMTT(30) DEF MembershipsOK, SameUsers, SameMemberships

LEMMA InvitationsStay ==
  ASSUME InvitationsOK, SameInvitations
  PROVE  InvitationsOK'
BY DEF InvitationsOK, SameInvitations

LEMMA DevicesStay ==
  ASSUME DevicesOK, SameUsers, SameDevices
  PROVE  DevicesOK'
BY ZenonT(60) DEF DevicesOK, SameUsers, SameDevices, SameDevice, Dev

\* A device that is there keeps its number and its certificate.
LEMMA FingerprintsStay ==
  ASSUME FingerprintsOK, SameFingerprints, Dev' = Dev,
         \A d \in Dev : pg'.device[d].cert_fingerprint = pg.device[d].cert_fingerprint
  PROVE  FingerprintsOK'
BY DEF FingerprintsOK, SameFingerprints

LEMMA KeysStay ==
  ASSUME SameDevices
  PROVE  KeysGrow /\ Dev' = Dev
BY DEF SameDevices, KeysGrow, Dev, keyOf

LEMMA DirectoryStays ==
  ASSUME DirInv, UNCHANGED storeVars
  PROVE  DirInv' /\ KeysGrow
<1>1. SameUsers /\ SameMemberships /\ SameInvitations /\ SameDevices /\ SameFingerprints
  BY DEF storeVars, SameUsers, SameMemberships, SameInvitations, SameDevices, SameFingerprints
<1>2. ShapeOK'
  BY DEF storeVars, DirInv, ShapeOK
<1>3. /\ \A d \in Dev : pg'.device[d].cert_fingerprint = pg.device[d].cert_fingerprint
      /\ pg'.user_seq \in {pg.user_seq, pg.user_seq + 1}
  BY DEF storeVars
<1> QED BY <1>1, <1>2, <1>3, UsersStay, MembershipsStay, InvitationsStay, DevicesStay, FingerprintsStay,
           KeysStay DEF DirInv

LEMMA Directory ==
  ASSUME DirInv
  PROVE  KeysOK /\ PgKeysOK
<1>1. ASSUME NEW d \in Dev
      PROVE  mem.devices[d].pubkey \in Key /\ pg.device[d].device_pubkey = mem.devices[d].pubkey
  <2> PICK row, dev : row = mem.devices[d] /\ dev = pg.device[d]
    OBVIOUS
  <2>1. SameDevice(row, dev)
    BY DEF DirInv, DevicesOK
  <2> QED BY <2>1 DEF SameDevice, DeviceRow
<1> QED BY <1>1 DEF DirInv, DevicesOK, KeysOK, PgKeysOK, keyOf

-----------------------------------------------------------------------------
(* The calls of the store. *)

LEMMA UpsertStep ==
  ASSUME DirInv, NEW email, mem' = MemUpsertUser(mem, email), pg' = PgUpsertUser(pg, email)
  PROVE  DirInv' /\ KeysGrow
<1>1. ShapeOK /\ UsersOK /\ MembershipsOK /\ InvitationsOK /\ DevicesOK /\ FingerprintsOK
  BY DEF DirInv
<1>2. /\ DOMAIN pg' = DOMAIN pg /\ pg'.user_seq = pg.user_seq + 1
      /\ pg'.app_user = IF email \in DOMAIN pg.app_user THEN pg.app_user
                        ELSE Put(pg.app_user, email, pg.user_seq + 1)
      /\ pg'.membership = pg.membership /\ pg'.invitation = pg.invitation /\ pg'.device = pg.device
  BY <1>1 DEF PgUpsertUser, ShapeOK
<1>3. DOMAIN pg.app_user = DOMAIN mem.users
  BY <1>1 DEF UsersOK
<1>4. CASE email \in DOMAIN mem.users
  <2>1. mem' = mem /\ pg'.app_user = pg.app_user
    BY <1>2, <1>3, <1>4 DEF MemUpsertUser
  <2>2. SameUsers /\ SameMemberships /\ SameInvitations /\ SameDevices /\ SameFingerprints
    BY <1>2, <2>1 DEF SameUsers, SameMemberships, SameInvitations, SameDevices, SameFingerprints
  <2>3. ShapeOK' /\ pg'.user_seq \in {pg.user_seq, pg.user_seq + 1}
    BY <1>1, <1>2, <2>1 DEF ShapeOK
  <2>4. \A d \in Dev : pg'.device[d].cert_fingerprint = pg.device[d].cert_fingerprint
    BY <1>2
  <2> QED BY <1>1, <2>2, <2>3, <2>4, UsersStay, MembershipsStay, InvitationsStay, DevicesStay,
             FingerprintsStay, KeysStay DEF DirInv
<1>5. CASE email \notin DOMAIN mem.users
  <2>1. PICK m, n : m = mem.next_user + 1 /\ n = pg.user_seq + 1
    OBVIOUS
  <2>2. /\ DOMAIN mem' = DOMAIN mem /\ mem'.next_user = m
        /\ mem'.users = Put(mem.users, email, m) /\ mem'.emails = Put(mem.emails, m, email)
        /\ mem'.memberships = mem.memberships /\ mem'.invitations = mem.invitations
        /\ mem'.next_device = mem.next_device /\ mem'.devices = mem.devices
        /\ mem'.devices_by_key = mem.devices_by_key
        /\ mem'.device_fingerprints = mem.device_fingerprints
    BY <1>1, <1>5, <2>1 DEF MemUpsertUser, ShapeOK
  <2>3. ShapeOK' /\ InvitationsOK' /\ SameDevices /\ SameFingerprints
    BY <1>1, <1>2, <2>2 DEF ShapeOK, InvitationsOK, SameDevices, SameFingerprints
  <2>4. /\ m \in Nat /\ n \in Nat /\ 1..m = 1..mem.next_user \cup {m} /\ m \notin 1..mem.next_user
        /\ 1..n = 1..pg.user_seq \cup {n} /\ n \notin 1..pg.user_seq
        /\ \A u \in 1..mem.next_user : u < m /\ ~(m < u)
        /\ \A u \in 1..pg.user_seq : u < n /\ ~(n < u)
        /\ ~(m < m) /\ ~(n < n)
    BY <1>1, <2>1 DEF UsersOK
  <2>5. /\ DOMAIN mem'.users = DOMAIN mem.users \cup {email} /\ mem'.users[email] = m
        /\ \A e \in DOMAIN mem.users : mem'.users[e] = mem.users[e]
        /\ DOMAIN mem'.emails = 1..m /\ mem'.emails[m] = email
        /\ \A u \in 1..mem.next_user : mem'.emails[u] = mem.emails[u]
        /\ pg'.app_user = Put(pg.app_user, email, n)
        /\ DOMAIN pg'.app_user = DOMAIN mem'.users /\ pg'.app_user[email] = n
        /\ \A e \in DOMAIN mem.users : pg'.app_user[e] = pg.app_user[e]
    BY <1>1, <1>2, <1>3, <1>5, <2>1, <2>2, <2>4 DEF UsersOK, Put
  <2>6. UsersOK'
    <3>1. mem'.users \in [DOMAIN mem'.users -> 1..m] /\ pg'.app_user \in [DOMAIN mem'.users -> 1..n]
      <4>1. \A e \in DOMAIN mem'.users : mem'.users[e] \in 1..m /\ pg'.app_user[e] \in 1..n
        BY <1>1, <2>4, <2>5 DEF UsersOK
      <4>2. /\ mem'.users = [e \in DOMAIN mem'.users |-> mem'.users[e]]
            /\ pg'.app_user = [e \in DOMAIN mem'.users |-> pg'.app_user[e]]
        BY <2>2, <2>5 DEF Put
      <4> QED BY <4>1, <4>2
    <3>2. \A u \in 1..m : mem'.emails[u] \in DOMAIN mem'.users /\ mem'.users[mem'.emails[u]] = u
      BY SMTT(30), <1>1, <2>4, <2>5 DEF UsersOK
    <3>3. ASSUME NEW e \in DOMAIN mem'.users PROVE mem'.emails[mem'.users[e]] = e
      <4>1. CASE e = email
        BY ONLY <2>5, <4>1
      <4>2. CASE e \in DOMAIN mem.users
        <5>1. mem'.users[e] = mem.users[e]
          BY ONLY <2>5, <4>2
        <5>2. mem.users[e] \in 1..mem.next_user /\ mem.emails[mem.users[e]] = e
          BY ONLY <1>1, <4>2 DEF UsersOK
        <5>3. mem'.emails[mem.users[e]] = mem.emails[mem.users[e]]
          BY ONLY <2>5, <5>2
        <5> QED BY ONLY <5>1, <5>2, <5>3
      <4> QED BY ONLY <2>5, <3>3, <4>1, <4>2
    <3>4. \A e, f \in DOMAIN mem'.users : mem'.users[e] < mem'.users[f] <=> pg'.app_user[e] < pg'.app_user[f]
      BY <1>1, <2>4, <2>5 DEF UsersOK
    <3>5. mem'.next_user = m /\ pg'.user_seq = n /\ DOMAIN mem'.emails = 1..m
      BY <1>2, <2>1, <2>2, <2>5
    <3> QED BY <2>4, <3>1, <3>2, <3>3, <3>4, <3>5 DEF UsersOK
  <2>7. MembershipsOK'
    <3>1. \A ws : <<ws, m>> \notin DOMAIN mem.memberships /\ <<ws, n>> \notin DOMAIN pg.membership
      BY <1>1, <2>4 DEF MembershipsOK, UsersOK
    <3> QED BY <1>1, <1>2, <2>2, <2>5, <3>1 DEF MembershipsOK
  <2>8. DevicesOK'
    <3>1. ASSUME NEW row, NEW dev, SameDevice(row, dev) PROVE SameDevice(row, dev)'
      <4>1. row.enrolled_by \in 1..mem.next_user
        BY <3>1 DEF SameDevice
      <4>2. /\ mem'.emails[row.enrolled_by] = mem.emails[row.enrolled_by]
            /\ mem.emails[row.enrolled_by] \in DOMAIN mem.users
            /\ row.enrolled_by \in 1..mem'.next_user
        BY <1>1, <2>2, <2>4, <2>5, <4>1 DEF UsersOK
      <4>3. pg'.app_user[mem'.emails[row.enrolled_by]] = pg.app_user[mem.emails[row.enrolled_by]]
        BY <2>5, <4>2
      <4> QED BY <3>1, <4>2, <4>3 DEF SameDevice
    <3>2. Dev' = Dev
      BY <2>2 DEF Dev
    <3>3. \A d \in Dev : SameDevice(mem.devices[d], pg.device[d])'
      <4> TAKE d \in Dev
      <4>1. PICK row, dev : row = mem.devices[d] /\ dev = pg.device[d]
        OBVIOUS
      <4>2. SameDevice(row, dev)
        BY <1>1, <4>1 DEF DevicesOK
      <4>3. SameDevice(row, dev)'
        BY <3>1, <4>2
      <4> QED BY <1>2, <2>2, <4>1, <4>3 DEF SameDevice
    <3> QED BY <1>1, <1>2, <2>2, <3>2, <3>3 DEF DevicesOK
  <2>9. FingerprintsOK' /\ KeysGrow
    BY <1>1, <1>2, <2>3, KeysStay, FingerprintsStay
  <2> QED BY <2>3, <2>6, <2>7, <2>8, <2>9 DEF DirInv
<1> QED BY <1>4, <1>5

\* Users have a number of their own in each store.
LEMMA UsersDiffer ==
  ASSUME UsersOK, NEW e \in DOMAIN mem.users, NEW f \in DOMAIN mem.users
  PROVE  /\ mem.users[e] = mem.users[f] <=> e = f
         /\ pg.app_user[e] = pg.app_user[f] <=> e = f
<1>1. /\ mem.users[e] = mem.users[f] => e = f
      /\ mem.users[e] \in Nat /\ mem.users[f] \in Nat
      /\ pg.app_user[e] \in Nat /\ pg.app_user[f] \in Nat
  <2>1. mem.emails[mem.users[e]] = e /\ mem.emails[mem.users[f]] = f
    BY DEF UsersOK
  <2>2. /\ mem.users[e] \in 1..mem.next_user /\ mem.users[f] \in 1..mem.next_user
        /\ pg.app_user[e] \in 1..pg.user_seq /\ pg.app_user[f] \in 1..pg.user_seq
        /\ mem.next_user \in Nat /\ pg.user_seq \in Nat
    BY DEF UsersOK
  <2>3. mem.users[e] = mem.users[f] => e = f
    BY <2>1
  <2> QED BY <2>2, <2>3
<1>2. /\ mem.users[e] < mem.users[f] <=> pg.app_user[e] < pg.app_user[f]
      /\ mem.users[f] < mem.users[e] <=> pg.app_user[f] < pg.app_user[e]
  BY DEF UsersOK
<1> QED BY <1>1, <1>2

LEMMA MembershipStep ==
  ASSUME DirInv, NEW ws \in Workspace, NEW email \in DOMAIN mem.users,
         NEW role \in Role, NEW status \in MembershipStatus,
         mem' = MemPutMembership(mem, ws, mem.users[email], role, status),
         pg' = PgPutMembership(pg, ws, pg.app_user[email], role, status)
  PROVE  DirInv' /\ KeysGrow
<1>1. ShapeOK /\ UsersOK /\ MembershipsOK /\ InvitationsOK /\ DevicesOK /\ FingerprintsOK
  BY DEF DirInv
<1>2. PICK u, v, m, p : /\ u = mem.users[email] /\ v = pg.app_user[email]
                        /\ m = [role |-> role, status |-> status]
                        /\ p = [role |-> RoleTo(role), status |-> StatusTo(status)]
  OBVIOUS
<1>3. /\ DOMAIN mem' = DOMAIN mem /\ SameUsers /\ SameInvitations /\ SameDevices /\ SameFingerprints
      /\ mem'.memberships = Put(mem.memberships, <<ws, u>>, m)
      /\ DOMAIN pg' = DOMAIN pg /\ pg'.user_seq = pg.user_seq
      /\ pg'.membership = Put(pg.membership, <<ws, v>>, p)
  BY <1>1, <1>2 DEF MemPutMembership, PgPutMembership, ShapeOK, SameUsers, SameInvitations,
                    SameDevices, SameFingerprints
<1>4. /\ DOMAIN mem'.memberships = DOMAIN mem.memberships \cup {<<ws, u>>}
      /\ mem'.memberships[<<ws, u>>] = m
      /\ \A k \in DOMAIN mem.memberships \ {<<ws, u>>} : mem'.memberships[k] = mem.memberships[k]
      /\ DOMAIN pg'.membership = DOMAIN pg.membership \cup {<<ws, v>>}
      /\ pg'.membership[<<ws, v>>] = p
      /\ \A k \in DOMAIN pg.membership \ {<<ws, v>>} : pg'.membership[k] = pg.membership[k]
  BY <1>3 DEF Put
<1>5. m \in [role : Role, status : MembershipStatus] /\ m.role = role /\ m.status = status
  BY <1>2
<1>6. mem'.users = mem.users /\ pg'.app_user = pg.app_user
  BY <1>3 DEF SameUsers
<1>7. ASSUME NEW w \in Workspace, NEW e \in DOMAIN mem.users
      PROVE  /\ <<w, mem.users[e]>> \in DOMAIN mem'.memberships
                  <=> <<w, pg.app_user[e]>> \in DOMAIN pg'.membership
             /\ <<w, mem.users[e]>> \in DOMAIN mem'.memberships =>
                  LET x == mem'.memberships[<<w, mem.users[e]>>] IN
                    /\ x \in [role : Role, status : MembershipStatus]
                    /\ pg'.membership[<<w, pg.app_user[e]>>]
                         = [role |-> RoleTo(x.role), status |-> StatusTo(x.status)]
  <2>1. PICK a, b : a = <<w, mem.users[e]>> /\ b = <<w, pg.app_user[e]>>
    OBVIOUS
  <2>2. (a = <<ws, u>> <=> w = ws /\ e = email) /\ (b = <<ws, v>> <=> w = ws /\ e = email)
    BY <1>1, <1>2, <2>1, UsersDiffer
  <2>3. CASE w = ws /\ e = email
    BY <1>2, <1>4, <1>5, <2>1, <2>2, <2>3
  <2>4. CASE ~(w = ws /\ e = email)
    <3>1. /\ a \in DOMAIN mem'.memberships <=> a \in DOMAIN mem.memberships
          /\ a \in DOMAIN mem.memberships => mem'.memberships[a] = mem.memberships[a]
          /\ b \in DOMAIN pg'.membership <=> b \in DOMAIN pg.membership
          /\ b \in DOMAIN pg.membership => pg'.membership[b] = pg.membership[b]
      BY <1>4, <2>2, <2>4
    <3>2. /\ a \in DOMAIN mem.memberships <=> b \in DOMAIN pg.membership
          /\ a \in DOMAIN mem.memberships =>
               LET x == mem.memberships[a] IN
                 /\ x \in [role : Role, status : MembershipStatus]
                 /\ pg.membership[b] = [role |-> RoleTo(x.role), status |-> StatusTo(x.status)]
      BY <1>1, <2>1 DEF MembershipsOK
    <3> QED BY <2>1, <3>1, <3>2
  <2> QED BY <2>3, <2>4
<1>8. /\ \A k \in DOMAIN mem'.memberships :
           \E w \in Workspace, e \in DOMAIN mem.users : k = <<w, mem.users[e]>>
      /\ \A k \in DOMAIN pg'.membership :
           \E w \in Workspace, e \in DOMAIN mem.users : k = <<w, pg.app_user[e]>>
  BY <1>1, <1>2, <1>4 DEF MembershipsOK
<1>9. MembershipsOK'
  <2>1. \A k \in DOMAIN mem'.memberships :
          \E w \in Workspace, e \in DOMAIN mem'.users : k = <<w, mem'.users[e]>>
    BY ONLY <1>6, <1>8
  <2>2. \A k \in DOMAIN pg'.membership :
          \E w \in Workspace, e \in DOMAIN mem'.users : k = <<w, pg'.app_user[e]>>
    BY ONLY <1>6, <1>8
  <2>3. ASSUME NEW w \in Workspace, NEW e \in DOMAIN mem'.users
        PROVE  /\ <<w, mem'.users[e]>> \in DOMAIN mem'.memberships
                    <=> <<w, pg'.app_user[e]>> \in DOMAIN pg'.membership
               /\ <<w, mem'.users[e]>> \in DOMAIN mem'.memberships =>
                    LET x == mem'.memberships[<<w, mem'.users[e]>>] IN
                      /\ x \in [role : Role, status : MembershipStatus]
                      /\ pg'.membership[<<w, pg'.app_user[e]>>]
                           = [role |-> RoleTo(x.role), status |-> StatusTo(x.status)]
    <3>1. mem'.users = mem.users /\ pg'.app_user = pg.app_user /\ e \in DOMAIN mem.users
      BY ONLY <1>6, <2>3
    <3> QED BY ONLY <1>7, <2>3, <3>1
  <2> QED BY ONLY <2>1, <2>2, <2>3 DEF MembershipsOK
<1>10. ShapeOK' /\ \A d \in Dev : pg'.device[d].cert_fingerprint = pg.device[d].cert_fingerprint
  BY <1>1, <1>3 DEF ShapeOK, SameDevices
<1> QED BY <1>1, <1>3, <1>9, <1>10, UsersStay, InvitationsStay, DevicesStay, FingerprintsStay, KeysStay
        DEF DirInv

\* A call about an invitation.
LEMMA InvitationStep ==
  ASSUME DirInv, DOMAIN mem' = DOMAIN mem, DOMAIN pg' = DOMAIN pg, SameUsers, SameMemberships,
         SameDevices, SameFingerprints, pg'.user_seq = pg.user_seq, InvitationsOK'
  PROVE  DirInv' /\ KeysGrow
<1>1. ShapeOK' /\ \A d \in Dev : pg'.device[d].cert_fingerprint = pg.device[d].cert_fingerprint
  BY DEF DirInv, ShapeOK, SameDevices
<1> QED BY <1>1, UsersStay, MembershipsStay, DevicesStay, FingerprintsStay, KeysStay DEF DirInv

LEMMA InviteStep ==
  ASSUME DirInv, NEW ws, NEW email, NEW role \in Role,
         mem' = MemPutInvitation(mem, ws, email, role, FALSE),
         pg' = PgUpsertInvitation(pg, ws, email, role, FALSE)
  PROVE  DirInv' /\ KeysGrow
<1>1. PICK k0, i, p : /\ k0 = <<ws, email>> /\ i = [role |-> role, accepted |-> FALSE]
                      /\ p = [role |-> RoleTo(role), accepted |-> FALSE]
  OBVIOUS
<1>2. /\ DOMAIN mem' = DOMAIN mem /\ SameUsers /\ SameMemberships /\ SameDevices /\ SameFingerprints
      /\ mem'.invitations = Put(mem.invitations, k0, i)
      /\ DOMAIN pg' = DOMAIN pg /\ pg'.user_seq = pg.user_seq
      /\ pg'.invitation = Put(pg.invitation, k0, p)
  BY <1>1 DEF MemPutInvitation, PgUpsertInvitation, DirInv, ShapeOK, SameUsers, SameMemberships,
              SameDevices, SameFingerprints
<1>3. /\ DOMAIN mem'.invitations = DOMAIN mem.invitations \cup {k0} /\ mem'.invitations[k0] = i
      /\ \A k \in DOMAIN mem.invitations \ {k0} : mem'.invitations[k] = mem.invitations[k]
      /\ DOMAIN pg'.invitation = DOMAIN pg.invitation \cup {k0} /\ pg'.invitation[k0] = p
      /\ \A k \in DOMAIN pg.invitation \ {k0} : pg'.invitation[k] = pg.invitation[k]
  BY <1>2 DEF Put
<1>4. i \in [role : Role, accepted : BOOLEAN] /\ p = [role |-> RoleTo(i.role), accepted |-> i.accepted]
  BY <1>1
<1>5. InvitationsOK
  BY DEF DirInv
<1>6. InvitationsOK'
  BY <1>3, <1>4, <1>5 DEF InvitationsOK
<1> QED BY <1>2, <1>6, InvitationStep

LEMMA AcceptedStep ==
  ASSUME DirInv, NEW ws, NEW email,
         mem' = MemMarkAccepted(mem, ws, email), pg' = PgMarkAccepted(pg, ws, email)
  PROVE  DirInv' /\ KeysGrow
<1>1. PICK k0 : k0 = <<ws, email>>
  OBVIOUS
<1>2. /\ DOMAIN mem' = DOMAIN mem /\ SameUsers /\ SameMemberships /\ SameDevices /\ SameFingerprints
      /\ DOMAIN pg' = DOMAIN pg /\ pg'.user_seq = pg.user_seq
  BY DEF MemMarkAccepted, PgMarkAccepted, DirInv, ShapeOK, SameUsers, SameMemberships,
         SameDevices, SameFingerprints
<1>3. InvitationsOK /\ ShapeOK
  BY DEF DirInv
<1>4. /\ DOMAIN mem'.invitations = DOMAIN mem.invitations
      /\ \A k \in DOMAIN mem.invitations :
           mem'.invitations[k] = IF k = k0 THEN [mem.invitations[k] EXCEPT !.accepted = TRUE]
                                 ELSE mem.invitations[k]
  <2>1. CASE k0 \in DOMAIN mem.invitations
    <3>1. mem' = [mem EXCEPT !.invitations[k0].accepted = TRUE]
      BY <1>1, <2>1 DEF MemMarkAccepted
    <3>2. mem'.invitations = [mem.invitations EXCEPT ![k0].accepted = TRUE]
      BY <1>3, <3>1 DEF ShapeOK
    <3> QED BY <2>1, <3>2
  <2>2. CASE k0 \notin DOMAIN mem.invitations
    <3>1. mem' = mem
      BY <1>1, <2>2 DEF MemMarkAccepted
    <3> QED BY <2>2, <3>1
  <2> QED BY <2>1, <2>2
<1>5. /\ DOMAIN pg'.invitation = DOMAIN pg.invitation
      /\ \A k \in DOMAIN pg.invitation :
           pg'.invitation[k] = IF k = k0 THEN [pg.invitation[k] EXCEPT !.accepted = TRUE]
                               ELSE pg.invitation[k]
  BY <1>1, <1>3 DEF PgMarkAccepted, ShapeOK
<1>6. ASSUME NEW k \in DOMAIN mem.invitations
      PROVE  LET i == mem'.invitations[k] IN
               /\ i \in [role : Role, accepted : BOOLEAN]
               /\ pg'.invitation[k] = [role |-> RoleTo(i.role), accepted |-> i.accepted]
  <2>1. PICK i, p : i = mem.invitations[k] /\ p = pg.invitation[k]
    OBVIOUS
  <2>2. /\ i \in [role : Role, accepted : BOOLEAN]
        /\ p = [role |-> RoleTo(i.role), accepted |-> i.accepted]
        /\ k \in DOMAIN pg.invitation
    BY <1>3, <2>1 DEF InvitationsOK
  <2>3. CASE k = k0
    <3>1. /\ mem'.invitations[k] = [i EXCEPT !.accepted = TRUE]
          /\ pg'.invitation[k] = [p EXCEPT !.accepted = TRUE]
      BY <1>4, <1>5, <2>1, <2>2, <2>3
    <3>2. PICK x : x = [i EXCEPT !.accepted = TRUE]
      OBVIOUS
    <3>3. x = [role |-> i.role, accepted |-> TRUE] /\ i.role \in Role
      BY <2>2, <3>2
    <3>4. [p EXCEPT !.accepted = TRUE] = [role |-> RoleTo(i.role), accepted |-> TRUE]
      <4>1. PICK t, y : t = RoleTo(i.role) /\ y = [p EXCEPT !.accepted = TRUE]
        OBVIOUS
      <4>2. p \in [role : {t}, accepted : BOOLEAN] /\ p.role = t
        BY <2>2, <4>1
      <4>3. y = [role |-> t, accepted |-> TRUE]
        BY <4>1, <4>2
      <4> QED BY <4>1, <4>3
    <3>5. x \in [role : Role, accepted : BOOLEAN] /\ x.role = i.role /\ x.accepted = TRUE
      BY <3>3
    <3> QED BY <3>1, <3>2, <3>4, <3>5
  <2>4. CASE k # k0
    BY <1>4, <1>5, <2>1, <2>2, <2>4
  <2> QED BY <2>3, <2>4
<1>7. InvitationsOK'
  BY <1>3, <1>4, <1>5, <1>6 DEF InvitationsOK
<1> QED BY <1>2, <1>7, InvitationStep

-----------------------------------------------------------------------------
(* The rows of the devices. *)

LEMMA StatusRow ==
  ASSUME NEW row, NEW dev, SameDevice(row, dev), NEW s \in DeviceStatus, NEW row2, NEW dev2,
         row2 = [row EXCEPT !.status = s], dev2 = [dev EXCEPT !.status = DeviceStatusTo(s)]
  PROVE  /\ SameDevice(row2, dev2) /\ dev2.cert_fingerprint = dev.cert_fingerprint
         /\ row2.workspace = row.workspace /\ row2.pubkey = row.pubkey
<1>1. PICK ws, u, key, st, v, ps, fp, pt :
        /\ row = [workspace |-> ws, enrolled_by |-> u, pubkey |-> key, status |-> st]
        /\ dev = [workspace_id |-> ws, enrolled_by |-> v, device_pubkey |-> key, status |-> ps,
                  cert_fingerprint |-> fp]
        /\ pt = DeviceStatusTo(s) /\ v = pg.app_user[mem.emails[u]] /\ u \in 1..mem.next_user
        /\ row \in DeviceRow
  <2>1. PICK ws, u, key, st, fp : /\ ws = row.workspace /\ u = row.enrolled_by /\ key = row.pubkey
                                  /\ st = row.status /\ fp = dev.cert_fingerprint
    OBVIOUS
  <2> QED BY <2>1 DEF SameDevice
<1>2. row2 = [workspace |-> ws, enrolled_by |-> u, pubkey |-> key, status |-> s]
  BY <1>1
<1>3. dev2 = [workspace_id |-> ws, enrolled_by |-> v, device_pubkey |-> key, status |-> pt,
              cert_fingerprint |-> fp]
  <2>1. dev2 = [dev EXCEPT !.status = pt]
    BY <1>1
  <2>2. dev = [workspace_id |-> ws, enrolled_by |-> v, device_pubkey |-> key, status |-> ps,
               cert_fingerprint |-> fp]
    BY <1>1
  <2> QED BY <2>1, <2>2
<1>4. row2 \in DeviceRow
  BY <1>1, <1>2 DEF DeviceRow
<1>5. /\ row2.workspace = ws /\ row2.enrolled_by = u /\ row2.pubkey = key /\ row2.status = s
      /\ row.workspace = ws /\ row.pubkey = key
      /\ dev2.cert_fingerprint = fp /\ dev.cert_fingerprint = fp
  BY <1>1, <1>2, <1>3
<1> QED BY <1>1, <1>2, <1>3, <1>4, <1>5 DEF SameDevice

\* The rows of the devices that are there change, but neither their keys nor their
\* workspaces.
RowsChange ==
  /\ DOMAIN mem' = DOMAIN mem /\ SameUsers /\ SameMemberships /\ SameInvitations
  /\ DOMAIN pg' = DOMAIN pg /\ pg'.user_seq = pg.user_seq
  /\ mem'.next_device = mem.next_device /\ mem'.devices_by_key = mem.devices_by_key
  /\ DOMAIN mem'.devices = Dev /\ DOMAIN pg'.device = Dev
  /\ \A d \in Dev : /\ SameDevice(mem'.devices[d], pg'.device[d])
                    /\ mem'.devices[d].workspace = mem.devices[d].workspace
                    /\ mem'.devices[d].pubkey = mem.devices[d].pubkey

LEMMA RowsStep ==
  ASSUME DirInv, RowsChange
  PROVE  /\ ShapeOK' /\ UsersOK' /\ MembershipsOK' /\ InvitationsOK' /\ DevicesOK' /\ KeysGrow
         /\ Dev' = Dev
<1>1. ShapeOK' /\ UsersOK' /\ MembershipsOK' /\ InvitationsOK'
  BY UsersStay, MembershipsStay, InvitationsStay DEF DirInv, ShapeOK, RowsChange
<1>2. Dev' = Dev /\ KeysGrow
  BY DEF RowsChange, Dev, KeysGrow, keyOf
<1>3. \A d \in Dev : SameDevice(mem.devices[d], pg.device[d])'
  <2> TAKE d \in Dev
  <2>1. PICK row, dev : row = mem'.devices[d] /\ dev = pg'.device[d]
    OBVIOUS
  <2>2. SameDevice(row, dev)
    BY <2>1 DEF RowsChange
  <2>3. SameDevice(row, dev)'
    BY <2>2 DEF SameDevice, RowsChange, SameUsers
  <2> QED BY <2>1, <2>3 DEF SameDevice
<1>4. DevicesOK'
  BY <1>2, <1>3 DEF DirInv, DevicesOK, RowsChange
<1> QED BY <1>1, <1>2, <1>4

\* The status of the devices in T is set.
StatusIs(T, s, t) ==
  /\ DOMAIN mem' = DOMAIN mem /\ SameUsers /\ SameMemberships /\ SameInvitations /\ SameFingerprints
  /\ DOMAIN pg' = DOMAIN pg /\ pg'.user_seq = pg.user_seq
  /\ mem'.next_device = mem.next_device /\ mem'.devices_by_key = mem.devices_by_key
  /\ DOMAIN mem'.devices = Dev /\ DOMAIN pg'.device = Dev
  /\ \A d \in Dev : mem'.devices[d] = IF d \in T THEN [mem.devices[d] EXCEPT !.status = s]
                                      ELSE mem.devices[d]
  /\ \A d \in Dev : pg'.device[d] = IF d \in T THEN [pg.device[d] EXCEPT !.status = t]
                                    ELSE pg.device[d]

LEMMA StatusSet ==
  ASSUME DirInv, NEW T, NEW s \in DeviceStatus, StatusIs(T, s, DeviceStatusTo(s))
  PROVE  DirInv' /\ KeysGrow
<1>1. ASSUME NEW d \in Dev
      PROVE  /\ SameDevice(mem'.devices[d], pg'.device[d])
             /\ mem'.devices[d].workspace = mem.devices[d].workspace
             /\ mem'.devices[d].pubkey = mem.devices[d].pubkey
             /\ pg'.device[d].cert_fingerprint = pg.device[d].cert_fingerprint
  <2> PICK row, dev, row2, dev2 : /\ row = mem.devices[d] /\ dev = pg.device[d]
                                  /\ row2 = mem'.devices[d] /\ dev2 = pg'.device[d]
    OBVIOUS
  <2>1. SameDevice(row, dev)
    BY DEF DirInv, DevicesOK
  <2>2. CASE d \in T
    <3>1. row2 = [row EXCEPT !.status = s] /\ dev2 = [dev EXCEPT !.status = DeviceStatusTo(s)]
      BY <2>2 DEF StatusIs
    <3> QED BY <2>1, <3>1, StatusRow
  <2>3. CASE d \notin T
    BY <2>1, <2>3 DEF StatusIs
  <2> QED BY <2>2, <2>3
<1>2. RowsChange
  BY <1>1 DEF RowsChange, StatusIs
<1>3. FingerprintsOK'
  BY <1>1, <1>2, RowsStep, FingerprintsStay DEF DirInv, StatusIs
<1> QED BY <1>2, <1>3, RowsStep DEF DirInv

LEMMA StatusStep ==
  ASSUME DirInv, NEW ws, NEW id, NEW status \in DeviceStatus,
         mem' = MemSetDeviceStatus(mem, ws, id, status), pg' = PgSetDeviceStatus(pg, ws, id, status)
  PROVE  DirInv' /\ KeysGrow
<1>1. PICK T, t : /\ T = {d \in Dev : d = id /\ mem.devices[d].workspace = ws}
                  /\ t = DeviceStatusTo(status)
  OBVIOUS
<1>2. ShapeOK /\ DOMAIN mem.devices = Dev /\ DOMAIN pg.device = Dev
  BY DEF DirInv, DevicesOK
<1>3. \A d \in Dev : pg.device[d].workspace_id = mem.devices[d].workspace
  <2> TAKE d \in Dev
  <2> PICK row, dev : row = mem.devices[d] /\ dev = pg.device[d]
    OBVIOUS
  <2>1. SameDevice(row, dev)
    BY DEF DirInv, DevicesOK
  <2> QED BY <2>1 DEF SameDevice
<1>4. /\ DOMAIN mem' = DOMAIN mem /\ SameUsers /\ SameMemberships /\ SameInvitations /\ SameFingerprints
      /\ DOMAIN pg' = DOMAIN pg /\ pg'.user_seq = pg.user_seq
      /\ mem'.next_device = mem.next_device /\ mem'.devices_by_key = mem.devices_by_key
  BY <1>2 DEF MemSetDeviceStatus, PgSetDeviceStatus, ShapeOK, SameUsers, SameMemberships,
              SameInvitations, SameFingerprints
<1>5. /\ DOMAIN pg'.device = Dev
      /\ \A d \in Dev : pg'.device[d] = IF d \in T THEN [pg.device[d] EXCEPT !.status = t]
                                        ELSE pg.device[d]
  BY <1>1, <1>2, <1>3 DEF PgSetDeviceStatus, ShapeOK
<1>6. /\ DOMAIN mem'.devices = Dev
      /\ \A d \in Dev : mem'.devices[d] = IF d \in T THEN [mem.devices[d] EXCEPT !.status = status]
                                          ELSE mem.devices[d]
  <2>1. CASE id \in DOMAIN mem.devices /\ mem.devices[id].workspace = ws
    <3>1. mem' = [mem EXCEPT !.devices[id].status = status]
      BY <2>1 DEF MemSetDeviceStatus
    <3>2. mem'.devices = [mem.devices EXCEPT ![id].status = status]
      BY <1>2, <3>1 DEF ShapeOK
    <3> QED BY <1>1, <1>2, <2>1, <3>2
  <2>2. CASE ~(id \in DOMAIN mem.devices /\ mem.devices[id].workspace = ws)
    BY <1>1, <1>2, <2>2 DEF MemSetDeviceStatus
  <2> QED BY <2>1, <2>2
<1>7. StatusIs(T, status, t)
  BY <1>4, <1>5, <1>6 DEF StatusIs
<1> QED BY <1>1, <1>7, StatusSet

LEMMA NumberOfDevices ==
  ASSUME DevicesOK
  PROVE  Cardinality(DOMAIN pg.device) = mem.next_device
<1>1. mem.next_device \in Nat /\ DOMAIN pg.device = 1..mem.next_device
  BY DEF DevicesOK, Dev
<1>2. \A n \in Nat : Cardinality(1..n) = n
  <2> TAKE n \in Nat
  <2>1. 1 \in Int /\ n \in Int
    OBVIOUS
  <2>2. Cardinality(1..n) = IF 1 > n THEN 0 ELSE n - 1 + 1
    BY <2>1, FS_Interval
  <2> QED BY <2>2
<1> QED BY <1>1, <1>2

\* Both stores look the device up by its workspace and its key.
LEMMA RowsOfAKey ==
  ASSUME DirInv, NEW ws, NEW key
  PROVE  /\ \A d \in Dev : mem.devices[d].workspace = ws /\ mem.devices[d].pubkey = key
                             <=> d \in PgRow(pg, ws, key)
         /\ <<ws, key>> \in DOMAIN mem.devices_by_key =>
              /\ mem.devices_by_key[<<ws, key>>] \in Dev
              /\ PgRow(pg, ws, key) = {mem.devices_by_key[<<ws, key>>]}
         /\ <<ws, key>> \notin DOMAIN mem.devices_by_key => PgRow(pg, ws, key) = {}
<1>1. DOMAIN pg.device = Dev
  BY DEF DirInv, DevicesOK
<1>2. ASSUME NEW d \in Dev
      PROVE  /\ pg.device[d].workspace_id = mem.devices[d].workspace
             /\ pg.device[d].device_pubkey = mem.devices[d].pubkey
  <2> PICK row, dev : row = mem.devices[d] /\ dev = pg.device[d]
    OBVIOUS
  <2>1. SameDevice(row, dev)
    BY DEF DirInv, DevicesOK
  <2> QED BY <2>1 DEF SameDevice
<1>3. \A d \in Dev : mem.devices[d].workspace = ws /\ mem.devices[d].pubkey = key
                       <=> d \in PgRow(pg, ws, key)
  BY <1>1, <1>2 DEF PgRow
<1>4. PgRow(pg, ws, key) \subseteq Dev
  BY <1>1 DEF PgRow
<1>5. \A d \in PgRow(pg, ws, key) : <<ws, key>> \in DOMAIN mem.devices_by_key
                                    /\ mem.devices_by_key[<<ws, key>>] = d
  BY <1>3, <1>4 DEF DirInv, DevicesOK
<1>6. ASSUME <<ws, key>> \in DOMAIN mem.devices_by_key
      PROVE  mem.devices_by_key[<<ws, key>>] \in PgRow(pg, ws, key)
  <2>1. PICK d : d = mem.devices_by_key[<<ws, key>>]
    OBVIOUS
  <2>2. d \in Dev /\ <<ws, key>> = <<mem.devices[d].workspace, mem.devices[d].pubkey>>
    BY <1>6, <2>1 DEF DirInv, DevicesOK
  <2> QED BY <1>3, <2>1, <2>2
<1> QED BY <1>3, <1>4, <1>5, <1>6

\* The number of the device that a call of record_device is about, and its key.
Registers(ws, key) ==
  /\ mem'.devices_by_key[<<ws, key>>] \in Dev' /\ mem'.devices_by_key[<<ws, key>>] \in Nat
  /\ keyOf'[mem'.devices_by_key[<<ws, key>>]] = key

\* The device enrolled before.
LEMMA KnownDeviceStep ==
  ASSUME DirInv, NEW ws, NEW email, NEW key, <<ws, key>> \in DOMAIN mem.devices_by_key,
         mem' = MemRecordDevice(mem, ws, mem.users[email], key),
         pg' = PgRecordDevice(pg, ws, pg.app_user[email], key)
  PROVE  DirInv' /\ KeysGrow /\ Registers(ws, key)
<1>1. PICK d0, T : d0 = mem.devices_by_key[<<ws, key>>] /\ T = {d0}
  OBVIOUS
<1>2. /\ ShapeOK /\ DOMAIN mem.devices = Dev /\ DOMAIN pg.device = Dev
      /\ d0 \in Dev /\ PgRow(pg, ws, key) = T
      /\ mem.next_device \in Nat
  BY <1>1, RowsOfAKey DEF DirInv, DevicesOK
<1>3. /\ mem' = [mem EXCEPT !.devices[d0].status = "Active"]
      /\ pg' = [pg EXCEPT !.device = [d \in DOMAIN pg.device |->
           IF d \in T THEN [pg.device[d] EXCEPT !.status = "active"] ELSE pg.device[d]]]
  BY <1>1, <1>2 DEF MemRecordDevice, PgRecordDevice
<1>4. /\ DOMAIN mem' = DOMAIN mem /\ SameUsers /\ SameMemberships /\ SameInvitations /\ SameFingerprints
      /\ DOMAIN pg' = DOMAIN pg /\ pg'.user_seq = pg.user_seq
      /\ mem'.next_device = mem.next_device /\ mem'.devices_by_key = mem.devices_by_key
  BY <1>2, <1>3 DEF ShapeOK, SameUsers, SameMemberships, SameInvitations, SameFingerprints
<1>5. /\ DOMAIN mem'.devices = Dev
      /\ \A d \in Dev : mem'.devices[d] = IF d \in T THEN [mem.devices[d] EXCEPT !.status = "Active"]
                                          ELSE mem.devices[d]
  <2>1. mem'.devices = [mem.devices EXCEPT ![d0].status = "Active"]
    BY <1>2, <1>3 DEF ShapeOK
  <2> QED BY <1>1, <1>2, <2>1
<1>6. /\ DOMAIN pg'.device = Dev
      /\ \A d \in Dev : pg'.device[d] = IF d \in T THEN [pg.device[d] EXCEPT !.status = "active"]
                                        ELSE pg.device[d]
  BY <1>2, <1>3 DEF ShapeOK
<1>7. StatusIs(T, "Active", "active")
  BY <1>4, <1>5, <1>6 DEF StatusIs
<1>8. DirInv' /\ KeysGrow
  <2>1. "Active" \in DeviceStatus /\ DeviceStatusTo("Active") = "active"
    BY DEF DeviceStatus, DeviceStatusTo
  <2> QED BY <1>7, <2>1, StatusSet
<1>9. Registers(ws, key)
  <2>1. mem'.devices_by_key[<<ws, key>>] = d0 /\ d0 \in Nat /\ d0 \in Dev'
    BY <1>1, <1>2, <1>4, <1>8 DEF KeysGrow, Dev
  <2>2. keyOf'[d0] = mem.devices[d0].pubkey
    BY <1>2, <1>8 DEF KeysGrow, keyOf
  <2>3. mem.devices[d0].pubkey = key
    BY <1>1, <1>2, RowsOfAKey
  <2> QED BY <2>1, <2>2, <2>3 DEF Registers
<1> QED BY <1>8, <1>9

\* A new device.
LEMMA NewDeviceStep ==
  ASSUME DirInv, NEW ws \in Workspace, NEW email \in DOMAIN mem.users, NEW key \in Key,
         <<ws, key>> \notin DOMAIN mem.devices_by_key,
         mem' = MemRecordDevice(mem, ws, mem.users[email], key),
         pg' = PgRecordDevice(pg, ws, pg.app_user[email], key)
  PROVE  DirInv' /\ KeysGrow /\ Registers(ws, key)
<1>1. ShapeOK /\ UsersOK /\ MembershipsOK /\ InvitationsOK /\ DevicesOK /\ FingerprintsOK
  BY DEF DirInv
<1>2. PICK id, k0, row, dev, u, v :
        /\ id = mem.next_device + 1 /\ k0 = <<ws, key>>
        /\ u = mem.users[email] /\ v = pg.app_user[email]
        /\ row = [workspace |-> ws, enrolled_by |-> u, pubkey |-> key, status |-> "Active"]
        /\ dev = [workspace_id |-> ws, enrolled_by |-> v, device_pubkey |-> key,
                  status |-> "active", cert_fingerprint |-> NoCert]
  OBVIOUS
<1>3. PgRow(pg, ws, key) = {} /\ Cardinality(DOMAIN pg.device) + 1 = id
  BY <1>1, <1>2, RowsOfAKey, NumberOfDevices
<1>4. /\ mem' = [mem EXCEPT !.next_device = id, !.devices_by_key = Put(mem.devices_by_key, k0, id),
                            !.devices = Put(mem.devices, id, row)]
      /\ pg' = [pg EXCEPT !.device = Put(pg.device, id, dev)]
  BY <1>2, <1>3 DEF MemRecordDevice, PgRecordDevice
<1>5. /\ DOMAIN mem' = DOMAIN mem /\ SameUsers /\ SameMemberships /\ SameInvitations /\ SameFingerprints
      /\ DOMAIN pg' = DOMAIN pg /\ pg'.user_seq = pg.user_seq
      /\ mem'.next_device = id /\ mem'.devices_by_key = Put(mem.devices_by_key, k0, id)
      /\ mem'.devices = Put(mem.devices, id, row) /\ pg'.device = Put(pg.device, id, dev)
  BY <1>1, <1>4 DEF ShapeOK, SameUsers, SameMemberships, SameInvitations, SameFingerprints
<1>6. /\ mem.next_device \in Nat /\ id \in Nat /\ Dev' = Dev \cup {id} /\ id \notin Dev
      /\ DOMAIN mem.devices = Dev /\ DOMAIN pg.device = Dev
  BY <1>1, <1>2, <1>5 DEF DevicesOK, Dev
<1>7. /\ DOMAIN mem'.devices = Dev' /\ mem'.devices[id] = row
      /\ \A d \in Dev : mem'.devices[d] = mem.devices[d]
      /\ DOMAIN pg'.device = Dev' /\ pg'.device[id] = dev
      /\ \A d \in Dev : pg'.device[d] = pg.device[d]
      /\ DOMAIN mem'.devices_by_key = DOMAIN mem.devices_by_key \cup {k0}
      /\ mem'.devices_by_key[k0] = id
      /\ \A k \in DOMAIN mem.devices_by_key : mem'.devices_by_key[k] = mem.devices_by_key[k]
  BY <1>2, <1>5, <1>6 DEF Put
<1>8. SameDevice(row, dev)'
  <2>1. u \in 1..mem.next_user /\ mem.emails[u] = email /\ mem.next_user \in Nat
    BY <1>1, <1>2 DEF UsersOK
  <2>2. /\ row.workspace = ws /\ row.enrolled_by = u /\ row.pubkey = key /\ row.status = "Active"
        /\ dev.cert_fingerprint = NoCert
    BY <1>2
  <2>3. row \in DeviceRow /\ DeviceStatusTo("Active") = "active"
    BY <1>2, <2>1 DEF DeviceRow, DeviceStatus, DeviceStatusTo
  <2>4. u \in 1..mem'.next_user /\ pg'.app_user[mem'.emails[u]] = v
    BY <1>2, <1>5, <2>1 DEF SameUsers
  <2> QED BY <1>2, <2>2, <2>3, <2>4 DEF SameDevice
<1>9. ASSUME NEW d \in Dev' PROVE SameDevice(mem.devices[d], pg.device[d])'
  <2>1. CASE d = id
    BY <1>7, <1>8, <2>1 DEF SameDevice
  <2>2. CASE d # id
    <3> PICK r, e : r = mem.devices[d] /\ e = pg.device[d]
      OBVIOUS
    <3>1. d \in Dev /\ SameDevice(r, e)
      BY <1>1, <1>6, <2>2 DEF DevicesOK
    <3>2. SameDevice(r, e)'
      BY <1>5, <3>1 DEF SameDevice, SameUsers
    <3> QED BY <1>7, <3>1, <3>2 DEF SameDevice
  <2> QED BY <2>1, <2>2
<1>10. DevicesOK'
  <2>1. row.workspace = ws /\ row.pubkey = key
    BY <1>2
  <2>2. \A d \in Dev' :
          /\ <<mem'.devices[d].workspace, mem'.devices[d].pubkey>> \in DOMAIN mem'.devices_by_key
          /\ mem'.devices_by_key[<<mem'.devices[d].workspace, mem'.devices[d].pubkey>>] = d
    <3> SUFFICES ASSUME NEW d \in Dev'
                 PROVE  LET k == <<mem'.devices[d].workspace, mem'.devices[d].pubkey>> IN
                          k \in DOMAIN mem'.devices_by_key /\ mem'.devices_by_key[k] = d
      OBVIOUS
    <3>1. CASE d = id
      <4>1. <<mem'.devices[d].workspace, mem'.devices[d].pubkey>> = k0
        BY ONLY <1>2, <1>7, <2>1, <3>1
      <4> QED BY ONLY <1>7, <3>1, <4>1
    <3>2. CASE d # id
      <4>1. PICK k : k = <<mem.devices[d].workspace, mem.devices[d].pubkey>>
        OBVIOUS
      <4>2. d \in Dev /\ mem'.devices[d] = mem.devices[d]
        BY ONLY <1>6, <1>7, <3>2
      <4>3. k \in DOMAIN mem.devices_by_key /\ mem.devices_by_key[k] = d
        BY ONLY <1>1, <4>1, <4>2 DEF DevicesOK
      <4>4. k \in DOMAIN mem'.devices_by_key /\ mem'.devices_by_key[k] = d
        BY ONLY <1>7, <4>3
      <4> QED BY ONLY <4>1, <4>2, <4>4
    <3> QED BY ONLY <3>1, <3>2
  <2>3. \A k \in DOMAIN mem'.devices_by_key :
          /\ mem'.devices_by_key[k] \in Dev'
          /\ k = <<mem'.devices[mem'.devices_by_key[k]].workspace,
                   mem'.devices[mem'.devices_by_key[k]].pubkey>>
    <3> SUFFICES ASSUME NEW k \in DOMAIN mem'.devices_by_key
                 PROVE  LET d == mem'.devices_by_key[k] IN
                          d \in Dev' /\ k = <<mem'.devices[d].workspace, mem'.devices[d].pubkey>>
      OBVIOUS
    <3>1. CASE k = k0
      BY ONLY <1>2, <1>6, <1>7, <2>1, <3>1
    <3>2. CASE k \in DOMAIN mem.devices_by_key
      <4>1. PICK d : d = mem.devices_by_key[k]
        OBVIOUS
      <4>2. d \in Dev /\ k = <<mem.devices[d].workspace, mem.devices[d].pubkey>>
        BY ONLY <1>1, <3>2, <4>1 DEF DevicesOK
      <4>3. mem'.devices_by_key[k] = d /\ d \in Dev' /\ mem'.devices[d] = mem.devices[d]
        BY ONLY <1>6, <1>7, <3>2, <4>1, <4>2
      <4> QED BY ONLY <4>2, <4>3
    <3> QED BY ONLY <1>7, <3>1, <3>2
  <2> QED BY <1>5, <1>6, <1>7, <1>9, <2>2, <2>3 DEF DevicesOK
<1>11. FingerprintsOK'
  <2>1. mem'.device_fingerprints = mem.device_fingerprints /\ dev.cert_fingerprint = NoCert
    BY <1>2, <1>5 DEF SameFingerprints
  <2>2. /\ \E n \in Nat : DOMAIN mem'.device_fingerprints = 1..n
        /\ \A fp \in DOMAIN mem'.device_fingerprints :
             mem'.device_fingerprints[fp] \in Dev /\ mem'.device_fingerprints[fp] \in Dev'
    BY ONLY <1>1, <1>6, <2>1 DEF FingerprintsOK
  <2>3. ASSUME NEW d \in Dev'
        PROVE  /\ pg'.device[d].cert_fingerprint \in DOMAIN mem'.device_fingerprints \cup {NoCert}
               /\ pg'.device[d].cert_fingerprint # NoCert =>
                    mem'.device_fingerprints[pg'.device[d].cert_fingerprint] = d
               /\ \A fp \in DOMAIN mem'.device_fingerprints :
                    mem'.device_fingerprints[fp] = d => fp <= pg'.device[d].cert_fingerprint
    <3>1. CASE d = id
      BY ONLY <1>6, <1>7, <2>1, <2>2, <3>1
    <3>2. CASE d # id
      <4>1. d \in Dev /\ pg'.device[d] = pg.device[d]
        BY ONLY <1>6, <1>7, <2>3, <3>2
      <4> QED BY ONLY <1>1, <2>1, <4>1 DEF FingerprintsOK
    <3> QED BY ONLY <3>1, <3>2
  <2> QED BY ONLY <2>2, <2>3 DEF FingerprintsOK
<1>12. ShapeOK' /\ UsersOK' /\ MembershipsOK' /\ InvitationsOK'
  BY <1>1, <1>5, UsersStay, MembershipsStay, InvitationsStay DEF ShapeOK
<1>13. KeysGrow /\ Registers(ws, key)
  <2>1. row.pubkey = key
    BY <1>2
  <2> QED BY <1>2, <1>6, <1>7, <2>1 DEF KeysGrow, keyOf, Registers
<1> QED BY <1>10, <1>11, <1>12, <1>13 DEF DirInv

\* A certificate is recorded for a device.
LEMMA FingerprintStep ==
  ASSUME DirInv, NEW d0 \in Dev, NEW fp, fp = Cardinality(DOMAIN mem.device_fingerprints) + 1,
         mem' = MemSetFingerprint(mem, d0, fp), pg' = PgSetFingerprint(pg, d0, fp)
  PROVE  DirInv' /\ KeysGrow
<1>1. ShapeOK /\ UsersOK /\ DevicesOK /\ FingerprintsOK
  BY DEF DirInv
<1>2. PICK n \in Nat : DOMAIN mem.device_fingerprints = 1..n
  BY <1>1 DEF FingerprintsOK
<1>3. fp = n + 1 /\ fp # NoCert /\ 1..fp = 1..n \cup {fp} /\ fp \notin 1..n /\ fp \in Nat
  <2>1. Cardinality(1..n) = IF 1 > n THEN 0 ELSE n - 1 + 1
    BY FS_Interval
  <2> QED BY <1>2, <2>1 DEF NoCert
<1>4. /\ DOMAIN mem' = DOMAIN mem /\ SameUsers /\ SameMemberships /\ SameInvitations
      /\ DOMAIN pg' = DOMAIN pg /\ pg'.user_seq = pg.user_seq
      /\ mem'.next_device = mem.next_device /\ mem'.devices_by_key = mem.devices_by_key
      /\ mem'.devices = mem.devices
      /\ mem'.device_fingerprints = Put(mem.device_fingerprints, fp, d0)
      /\ pg'.device = [d \in DOMAIN pg.device |->
           IF d = d0 THEN [pg.device[d] EXCEPT !.cert_fingerprint = fp] ELSE pg.device[d]]
  BY <1>1 DEF MemSetFingerprint, PgSetFingerprint, ShapeOK, SameUsers, SameMemberships,
              SameInvitations
<1>5. DOMAIN mem.devices = Dev /\ DOMAIN pg.device = Dev /\ DOMAIN pg'.device = Dev
  BY <1>1, <1>4 DEF DevicesOK
<1>6. ASSUME NEW d \in Dev
      PROVE  /\ SameDevice(mem.devices[d], pg'.device[d])
             /\ d = d0 => pg'.device[d].cert_fingerprint = fp
             /\ d # d0 => pg'.device[d].cert_fingerprint = pg.device[d].cert_fingerprint
  <2> PICK row, dev, dev2 : row = mem.devices[d] /\ dev = pg.device[d] /\ dev2 = pg'.device[d]
    OBVIOUS
  <2>1. SameDevice(row, dev)
    BY <1>1 DEF DevicesOK
  <2>2. CASE d = d0
    <3>1. dev2 = [dev EXCEPT !.cert_fingerprint = fp]
      BY <1>4, <1>5, <2>2
    <3>2. PICK w, v, key, ps, c :
            /\ w = row.workspace /\ v = pg.app_user[mem.emails[row.enrolled_by]]
            /\ key = row.pubkey /\ ps = DeviceStatusTo(row.status) /\ c = dev.cert_fingerprint
      OBVIOUS
    <3>3. dev = [workspace_id |-> w, enrolled_by |-> v, device_pubkey |-> key, status |-> ps,
                 cert_fingerprint |-> c]
      BY <2>1, <3>2 DEF SameDevice
    <3>4. dev2 = [workspace_id |-> w, enrolled_by |-> v, device_pubkey |-> key, status |-> ps,
                  cert_fingerprint |-> fp]
      BY <3>1, <3>3
    <3>5. dev2.cert_fingerprint = fp
      BY <3>4
    <3> QED BY <2>1, <2>2, <3>2, <3>4, <3>5 DEF SameDevice
  <2>3. CASE d # d0
    <3>1. dev2 = dev
      BY <1>4, <1>5, <2>3
    <3> QED BY <2>1, <2>3, <3>1
  <2> QED BY <2>2, <2>3
<1>7. RowsChange
  <2>1. mem'.devices = mem.devices
    BY <1>4
  <2> QED BY <1>4, <1>5, <1>6, <2>1 DEF RowsChange
<1>8. Dev' = Dev /\ KeysGrow
  BY <1>7, RowsStep
<1>9. FingerprintsOK'
  <2>1. /\ DOMAIN mem'.device_fingerprints = 1..fp /\ mem'.device_fingerprints[fp] = d0
        /\ \A f \in 1..n : mem'.device_fingerprints[f] = mem.device_fingerprints[f]
    BY <1>2, <1>3, <1>4 DEF Put
  <2>2. \A f \in 1..fp : mem'.device_fingerprints[f] \in Dev
    BY <1>1, <1>2, <1>3, <2>1 DEF FingerprintsOK
  <2>3. ASSUME NEW d \in Dev
        PROVE  /\ pg'.device[d].cert_fingerprint \in 1..fp \cup {NoCert}
               /\ pg'.device[d].cert_fingerprint # NoCert =>
                    mem'.device_fingerprints[pg'.device[d].cert_fingerprint] = d
               /\ \A f \in 1..fp :
                    mem'.device_fingerprints[f] = d => f <= pg'.device[d].cert_fingerprint
    <3>1. PICK c, c2 : c = pg.device[d].cert_fingerprint /\ c2 = pg'.device[d].cert_fingerprint
      OBVIOUS
    <3>2. /\ c \in 1..n \cup {NoCert} /\ (c # NoCert => mem.device_fingerprints[c] = d)
          /\ \A f \in 1..n : mem.device_fingerprints[f] = d => f <= c
      BY <1>1, <1>2, <3>1 DEF FingerprintsOK
    <3>3. CASE d = d0
      <4>1. c2 = fp
        BY <1>6, <3>1, <3>3
      <4> QED BY <1>3, <2>1, <3>1, <3>3, <4>1
    <3>4. CASE d # d0
      <4>1. c2 = c
        BY <1>6, <3>1, <3>4
      <4> QED BY <1>3, <2>1, <3>1, <3>2, <3>4, <4>1
    <3> QED BY <3>3, <3>4
  <2> QED BY <1>3, <1>8, <2>1, <2>2, <2>3 DEF FingerprintsOK
<1> QED BY <1>7, <1>9, RowsStep DEF DirInv

-----------------------------------------------------------------------------
(* The first device. *)

LEMMA FirstDevice ==
  ASSUME StoresInit
  PROVE  DirInv /\ mem.next_device = 1 /\ mem.devices[1].pubkey = FirstKey
<1>1. FirstKey \in Key /\ FirstWorkspace \in Workspace
  BY StoresAssumption DEF FirstKey, FirstWorkspace
<1>2. PICK key, ws, k0, row, dev :
        /\ key = FirstKey /\ ws = FirstWorkspace /\ k0 = <<ws, key>>
        /\ row = [workspace |-> ws, enrolled_by |-> 1, pubkey |-> key, status |-> "Active"]
        /\ dev = [workspace_id |-> ws, enrolled_by |-> 1, device_pubkey |-> key,
                  status |-> "active", cert_fingerprint |-> NoCert]
  OBVIOUS
<1>3. PICK s, t : s = MemUpsertUser(MemInit, Owner) /\ t = PgUpsertUser(PgInit, Owner)
  OBVIOUS
<1>4. s = [next_user |-> 1, next_device |-> 0, users |-> Put(Empty, Owner, 1),
           emails |-> Put(Empty, 1, Owner), memberships |-> Empty, invitations |-> Empty,
           devices_by_key |-> Empty, devices |-> Empty, device_fingerprints |-> Empty]
  <2>1. Owner \notin DOMAIN MemInit.users
    BY DEF MemInit, Empty
  <2>2. s = [MemInit EXCEPT !.next_user = 1, !.users = Put(Empty, Owner, 1),
                            !.emails = Put(Empty, 1, Owner)]
    BY <1>3, <2>1 DEF MemUpsertUser, MemInit
  <2> QED BY <2>2 DEF MemInit
<1>5. t = [user_seq |-> 1, app_user |-> Put(Empty, Owner, 1), membership |-> Empty,
           invitation |-> Empty, device |-> Empty]
  <2>1. Owner \notin DOMAIN Empty
    BY DEF Empty
  <2>2. t = [PgInit EXCEPT !.user_seq = 1, !.app_user = Put(Empty, Owner, 1)]
    BY <1>3, <2>1 DEF PgUpsertUser, PgInit
  <2> QED BY <2>2 DEF PgInit
<1>6. mem = [next_user |-> 1, next_device |-> 1, users |-> Put(Empty, Owner, 1),
             emails |-> Put(Empty, 1, Owner), memberships |-> Empty, invitations |-> Empty,
             devices_by_key |-> Put(Empty, k0, 1), devices |-> Put(Empty, 1, row),
             device_fingerprints |-> Empty]
  <2>1. mem = MemRecordDevice(s, ws, 1, key)
    BY <1>2, <1>3 DEF StoresInit
  <2>2. k0 \notin DOMAIN s.devices_by_key /\ s.next_device + 1 = 1
    BY <1>4 DEF Empty
  <2>3. mem = [s EXCEPT !.next_device = 1, !.devices_by_key = Put(Empty, k0, 1),
                        !.devices = Put(Empty, 1, row)]
    BY <1>2, <1>4, <2>1, <2>2 DEF MemRecordDevice
  <2> QED BY <1>4, <2>3
<1>7. pg = [user_seq |-> 1, app_user |-> Put(Empty, Owner, 1), membership |-> Empty,
            invitation |-> Empty, device |-> Put(Empty, 1, dev)]
  <2>1. pg = PgRecordDevice(t, ws, 1, key)
    BY <1>2, <1>3 DEF StoresInit
  <2>2. t.device = Empty /\ PgRow(t, ws, key) = {}
    BY <1>5 DEF PgRow, Empty
  <2>3. Cardinality(DOMAIN Empty) = 0
    BY FS_EmptySet DEF Empty
  <2>4. pg = [t EXCEPT !.device = Put(Empty, 1, dev)]
    BY <1>2, <2>1, <2>2, <2>3 DEF PgRecordDevice
  <2> QED BY <1>5, <2>4
<1>8. /\ mem.next_user = 1 /\ mem.next_device = 1 /\ mem.users = Put(Empty, Owner, 1)
      /\ mem.emails = Put(Empty, 1, Owner) /\ mem.memberships = Empty /\ mem.invitations = Empty
      /\ mem.devices_by_key = Put(Empty, k0, 1) /\ mem.devices = Put(Empty, 1, row)
      /\ mem.device_fingerprints = Empty
      /\ pg.user_seq = 1 /\ pg.app_user = Put(Empty, Owner, 1) /\ pg.membership = Empty
      /\ pg.invitation = Empty /\ pg.device = Put(Empty, 1, dev)
  BY <1>6, <1>7
<1>9. DOMAIN Empty = {} /\ Dev = {1} /\ 1..1 = {1} /\ 1 \in Nat
  BY <1>8 DEF Empty, Dev
<1>10. \A k, v : DOMAIN Put(Empty, k, v) = {k} /\ Put(Empty, k, v)[k] = v
  BY <1>9 DEF Put
<1>11. /\ DOMAIN mem.users = {Owner} /\ mem.users[Owner] = 1
       /\ DOMAIN mem.emails = {1} /\ mem.emails[1] = Owner
       /\ DOMAIN pg.app_user = {Owner} /\ pg.app_user[Owner] = 1
       /\ DOMAIN mem.devices = {1} /\ DOMAIN pg.device = {1}
       /\ DOMAIN mem.devices_by_key = {k0} /\ mem.devices_by_key[k0] = 1
  <2>1. DOMAIN mem.users = {Owner} /\ mem.users[Owner] = 1
    BY <1>8, <1>9 DEF Put
  <2>2. DOMAIN mem.emails = {1} /\ mem.emails[1] = Owner
    BY <1>8, <1>9 DEF Put
  <2>3. DOMAIN pg.app_user = {Owner} /\ pg.app_user[Owner] = 1
    BY <1>8, <1>9 DEF Put
  <2>4. DOMAIN mem.devices = {1} /\ DOMAIN pg.device = {1}
    BY <1>8, <1>9 DEF Put
  <2>5. DOMAIN mem.devices_by_key = {k0} /\ mem.devices_by_key[k0] = 1
    BY <1>8, <1>9 DEF Put
  <2> QED BY <2>1, <2>2, <2>3, <2>4, <2>5
<1>12. ShapeOK
  BY <1>6, <1>7 DEF ShapeOK
<1>13. UsersOK
  <2>1. mem.users \in [{Owner} -> {1}] /\ pg.app_user \in [{Owner} -> {1}]
    BY <1>8, <1>9, <1>10, <1>11 DEF Put
  <2> QED BY <1>8, <1>9, <1>11, <2>1 DEF UsersOK
<1>14. MembershipsOK /\ InvitationsOK
  BY <1>8, <1>9 DEF MembershipsOK, InvitationsOK
<1>15. mem.devices[1] = row /\ pg.device[1] = dev
  BY <1>8, <1>10
<1>16. /\ row.workspace = ws /\ row.enrolled_by = 1 /\ row.pubkey = key /\ row.status = "Active"
       /\ dev.cert_fingerprint = NoCert
  BY <1>2
<1>17. DevicesOK
  <2>1. SameDevice(row, dev)
    <3>1. row \in DeviceRow /\ DeviceStatusTo("Active") = "active"
      BY <1>1, <1>2 DEF DeviceRow, DeviceStatus, DeviceStatusTo
    <3>2. 1 \in 1..mem.next_user /\ pg.app_user[mem.emails[1]] = 1
      BY <1>8, <1>9, <1>10
    <3> QED BY <1>2, <1>16, <3>1, <3>2 DEF SameDevice
  <2>2. \A d \in Dev : SameDevice(mem.devices[d], pg.device[d])
    BY <1>9, <1>15, <2>1
  <2>3. /\ mem.next_device \in Nat /\ DOMAIN mem.devices = Dev /\ DOMAIN pg.device = Dev
        /\ DOMAIN mem.devices_by_key = {k0} /\ mem.devices_by_key[k0] = 1
    BY <1>8, <1>9, <1>11
  <2> QED BY <1>2, <1>9, <1>15, <1>16, <2>2, <2>3 DEF DevicesOK
<1>18. FingerprintsOK
  <2>1. 1..0 = {} /\ 0 \in Nat
    OBVIOUS
  <2> QED BY <1>8, <1>9, <1>15, <1>16, <2>1 DEF FingerprintsOK
<1> QED BY <1>2, <1>8, <1>12, <1>13, <1>14, <1>15, <1>16, <1>17, <1>18 DEF DirInv

LEMMA InitAudit == StoresInit => AuditInv
<1> SUFFICES ASSUME StoresInit PROVE AuditInv
  OBVIOUS
<1>1. PICK key, f, p : /\ key = FirstKey /\ f = Fresh(key)
                       /\ p = [next_seq |-> 1, head |-> << >>]
  OBVIOUS
<1>2. key \in Key /\ FirstKey = key
  BY <1>1, StoresAssumption DEF FirstKey
<1>3. KeysOK /\ mem.next_device = 1 /\ mem.devices[1].pubkey = key
  <2>1. DirInv
    BY FirstDevice
  <2>2. KeysOK
    BY <2>1, Directory
  <2>3. mem.next_device = 1 /\ mem.devices[1].pubkey = key
    BY <1>1, FirstDevice
  <2> QED BY <2>2, <2>3
<1>4. Dev = {1} /\ keyOf[1] = key /\ 1 \in Dev
  <2>1. 1..1 = {1}
    OBVIOUS
  <2> QED BY <1>3, <2>1 DEF Dev, keyOf
<1>5. DOMAIN Empty = {}
  BY DEF Empty
<1>6. /\ f \in Chain /\ f.public_key = key /\ f.head = << >> /\ << >> \in ChainHash
      /\ f = [public_key |-> key, next_seq |-> 1, head |-> << >>]
      /\ p \in Position /\ p.next_seq = 1 /\ p.head = << >>
  BY <1>1, <1>2, FreshMeans DEF Fresh, Position, GENESIS
<1>7. /\ ledger = [chains |-> Put(Empty, 1, f), verified |-> << >>, alerts |-> << >>]
      /\ memAudit = [chains |-> Put(Empty, 1, f), events |-> << >>, alerts |-> << >>]
      /\ pgAudit = [audit_chain |-> Put(Empty, 1, p), audit_event |-> Empty, audit_alert |-> << >>]
      /\ req = [r \in Request |-> Idle] /\ spool = [k \in Key |-> << >>]
      /\ emitted = {} /\ excused = {} /\ reused = {} /\ work = 0 /\ nstorefaults = 0
  BY <1>1 DEF StoresInit, MemAuditRegister, PgAuditRegister, GENESIS
<1>8. /\ DOMAIN ledger.chains = {1} /\ ledger.chains[1] = f /\ ledger.alerts = << >>
      /\ memAudit.chains = [d \in {1} |-> f] /\ memAudit.events = << >> /\ memAudit.alerts = << >>
      /\ DOMAIN pgAudit.audit_chain = {1} /\ pgAudit.audit_chain[1] = p
      /\ DOMAIN pgAudit.audit_event = {} /\ pgAudit.audit_alert = << >>
  <2>1. Put(Empty, 1, f) = [d \in {1} |-> f] /\ Put(Empty, 1, p) = [d \in {1} |-> p]
    BY <1>5 DEF Put
  <2> QED BY <1>5, <1>7, <2>1
<1>9. SpoolsOK
  BY <1>6, <1>7 DEF SpoolsOK, Emitted
<1>10. LedgerOK
  <2>1. SignedBy(1, << >>)
    BY NothingSigned
  <2>2. ledger.chains \in [{1} -> Chain]
    BY <1>5, <1>6, <1>7 DEF Put
  <2>3. ledger.alerts \in Seq(Alert)
    BY <1>8
  <2>4. ledger = [chains |-> ledger.chains, verified |-> ledger.verified, alerts |-> ledger.alerts]
    BY <1>7
  <2> QED BY <1>4, <1>6, <1>8, <2>1, <2>2, <2>3, <2>4 DEF LedgerOK
<1>11. ShapesOK
  <2>1. << >> \in Seq(Alert)
    OBVIOUS
  <2> QED BY <1>7, <2>1 DEF ShapesOK
<1>12. ChainsOK
  <2>1. SignedBy(1, << >>)
    BY NothingSigned
  <2>2. pgAudit.audit_chain \in [{1} -> Position]
    BY <1>5, <1>6, <1>7 DEF Put
  <2>3. memAudit.chains = [d \in {1} |->
          [public_key |-> keyOf[d], next_seq |-> pgAudit.audit_chain[d].next_seq,
           head |-> pgAudit.audit_chain[d].head]]
    BY <1>4, <1>6, <1>8
  <2> QED BY <1>4, <1>6, <1>8, <2>1, <2>2, <2>3 DEF ChainsOK
<1>13. RowsOK
  BY <1>8 DEF RowsOK
<1>14. ReqOK /\ \A d : Requests(d) = {}
  <2>1. Idle \in ReqType
    BY DEF ReqType
  <2> QED BY <1>7, <2>1, IdleFits DEF ReqOK, Requests
<1>15. AuxOK
  BY <1>7, StoresAssumption DEF AuxOK
<1>16. ASSUME NEW d \in Nat PROVE DeviceSynced(d)
  <2>1. ChainSynced(d)
    <3>1. d = 1 => Synced(d)
      <4>1. 1..0 = {} /\ Len(<< >>) = 0
        OBVIOUS
      <4> QED BY <1>6, <1>8, <4>1 DEF Synced
    <3> QED BY <1>8, <3>1 DEF ChainSynced
  <2>2. RegisterSynced(d) /\ BatchSynced(d)
    BY <1>14 DEF RegisterSynced, BatchSynced
  <2>3. AlertsSynced(d)
    BY <1>8, <1>14 DEF AlertsSynced, AlertsOf
  <2>4. RowsSynced(d) /\ ChainKnown(d)
    BY <1>8 DEF RowsSynced, ChainKnown
  <2> QED BY <1>14, <2>1, <2>2, <2>3, <2>4 DEF DeviceSynced
<1> QED BY <1>9, <1>10, <1>11, <1>12, <1>13, <1>14, <1>15, <1>16 DEF AuditInv, TablesInv, SyncInv

-----------------------------------------------------------------------------
(* Every step. *)

\* A call of record_device, for a device that is there or a new one.
LEMMA RecordDeviceStep ==
  ASSUME DirInv, NEW r, NEW ws \in Enrolling, NEW email, NEW key \in Key,
         EnrollRecord(r, ws, email, key)
  PROVE  DirInv' /\ KeysGrow /\ Registers(ws, key)
<1>1. /\ email \in DOMAIN mem.users /\ ws \in Workspace
      /\ mem' = MemRecordDevice(mem, ws, mem.users[email], key)
      /\ pg' = PgRecordDevice(pg, ws, pg.app_user[email], key)
  BY StoresAssumption DEF EnrollRecord
<1>2. CASE <<ws, key>> \in DOMAIN mem.devices_by_key
  BY <1>1, <1>2, KnownDeviceStep
<1>3. CASE <<ws, key>> \notin DOMAIN mem.devices_by_key
  BY <1>1, <1>3, NewDeviceStep
<1> QED BY <1>2, <1>3

\* The bounds, and the devices that are set apart.
LEMMA AuxStep ==
  ASSUME DirInv, AuditInv, [StoresNext]_storesVars
  PROVE  AuxOK'
<1>1. AuxOK /\ ReqOK /\ MaxWork \in Nat /\ MaxStoreFaults \in Nat
  BY StoresAssumption DEF AuditInv, TablesInv
<1>2. DeviceIds \subseteq Nat /\ DOMAIN mem.devices \subseteq Nat
  BY DEF DirInv, DevicesOK, DeviceIds, Dev
<1>3. \A r \in Request : req[r].pc # "idle" => req[r].device \in Nat
  <2> TAKE r \in Request
  <2> SUFFICES ASSUME req[r].pc # "idle" PROVE req[r].device \in Nat
    OBVIOUS
  <2>1. req[r] \in ReqType /\ req[r] # Idle
    BY <1>1, RequestTyped
  <2> QED BY <2>1 DEF ReqType, EnrollReq, PositionReq, HeadReq, AppendReq, AlertReq, RecordReq
<1>4. \A d \in Nat : Excuse(d) => excused' \subseteq Nat
  BY <1>1 DEF Excuse, AuxOK
<1>5. \A n \in Nat : Work(n) => work' \in 0..MaxWork
  BY <1>1 DEF Work, AuxOK
<1>6. \A kind : StoreFault(kind) => nstorefaults' \in 0..MaxStoreFaults
  BY <1>1 DEF StoreFault, AuxOK
<1>7. UNCHANGED work => work' \in 0..MaxWork
  BY <1>1 DEF AuxOK
<1>8. UNCHANGED nstorefaults => nstorefaults' \in 0..MaxStoreFaults
  BY <1>1 DEF AuxOK
<1>9. (UNCHANGED excused => excused' \subseteq Nat) /\ (UNCHANGED reused => reused' \subseteq Nat)
  BY <1>1 DEF AuxOK
<1>10. CASE StoreCall
  <2>1. Call /\ UNCHANGED Others
    BY <1>10 DEF StoreCall, UpsertUser, PutMembership, PutInvitation, MarkInvitationAccepted,
                 SetDeviceStatus
  <2> QED BY <1>5, <1>8, <1>9, <2>1 DEF Call, Others, auxVars, AuxOK
<1>11. ASSUME NEW r \in Request, Enroll(r) PROVE AuxOK'
  <2>1. ASSUME NEW ws \in Enrolling, NEW email \in Email, NEW key \in Key,
               EnrollRecord(r, ws, email, key)
        PROVE  AuxOK'
    <3>1. PICK d0 : d0 = mem'.devices_by_key[<<ws, key>>]
      OBVIOUS
    <3>2. Work(2) /\ Excuse(d0) /\ UNCHANGED reused /\ UNCHANGED nstorefaults
      BY <2>1, <3>1 DEF EnrollRecord
    <3>3. d0 \in Nat
      BY <2>1, <3>1, RecordDeviceStep DEF Registers
    <3> QED BY <1>4, <1>5, <1>8, <1>9, <3>2, <3>3 DEF AuxOK
  <2>2. CASE EnrollRegister(r)
    <3>1. reused' \subseteq Nat
      BY <1>1, <1>3, <2>2 DEF EnrollRegister, AuxOK
    <3>2. UNCHANGED excused /\ UNCHANGED work /\ UNCHANGED nstorefaults
      BY <2>2 DEF EnrollRegister
    <3> QED BY <1>7, <1>8, <1>9, <3>1, <3>2 DEF AuxOK
  <2>3. CASE EnrollPersist(r)
    <3>1. UNCHANGED reused /\ UNCHANGED work /\ req[r].device \in Nat
      BY <1>3, <2>3 DEF EnrollPersist
    <3>2. \/ UNCHANGED excused /\ UNCHANGED nstorefaults
          \/ StoreFault("store") /\ excused' = excused \cup {req[r].device}
      BY <2>3 DEF EnrollPersist
    <3> QED BY <1>1, <1>6, <1>7, <1>8, <1>9, <3>1, <3>2 DEF AuxOK
  <2>4. CASE EnrollCertify(r)
    BY <1>7, <1>8, <1>9, <2>4 DEF EnrollCertify, auxVars, AuxOK
  <2> QED BY <1>11, <2>1, <2>2, <2>3, <2>4 DEF Enroll
<1>12. ASSUME NEW r \in Request, IngestAudit(r) PROVE AuxOK'
  <2>1. ASSUME NEW d0 \in DeviceIds, NEW batch, ingest_device_audit(r, d0, batch) PROVE AuxOK'
    <3>1. Work(2) /\ Excuse(d0) /\ UNCHANGED reused /\ UNCHANGED nstorefaults /\ d0 \in Nat
      BY <1>2, <2>1 DEF ingest_device_audit
    <3> QED BY <1>4, <1>5, <1>8, <1>9, <3>1 DEF AuxOK
  <2>2. CASE high_water(r) \/ head_for(r) \/ FindAlert(r)
    <3>1. UNCHANGED auxVars /\ UNCHANGED work /\ UNCHANGED nstorefaults
      BY <2>2 DEF high_water, head_for, FindAlert
    <3> QED BY <1>7, <1>8, <1>9, <3>1 DEF auxVars, AuxOK
  <2>3. CASE AppendAudit(r) \/ RecordAlert(r)
    <3>1. UNCHANGED reused /\ UNCHANGED work /\ req[r].device \in Nat
      BY <1>3, <2>3 DEF AppendAudit, RecordAlert
    <3>2. \/ UNCHANGED excused /\ UNCHANGED nstorefaults
          \/ StoreFault("store") /\ excused' = excused \cup {req[r].device}
      BY <2>3 DEF AppendAudit, RecordAlert
    <3> QED BY <1>1, <1>6, <1>7, <1>8, <1>9, <3>1, <3>2 DEF AuxOK
  <2> QED BY <1>12, <2>1, <2>2, <2>3 DEF IngestAudit
<1>13. CASE \E key \in Key, event \in Event : EmitEvent(key, event)
  <2>1. UNCHANGED excused /\ UNCHANGED reused /\ UNCHANGED work /\ UNCHANGED nstorefaults
    BY <1>13 DEF EmitEvent
  <2> QED BY <1>7, <1>8, <1>9, <2>1 DEF AuxOK
<1>14. CASE RestartGateway
  <2>1. excused' \subseteq Nat
    BY <1>1, <1>2, <1>14 DEF RestartGateway, AuxOK
  <2>2. (\E kind : StoreFault(kind)) /\ UNCHANGED reused /\ UNCHANGED work
    BY <1>14 DEF RestartGateway
  <2> QED BY <1>6, <1>7, <1>9, <2>1, <2>2 DEF AuxOK
<1>15. CASE \E key \in Key : FreshSpool(key)
  <2>1. (\E kind : StoreFault(kind)) /\ UNCHANGED auxVars /\ UNCHANGED work
    BY <1>15 DEF FreshSpool
  <2> QED BY <1>6, <1>7, <1>9, <2>1 DEF auxVars, AuxOK
<1>16. CASE UNCHANGED storesVars
  BY <1>1, <1>16 DEF storesVars, auxVars, AuxOK
<1> QED BY <1>10, <1>11, <1>12, <1>13, <1>14, <1>15, <1>16 DEF StoresNext

\* The calls of the console and of the directory.
LEMMA StoreCallStep ==
  ASSUME DirInv, StoreCall
  PROVE  DirInv' /\ KeysGrow /\ UNCHANGED Others
<1>1. CASE \E email \in Email : UpsertUser(email)
  <2> PICK email \in Email : UpsertUser(email)
    BY <1>1
  <2>1. mem' = MemUpsertUser(mem, email) /\ pg' = PgUpsertUser(pg, email) /\ UNCHANGED Others
    BY DEF UpsertUser
  <2> QED BY <2>1, UpsertStep
<1>2. ASSUME NEW ws \in Workspace, NEW email \in Email, NEW m \in Memberships,
             PutMembership(ws, email, m[1], m[2])
      PROVE  DirInv' /\ KeysGrow /\ UNCHANGED Others
  <2>1. m[1] \in Role /\ m[2] \in MembershipStatus
    BY StoresAssumption
  <2>2. /\ email \in DOMAIN mem.users
        /\ mem' = MemPutMembership(mem, ws, mem.users[email], m[1], m[2])
        /\ pg' = PgPutMembership(pg, ws, pg.app_user[email], m[1], m[2])
        /\ UNCHANGED Others
    BY <1>2 DEF PutMembership
  <2> QED BY <2>1, <2>2, MembershipStep
<1>3. ASSUME NEW ws \in Workspace, NEW email \in Email, NEW role \in Role,
             PutInvitation(ws, email, role)
      PROVE  DirInv' /\ KeysGrow /\ UNCHANGED Others
  <2>1. /\ mem' = MemPutInvitation(mem, ws, email, role, FALSE)
        /\ pg' = PgUpsertInvitation(pg, ws, email, role, FALSE) /\ UNCHANGED Others
    BY <1>3 DEF PutInvitation
  <2> QED BY <2>1, InviteStep
<1>4. ASSUME NEW ws \in Workspace, NEW email \in Email, MarkInvitationAccepted(ws, email)
      PROVE  DirInv' /\ KeysGrow /\ UNCHANGED Others
  <2>1. /\ mem' = MemMarkAccepted(mem, ws, email) /\ pg' = PgMarkAccepted(pg, ws, email)
        /\ UNCHANGED Others
    BY <1>4 DEF MarkInvitationAccepted
  <2> QED BY <2>1, AcceptedStep
<1>5. ASSUME NEW ws \in Workspace, NEW id \in DeviceIds, NEW status \in {"Locked", "Wiped"},
             SetDeviceStatus(ws, id, status)
      PROVE  DirInv' /\ KeysGrow /\ UNCHANGED Others
  <2>1. /\ status \in DeviceStatus
        /\ mem' = MemSetDeviceStatus(mem, ws, id, status)
        /\ pg' = PgSetDeviceStatus(pg, ws, id, status) /\ UNCHANGED Others
    BY <1>5 DEF SetDeviceStatus, DeviceStatus
  <2> QED BY <2>1, StatusStep
<1> QED BY <1>1, <1>2, <1>3, <1>4, <1>5 DEF StoreCall

LEMMA EnrollStep ==
  ASSUME DirInv, AuditInv, AuxOK', NEW r \in Request, Enroll(r)
  PROVE  DirInv' /\ AuditInv'
<1>1. KeysOK /\ ReqOK
  BY Directory DEF AuditInv, TablesInv
<1>2. ASSUME NEW ws \in Enrolling, NEW email \in Email, NEW key \in Key,
             EnrollRecord(r, ws, email, key)
      PROVE  DirInv' /\ AuditInv'
  <2>1. DirInv' /\ KeysGrow /\ Registers(ws, key)
    BY <1>2, RecordDeviceStep
  <2>2. PICK d0 : d0 = mem'.devices_by_key[<<ws, key>>]
    OBVIOUS
  <2>3. d0 \in Nat /\ d0 \in Dev' /\ keyOf'[d0] = key
    BY <2>1, <2>2 DEF Registers
  <2>4. /\ req[r] = Idle /\ Excuse(d0)
        /\ req' = [req EXCEPT ![r] = [pc |-> "register", device |-> d0, key |-> key]]
        /\ UNCHANGED <<spool, emitted, reused>> /\ UNCHANGED auditVars
    BY <1>2, <2>2 DEF EnrollRecord
  <2>5. SignedGrows
    BY <2>1, <2>4 DEF SignedGrows
  <2> QED BY <2>1, <2>3, <2>4, <2>5, EnrollBegins
<1>3. CASE EnrollRegister(r)
  <2>1. UNCHANGED storeVars /\ emitted' = emitted
    BY <1>3 DEF EnrollRegister
  <2>2. DirInv' /\ SignedGrows
    BY <2>1, DirectoryStays DEF SignedGrows
  <2> QED BY <1>1, <1>3, <2>2, RegisterStep
<1>4. CASE EnrollPersist(r)
  <2>1. UNCHANGED storeVars /\ emitted' = emitted
    BY <1>4 DEF EnrollPersist
  <2>2. DirInv' /\ SignedGrows
    BY <2>1, DirectoryStays DEF SignedGrows
  <2> QED BY <1>1, <1>4, <2>2, PersistStep
<1>5. CASE EnrollCertify(r)
  <2>1. /\ req[r].pc = "certify" /\ req' = [req EXCEPT ![r] = Idle]
        /\ UNCHANGED <<spool, emitted, excused, reused>> /\ UNCHANGED auditVars
    BY <1>5 DEF EnrollCertify, auxVars
  <2>2. req[r].device \in Dev
    BY <1>1, <2>1, ByPc, RequestTyped DEF ReqFits
  <2>3. \/ UNCHANGED storeVars
        \/ \E fp : /\ fp = Cardinality(DOMAIN mem.device_fingerprints) + 1
                   /\ mem' = MemSetFingerprint(mem, req[r].device, fp)
                   /\ pg' = PgSetFingerprint(pg, req[r].device, fp)
    BY <1>5 DEF EnrollCertify
  <2>4. DirInv' /\ KeysGrow
    BY <2>2, <2>3, DirectoryStays, FingerprintStep
  <2>5. SignedGrows
    BY <2>1, <2>4 DEF SignedGrows
  <2> QED BY <2>1, <2>4, <2>5, CertifyStep
<1> QED BY <1>2, <1>3, <1>4, <1>5 DEF Enroll

LEMMA IngestAuditStep ==
  ASSUME DirInv, AuditInv, AuxOK', NEW r \in Request, IngestAudit(r)
  PROVE  DirInv' /\ AuditInv'
<1>1. KeysOK /\ DeviceIds \subseteq Nat
  BY Directory DEF DirInv, DevicesOK, DeviceIds
<1>2. UNCHANGED storeVars /\ emitted' = emitted
  BY DEF IngestAudit, ingest_device_audit, high_water, head_for, AppendAudit, FindAlert, RecordAlert,
         auxVars
<1>3. DirInv' /\ SignedGrows
  BY <1>2, DirectoryStays DEF SignedGrows
<1>4. ASSUME NEW d0 \in DeviceIds, NEW key \in Key, NEW i \in 0..Len(spool[key]), NEW j \in 0..i,
             ingest_device_audit(r, d0, Batch(key, j, i))
      PROVE  AuditInv'
  BY <1>1, <1>3, <1>4, IngestStep
<1>5. CASE high_water(r)
  BY <1>3, <1>5, HighWaterStep
<1>6. CASE head_for(r)
  BY <1>3, <1>6, HeadForStep
<1>7. CASE AppendAudit(r)
  BY <1>1, <1>3, <1>7, AppendStep
<1>8. CASE FindAlert(r)
  BY <1>3, <1>8, FindAlertStep
<1>9. CASE RecordAlert(r)
  BY <1>3, <1>9, RecordAlertStep
<1> QED BY <1>3, <1>4, <1>5, <1>6, <1>7, <1>8, <1>9 DEF IngestAudit

LEMMA StoresKeep ==
  ASSUME DirInv, AuditInv, [StoresNext]_storesVars
  PROVE  DirInv' /\ AuditInv'
<1>1. AuxOK' /\ KeysOK /\ PgKeysOK
  BY AuxStep, Directory
<1>2. CASE StoreCall
  <2>1. DirInv' /\ KeysGrow /\ UNCHANGED Others
    BY <1>2, StoreCallStep
  <2>2. UNCHANGED <<req, spool, emitted, excused, reused>> /\ UNCHANGED auditVars
    BY <2>1 DEF Others, auxVars
  <2>3. SignedGrows
    BY <2>1, <2>2 DEF SignedGrows
  <2> QED BY <1>1, <2>1, <2>2, <2>3, QuietStep
<1>3. CASE \E r \in Request : Enroll(r) \/ IngestAudit(r)
  BY <1>1, <1>3, EnrollStep, IngestAuditStep
<1>4. CASE \E key \in Key, event \in Event : EmitEvent(key, event)
  <2> PICK key \in Key, event \in Event : EmitEvent(key, event)
    BY <1>4
  <2>1. UNCHANGED storeVars /\ emitted \subseteq emitted'
    BY DEF EmitEvent
  <2>2. DirInv' /\ SignedGrows
    BY <2>1, DirectoryStays DEF SignedGrows
  <2> QED BY <1>1, <2>2, EmitStep
<1>5. CASE RestartGateway
  <2>1. UNCHANGED storeVars /\ emitted' = emitted
    BY <1>5 DEF RestartGateway
  <2>2. DirInv' /\ SignedGrows
    BY <2>1, DirectoryStays DEF SignedGrows
  <2> QED BY <1>1, <1>5, <2>2, RestartStep
<1>6. CASE \E key \in Key : FreshSpool(key)
  <2> PICK key \in Key : FreshSpool(key)
    BY <1>6
  <2>1. UNCHANGED storeVars /\ emitted' = emitted
    BY DEF FreshSpool, auxVars
  <2>2. DirInv' /\ SignedGrows
    BY <2>1, DirectoryStays DEF SignedGrows
  <2> QED BY <1>1, <2>2, FreshSpoolStep
<1>7. CASE UNCHANGED storesVars
  <2>1. UNCHANGED storeVars /\ UNCHANGED <<req, spool, emitted, excused, reused>>
        /\ UNCHANGED auditVars
    BY <1>7 DEF storesVars, auxVars
  <2>2. DirInv' /\ SignedGrows
    BY <2>1, DirectoryStays DEF SignedGrows
  <2> QED BY <1>1, <2>1, <2>2, QuietStep
<1> QED BY <1>2, <1>3, <1>4, <1>5, <1>6, <1>7 DEF StoresNext

LEMMA StoresInv == StoresSpec => [](DirInv /\ AuditInv)
<1>1. StoresInit => DirInv /\ AuditInv
  BY FirstDevice, InitAudit
<1>2. (DirInv /\ AuditInv) /\ [StoresNext]_storesVars => (DirInv /\ AuditInv)'
  BY StoresKeep
<1> QED BY <1>1, <1>2, PTL DEF StoresSpec

-----------------------------------------------------------------------------
(* What the invariant means for a restart. *)

\* The chains in memory are the ones that would be hydrated.
LEMMA ChainsHydrate ==
  ASSUME DirInv, AuditInv
  PROVE  /\ memAudit.chains = PgLoadChains /\ DOMAIN PgLoadChains = DOMAIN pgAudit.audit_chain
         /\ \A d \in DOMAIN PgLoadChains : PgLoadChains[d] =
              [public_key |-> keyOf[d], next_seq |-> pgAudit.audit_chain[d].next_seq,
               head |-> pgAudit.audit_chain[d].head]
<1>1. /\ DOMAIN pgAudit.audit_chain \subseteq Dev /\ DOMAIN pg.device = Dev
      /\ \A d \in Dev : pg.device[d].device_pubkey = keyOf[d]
  BY Directory DEF PgKeysOK, DirInv, DevicesOK, AuditInv, TablesInv, ChainsOK
<1>2. DOMAIN pgAudit.audit_chain \cap DOMAIN pg.device = DOMAIN pgAudit.audit_chain
  BY <1>1
<1>3. PgLoadChains = [d \in DOMAIN pgAudit.audit_chain |->
        [public_key |-> keyOf[d], next_seq |-> pgAudit.audit_chain[d].next_seq,
         head |-> pgAudit.audit_chain[d].head]]
  BY <1>1, <1>2 DEF PgLoadChains
<1> QED BY <1>3 DEF AuditInv, TablesInv, ChainsOK

LEMMA InvRestorable ==
  ASSUME DirInv, AuditInv
  PROVE  LedgerRestorable
<1>1. RowsGenuine
  <2>1. /\ DOMAIN pg.device = Dev /\ \A d \in Dev : pg.device[d].device_pubkey = keyOf[d]
    BY Directory DEF PgKeysOK, DirInv, DevicesOK
  <2>2. RowsOK
    BY DEF AuditInv, TablesInv
  <2> SUFFICES ASSUME NEW k \in DOMAIN pgAudit.audit_event
               PROVE  /\ k[1] \in DOMAIN pg.device
                      /\ <<pg.device[k[1]].device_pubkey, k[2], pgAudit.audit_event[k]>> \in emitted
    BY DEF RowsGenuine
  <2>3. k[1] \in Dev /\ <<keyOf[k[1]], k[2], pgAudit.audit_event[k]>> \in emitted
    BY <2>2 DEF RowsOK
  <2> QED BY <2>1, <2>3
<1>2. ChainRestorable
  <2> SUFFICES ASSUME NEW d \in DOMAIN ledger.chains, ~InFlight(d), d \notin excused
               PROVE  /\ d \in DOMAIN PgLoadChains /\ PgLoadChains[d] = ledger.chains[d]
                      /\ \A n \in 1..Len(ledger.chains[d].head) :
                           /\ Kept(d, n)
                           /\ d \notin reused =>
                                pgAudit.audit_event[<<d, n>>] = ledger.chains[d].head[n].event
                      /\ \A i \in AlertsOf(d) : Recorded(i)
    BY DEF ChainRestorable, Kept, Recorded
  <2>1. /\ d \in Nat /\ ledger.chains[d] \in Chain /\ ledger.chains[d].public_key = keyOf[d]
    BY DEF AuditInv, TablesInv, LedgerOK, DirInv, DevicesOK, Dev
  <2>2. Synced(d) /\ RowsSynced(d) /\ \A i \in AlertsOf(d) : Recorded(i)
    BY <2>1, FlightMeans, AllStored DEF AuditInv, SyncInv
  <2>3. PICK c : c = ledger.chains[d]
    OBVIOUS
  <2>4. c = [public_key |-> keyOf[d], next_seq |-> c.next_seq, head |-> c.head]
    BY <2>1, <2>3 DEF Chain
  <2>5. d \in DOMAIN PgLoadChains /\ PgLoadChains[d] = c
    BY <2>2, <2>3, <2>4, ChainsHydrate DEF Synced
  <2>6. \A n \in 1..Len(c.head) : Kept(d, n)
    BY <2>2, <2>3 DEF Synced
  <2>7. Len(c.head) \in Nat
    BY <2>1, <2>3 DEF Chain, ChainHash
  <2>8. ASSUME d \notin reused, NEW n \in 1..Len(c.head)
        PROVE  pgAudit.audit_event[<<d, n>>] = c.head[n].event
    BY <2>2, <2>3, <2>6, <2>7, <2>8 DEF RowsSynced, Kept
  <2> QED BY <2>2, <2>3, <2>5, <2>6, <2>8
<1> QED BY <1>1, <1>2 DEF LedgerRestorable

-----------------------------------------------------------------------------
(* What the invariant means for the answers of the two stores.             *)

Below(S, x) == Cardinality({v \in S : v < x})

SameOrder(E, f, g) ==
  /\ \A a \in E : f[a] \in Nat /\ g[a] \in Nat
  /\ \A a, b \in E : /\ (f[a] < f[b] <=> g[a] < g[b])
                     /\ (f[a] = f[b] <=> a = b) /\ (g[a] = g[b] <=> a = b)

\* Two numberings of the same things in the same order give the same positions.
LEMMA SamePosition ==
  ASSUME NEW E, NEW f, NEW g, SameOrder(E, f, g), NEW e \in E,
         NEW F, F = {f[a] : a \in E}, NEW G, G = {g[a] : a \in E}
  PROVE  Below(F, f[e]) = Below(G, g[e])
<1> USE DEF SameOrder
<1>1. PICK S, T : S = {v \in F : v < f[e]} /\ T = {v \in G : v < g[e]}
  OBVIOUS
<1>2. IsFiniteSet(S)
  <2>1. S \in SUBSET Nat /\ f[e] \in Nat /\ \A s \in S : s <= f[e]
    BY <1>1
  <2> QED BY <2>1, FS_BoundedSetOfNaturals
<1>3. PICK h : h = [v \in S |-> g[CHOOSE a \in E : f[a] = v]]
  OBVIOUS
<1>4. ASSUME NEW v \in S PROVE \E a \in E : v = f[a] /\ h[v] = g[a] /\ g[a] < g[e]
  <2>1. PICK a \in E : v = f[a] /\ f[a] < f[e]
    BY <1>1
  <2>2. (CHOOSE b \in E : f[b] = v) = a
    <3>1. \A b \in E : f[b] = v <=> b = a
      BY <2>1
    <3> QED BY <3>1
  <2> QED BY <1>3, <2>1, <2>2
<1>5. h \in [S -> T]
  BY <1>1, <1>3, <1>4
<1>6. \A v, w \in S : h[v] = h[w] => v = w
  BY <1>4
<1>7. \A t \in T : \E v \in S : h[v] = t
  <2> TAKE t \in T
  <2>1. PICK a \in E : t = g[a] /\ g[a] < g[e]
    BY <1>1
  <2>2. f[a] \in S
    BY <1>1, <2>1
  <2>3. PICK b \in E : f[a] = f[b] /\ h[f[a]] = g[b]
    BY <1>4, <2>2
  <2> QED BY <2>1, <2>2, <2>3
<1>8. h \in Bijection(S, T)
  BY <1>5, <1>6, <1>7 DEF Bijection, Injection, Surjection, IsInjective
<1>9. Cardinality(T) = Cardinality(S)
  BY <1>2, <1>8, FS_Bijection DEF ExistsBijection
<1> QED BY <1>1, <1>9 DEF Below

\* The columns of text give back what was written.
LEMMA ColumnsRead ==
  /\ \A role \in Role : RoleFrom(RoleTo(role)) = role
  /\ \A status \in MembershipStatus : StatusFrom(StatusTo(status)) = status
  /\ \A status \in DeviceStatus : DeviceStatusFrom(DeviceStatusTo(status)) = status
BY DEF Role, MembershipStatus, DeviceStatus, RoleFrom, RoleTo, StatusFrom, StatusTo, DeviceStatusFrom,
       DeviceStatusTo

LEMMA EmailRead ==
  ASSUME UsersOK, NEW e \in DOMAIN mem.users
  PROVE  PgEmail(pg.app_user[e]) = e
<1>1. DOMAIN pg.app_user = DOMAIN mem.users
  BY DEF UsersOK
<1>2. \A f \in DOMAIN pg.app_user : pg.app_user[f] = pg.app_user[e] <=> f = e
  BY <1>1, UsersDiffer
<1> QED BY <1>1, <1>2 DEF PgEmail

LEMMA DevicesAgree ==
  ASSUME DirInv, NEW ws
  PROVE  /\ \A id : MemDevice(ws, id) = PgDevice(ws, id)
         /\ MemListDevices(ws) = PgListDevices(ws)
<1>1. UsersOK /\ DOMAIN mem.devices = Dev /\ DOMAIN pg.device = Dev
  BY DEF DirInv, DevicesOK
<1>2. ASSUME NEW d \in Dev
      PROVE  /\ pg.device[d].workspace_id = mem.devices[d].workspace
             /\ DeviceRecord(d) =
                  [id |-> d, enrolled_by |-> mem.emails[mem.devices[d].enrolled_by],
                   pubkey |-> mem.devices[d].pubkey, status |-> mem.devices[d].status]
  <2>1. PICK row, dev : row = mem.devices[d] /\ dev = pg.device[d]
    OBVIOUS
  <2>2. SameDevice(row, dev)
    BY <2>1 DEF DirInv, DevicesOK
  <2>3. PICK e : e = mem.emails[row.enrolled_by]
    OBVIOUS
  <2>4. e \in DOMAIN mem.users
    BY <1>1, <2>2, <2>3 DEF SameDevice, UsersOK
  <2>5. /\ dev.workspace_id = row.workspace /\ dev.enrolled_by = pg.app_user[e]
        /\ dev.device_pubkey = row.pubkey /\ dev.status = DeviceStatusTo(row.status)
        /\ row.status \in DeviceStatus
    BY <2>2, <2>3 DEF SameDevice, DeviceRow
  <2>6. PgEmail(dev.enrolled_by) = e /\ DeviceStatusFrom(dev.status) = row.status
    BY <1>1, <2>4, <2>5, EmailRead, ColumnsRead
  <2> QED BY <2>1, <2>3, <2>5, <2>6 DEF DeviceRecord
<1>3. ASSUME NEW id PROVE MemDevice(ws, id) = PgDevice(ws, id)
  <2>1. {i \in DOMAIN mem.devices \cap {id} : mem.devices[i].workspace = ws}
          = {i \in DOMAIN pg.device \cap {id} : pg.device[i].workspace_id = ws}
    BY <1>1, <1>2
  <2>2. \A i \in {i \in DOMAIN pg.device \cap {id} : pg.device[i].workspace_id = ws} :
          DeviceRecord(i) = [id |-> i, enrolled_by |-> mem.emails[mem.devices[i].enrolled_by],
                             pubkey |-> mem.devices[i].pubkey, status |-> mem.devices[i].status]
    BY <1>1, <1>2
  <2> QED BY <2>1, <2>2 DEF MemDevice, PgDevice
<1>4. MemDevices(ws) = PgDevices(ws)
  BY <1>1, <1>2 DEF MemDevices, PgDevices
<1> QED BY <1>3, <1>4 DEF MemListDevices, PgListDevices

LEMMA InvitationsAgree ==
  ASSUME DirInv, NEW ws
  PROVE  /\ \A email : MemInvitation(ws, email) = PgInvitation(ws, email)
         /\ MemListInvitations(ws) = PgListInvitations(ws)
<1>1. DOMAIN pg.invitation = DOMAIN mem.invitations
  BY DEF DirInv, InvitationsOK
<1>2. ASSUME NEW k \in DOMAIN mem.invitations
      PROVE  /\ RoleFrom(pg.invitation[k].role) = mem.invitations[k].role
             /\ pg.invitation[k].accepted = mem.invitations[k].accepted
             /\ mem.invitations[k] = [role |-> mem.invitations[k].role,
                                      accepted |-> mem.invitations[k].accepted]
  <2>1. PICK i, p : i = mem.invitations[k] /\ p = pg.invitation[k]
    OBVIOUS
  <2>2. i \in [role : Role, accepted : BOOLEAN] /\ p = [role |-> RoleTo(i.role), accepted |-> i.accepted]
    BY <2>1 DEF DirInv, InvitationsOK
  <2>3. i.role \in Role /\ p.role = RoleTo(i.role)
    BY <2>2
  <2>4. p.accepted = i.accepted /\ i = [role |-> i.role, accepted |-> i.accepted]
    BY <2>2
  <2> QED BY <2>1, <2>3, <2>4, ColumnsRead
<1>3. ASSUME NEW email PROVE MemInvitation(ws, email) = PgInvitation(ws, email)
  <2>1. \A k \in DOMAIN mem.invitations \cap {<<ws, email>>} : mem.invitations[k]
          = [role |-> RoleFrom(pg.invitation[k].role), accepted |-> pg.invitation[k].accepted]
    BY <1>2
  <2> QED BY <1>1, <2>1 DEF MemInvitation, PgInvitation
<1>4. MemListInvitations(ws) = PgListInvitations(ws)
  BY <1>1, <1>2 DEF MemListInvitations, PgListInvitations
<1> QED BY <1>3, <1>4

\* What the two stores have of a member.
LEMMA MemberRows ==
  ASSUME DirInv, NEW ws \in Workspace, NEW e \in DOMAIN mem.users
  PROVE  /\ <<ws, mem.users[e]>> \in DOMAIN mem.memberships
              <=> <<ws, pg.app_user[e]>> \in DOMAIN pg.membership
         /\ <<ws, mem.users[e]>> \in DOMAIN mem.memberships =>
              mem.memberships[<<ws, mem.users[e]>>] =
                [role |-> RoleFrom(pg.membership[<<ws, pg.app_user[e]>>].role),
                 status |-> StatusFrom(pg.membership[<<ws, pg.app_user[e]>>].status)]
<1>1. PICK k, l : k = <<ws, mem.users[e]>> /\ l = <<ws, pg.app_user[e]>>
  OBVIOUS
<1>2. k \in DOMAIN mem.memberships <=> l \in DOMAIN pg.membership
  BY <1>1 DEF DirInv, MembershipsOK
<1>3. ASSUME k \in DOMAIN mem.memberships
      PROVE  mem.memberships[k] = [role |-> RoleFrom(pg.membership[l].role),
                                   status |-> StatusFrom(pg.membership[l].status)]
  <2>1. PICK m, p : m = mem.memberships[k] /\ p = pg.membership[l]
    OBVIOUS
  <2>2. /\ m \in [role : Role, status : MembershipStatus]
        /\ p = [role |-> RoleTo(m.role), status |-> StatusTo(m.status)]
    BY <1>1, <1>3, <2>1 DEF DirInv, MembershipsOK
  <2>3. /\ m = [role |-> m.role, status |-> m.status] /\ m.role \in Role /\ m.status \in MembershipStatus
        /\ p.role = RoleTo(m.role) /\ p.status = StatusTo(m.status)
    BY <2>2
  <2> QED BY <2>1, <2>3, ColumnsRead
<1> QED BY <1>1, <1>2, <1>3

\* The row of a member in the list of a workspace.
MemRow(ws, u) ==
  [at |-> Below(MemMembers(ws), u), email |-> mem.emails[u],
   role |-> mem.memberships[<<ws, u>>].role, status |-> mem.memberships[<<ws, u>>].status]
PgMemberRow(ws, u) ==
  [at |-> Below(PgMembers(ws), u), email |-> PgEmail(u),
   role |-> RoleFrom(pg.membership[<<ws, u>>].role),
   status |-> StatusFrom(pg.membership[<<ws, u>>].status)]

LEMMA MembersAgree ==
  ASSUME DirInv, NEW ws \in Workspace
  PROVE  /\ \A email \in DOMAIN mem.users :
              MemMembership(ws, mem.users[email]) = PgMembership(ws, pg.app_user[email])
         /\ MemListMembers(ws) = PgListMembers(ws)
<1>1. UsersOK /\ MembershipsOK
  BY DEF DirInv
<1>2. ASSUME NEW email \in DOMAIN mem.users
      PROVE  MemMembership(ws, mem.users[email]) = PgMembership(ws, pg.app_user[email])
  <2>1. PICK k, l : k = <<ws, mem.users[email]>> /\ l = <<ws, pg.app_user[email]>>
    OBVIOUS
  <2>2. /\ k \in DOMAIN mem.memberships <=> l \in DOMAIN pg.membership
        /\ k \in DOMAIN mem.memberships =>
             mem.memberships[k] = [role |-> RoleFrom(pg.membership[l].role),
                                   status |-> StatusFrom(pg.membership[l].status)]
    BY <2>1, MemberRows
  <2>3. MemMembership(ws, mem.users[email]) = {mem.memberships[x] : x \in DOMAIN mem.memberships \cap {k}}
    BY <2>1 DEF MemMembership
  <2>4. PgMembership(ws, pg.app_user[email]) =
          {[role |-> RoleFrom(pg.membership[x].role), status |-> StatusFrom(pg.membership[x].status)] :
             x \in DOMAIN pg.membership \cap {l}}
    BY <2>1 DEF PgMembership
  <2> QED BY <2>2, <2>3, <2>4
<1>3. PICK E : E = {e \in DOMAIN mem.users : <<ws, mem.users[e]>> \in DOMAIN mem.memberships}
  OBVIOUS
<1>4. MemMembers(ws) = {mem.users[e] : e \in E}
  <2>1. ASSUME NEW u \in MemMembers(ws) PROVE \E e \in E : u = mem.users[e]
    <3>1. PICK k \in DOMAIN mem.memberships : k[1] = ws /\ u = k[2]
      BY DEF MemMembers
    <3>2. PICK w \in Workspace, e \in DOMAIN mem.users : k = <<w, mem.users[e]>>
      BY <1>1, <3>1 DEF MembershipsOK
    <3> QED BY <1>3, <3>1, <3>2
  <2>2. ASSUME NEW e \in E PROVE mem.users[e] \in MemMembers(ws)
    <3>1. PICK k : k = <<ws, mem.users[e]>>
      OBVIOUS
    <3>2. k \in DOMAIN mem.memberships /\ k[1] = ws /\ k[2] = mem.users[e]
      BY <1>3, <3>1
    <3> QED BY <3>2 DEF MemMembers
  <2> QED BY <2>1, <2>2
<1>5. PgMembers(ws) = {pg.app_user[e] : e \in E}
  <2>1. ASSUME NEW u \in PgMembers(ws) PROVE \E e \in E : u = pg.app_user[e]
    <3>1. PICK k \in DOMAIN pg.membership : k[1] = ws /\ u = k[2]
      BY DEF PgMembers
    <3>2. PICK w \in Workspace, e \in DOMAIN mem.users : k = <<w, pg.app_user[e]>>
      BY <1>1, <3>1 DEF MembershipsOK
    <3>3. w = ws /\ u = pg.app_user[e]
      BY <3>1, <3>2
    <3> QED BY <1>3, <3>1, <3>2, <3>3, MemberRows
  <2>2. ASSUME NEW e \in E PROVE pg.app_user[e] \in PgMembers(ws)
    <3>1. PICK k : k = <<ws, pg.app_user[e]>>
      OBVIOUS
    <3>2. k \in DOMAIN pg.membership /\ k[1] = ws /\ k[2] = pg.app_user[e]
      BY <1>3, <3>1, MemberRows
    <3> QED BY <3>2 DEF PgMembers
  <2> QED BY <2>1, <2>2
<1>6. ASSUME NEW e \in E
      PROVE  Below(MemMembers(ws), mem.users[e]) = Below(PgMembers(ws), pg.app_user[e])
  <2>1. PICK f, g, F, G : f = mem.users /\ g = pg.app_user /\ F = MemMembers(ws) /\ G = PgMembers(ws)
    OBVIOUS
  <2>2. SameOrder(E, f, g)
    <3>1. \A a \in E : f[a] \in Nat /\ g[a] \in Nat
      BY <1>1, <1>3, <2>1 DEF UsersOK
    <3>2. \A a, b \in E : /\ (f[a] < f[b] <=> g[a] < g[b])
                          /\ (f[a] = f[b] <=> a = b) /\ (g[a] = g[b] <=> a = b)
      BY <1>1, <1>3, <2>1, UsersDiffer DEF UsersOK
    <3> QED BY <3>1, <3>2 DEF SameOrder
  <2>3. F = {f[a] : a \in E} /\ G = {g[a] : a \in E}
    BY <1>4, <1>5, <2>1
  <2>4. Below(F, f[e]) = Below(G, g[e])
    BY <2>2, <2>3, SamePosition
  <2> QED BY <2>1, <2>4
<1>7. ASSUME NEW e \in E PROVE MemRow(ws, mem.users[e]) = PgMemberRow(ws, pg.app_user[e])
  <2>1. e \in DOMAIN mem.users /\ <<ws, mem.users[e]>> \in DOMAIN mem.memberships
    BY <1>3
  <2>2. mem.emails[mem.users[e]] = e /\ PgEmail(pg.app_user[e]) = e
    BY <1>1, <2>1, EmailRead DEF UsersOK
  <2>3. PICK m, role, status :
          /\ m = mem.memberships[<<ws, mem.users[e]>>]
          /\ role = RoleFrom(pg.membership[<<ws, pg.app_user[e]>>].role)
          /\ status = StatusFrom(pg.membership[<<ws, pg.app_user[e]>>].status)
    OBVIOUS
  <2>4. m = [role |-> role, status |-> status]
    BY <2>1, <2>3, MemberRows
  <2>5. m.role = role /\ m.status = status
    BY <2>4
  <2> QED BY <1>6, <2>2, <2>3, <2>5 DEF MemRow, PgMemberRow
<1>8. MemListMembers(ws) = {MemRow(ws, u) : u \in MemMembers(ws)}
  BY DEF MemListMembers, MemRow, Below
<1>9. PgListMembers(ws) = {PgMemberRow(ws, u) : u \in PgMembers(ws)}
  BY DEF PgListMembers, PgMemberRow, Below
<1>10. MemListMembers(ws) = PgListMembers(ws)
  BY <1>4, <1>5, <1>7, <1>8, <1>9
<1> QED BY <1>2, <1>10

LEMMA FingerprintsAgree ==
  ASSUME DirInv, NEW fp \in DOMAIN mem.device_fingerprints
  PROVE  /\ PgByFingerprint(fp) \subseteq MemByFingerprint(fp)
         /\ PgByFingerprint(fp) = {} =>
              \E later \in DOMAIN mem.device_fingerprints :
                later > fp /\ MemByFingerprint(later) = MemByFingerprint(fp)
<1>1. FingerprintsOK /\ DOMAIN pg.device = Dev
  BY DEF DirInv, DevicesOK
<1>2. PICK n \in Nat : DOMAIN mem.device_fingerprints = 1..n
  BY <1>1 DEF FingerprintsOK
<1>3. MemByFingerprint(fp) = {mem.device_fingerprints[fp]}
  BY DEF MemByFingerprint
<1>4. PgByFingerprint(fp) \subseteq MemByFingerprint(fp)
  <2>1. fp # NoCert
    BY <1>2 DEF NoCert
  <2> QED BY <1>1, <1>3, <2>1 DEF FingerprintsOK, PgByFingerprint
<1>5. ASSUME PgByFingerprint(fp) = {}
      PROVE  \E later \in DOMAIN mem.device_fingerprints :
               later > fp /\ MemByFingerprint(later) = MemByFingerprint(fp)
  <2>1. PICK d, c : d = mem.device_fingerprints[fp] /\ c = pg.device[d].cert_fingerprint
    OBVIOUS
  <2>2. d \in Dev
    BY <1>1, <2>1 DEF FingerprintsOK
  <2>3. c \in 1..n \cup {NoCert} /\ fp <= c /\ (c # NoCert => mem.device_fingerprints[c] = d)
    BY <1>1, <1>2, <2>1, <2>2 DEF FingerprintsOK
  <2>4. c # fp
    BY <1>1, <1>5, <2>1, <2>2 DEF PgByFingerprint
  <2>5. c \in 1..n /\ c > fp /\ mem.device_fingerprints[c] = d
    BY <1>2, <2>3, <2>4 DEF NoCert
  <2>6. MemByFingerprint(c) = MemByFingerprint(fp)
    BY <1>2, <1>3, <2>1, <2>5 DEF MemByFingerprint
  <2> QED BY <1>2, <2>5, <2>6
<1> QED BY <1>4, <1>5

LEMMA InvTypes ==
  ASSUME DirInv, AuditInv
  PROVE  StoresTypeOK
<1>1. \A d \in DOMAIN mem.devices : mem.devices[d].status \in DeviceStatus
  <2> TAKE d \in DOMAIN mem.devices
  <2>1. PICK row, dev : row = mem.devices[d] /\ dev = pg.device[d]
    OBVIOUS
  <2>2. SameDevice(row, dev)
    BY <2>1 DEF DirInv, DevicesOK
  <2> QED BY <2>1, <2>2 DEF SameDevice, DeviceRow
<1>2. \A d \in DOMAIN ledger.chains : ledger.chains[d] \in Chain
  BY DEF AuditInv, TablesInv, LedgerOK
<1>3. \A d \in DOMAIN ledger.chains :
        ledger.chains[d].next_seq \in Nat \ {0} /\ ledger.chains[d].head \in ChainHash
  BY <1>2 DEF Chain
<1>4. AuxOK
  BY DEF AuditInv, TablesInv
<1> QED BY <1>1, <1>3, <1>4 DEF StoresTypeOK, AuxOK

LEMMA InvAgree ==
  ASSUME DirInv, AuditInv
  PROVE  StoresAgree
<1>1. memAudit.chains = PgLoadChains /\ memAudit.alerts = pgAudit.audit_alert
  BY ChainsHydrate DEF AuditInv, TablesInv, ShapesOK
<1>2. \A i \in DOMAIN memAudit.events :
        LET e == memAudit.events[i] IN
          /\ <<e[1], e[2]>> \in DOMAIN pgAudit.audit_event
          /\ e[1] \notin reused \cup excused => pgAudit.audit_event[<<e[1], e[2]>>] = e[3]
  BY DEF AuditInv, TablesInv, RowsOK
<1> QED BY <1>1, <1>2, InvTypes, DevicesAgree, InvitationsAgree, MembersAgree, FingerprintsAgree
        DEF StoresAgree

-----------------------------------------------------------------------------
(* The theorems. *)

\* LedgerRestorable, for any devices, overlapping requests, failing calls and
\* restarts of the gateway: what AuditStore keeps of a device at rest is its chain in
\* AuditLedger, and a row of audit_event is an event the device put in its spool.
THEOREM AuditRestorable == StoresSpec => []LedgerRestorable
<1>1. DirInv /\ AuditInv => LedgerRestorable
  BY InvRestorable
<1> QED BY <1>1, StoresInv, PTL

\* StoresAgree, for any users, workspaces, roles, statuses and devices: every query of
\* Store is answered alike by MemStore and PgStore, whatever number each of them gives
\* a user, and the chains, alerts and events of MemAuditStore are PgAuditStore's.
THEOREM OneStore == StoresSpec => []StoresAgree
<1>1. DirInv /\ AuditInv => StoresAgree
  BY InvAgree
<1> QED BY <1>1, StoresInv, PTL

=============================================================================
