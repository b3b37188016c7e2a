------------------------ MODULE DosPartitionsProofs ------------------------
(* What DosPartitions promises, for disks of any size, any number of slots   *)
(* and any numbers typed.                                                  *)
(*                                                                         *)
(* The first lemmas are about the operators of the model: what sorting       *)
(* keeps, what a chain of boot records reads as, and that one written as     *)
(* BuildChain says reads as the partitions it was built from.  Every edit    *)
(* then keeps what it needs of a table (SessionOK), whoever else writes.     *)
(* When all sessions lock the disk, one is alone with it (Alone), so how far *)
(* its write has come says what the disk holds (Written), and what the       *)
(* medium holds of it when nothing was interrupted (Settled).               *)
EXTENDS DosPartitions, FiniteSetTheorems, TLAPS

LEMMA Sizes ==
  /\ Sectors \in Nat \ {0} /\ Slots \in Nat \ {0} /\ Align \in Nat \ {0} /\ ChainLimit \in Nat \ {0}
  /\ MaxEdits \in Nat /\ MaxLosses \in Nat
  BY SizeAssumption

USE Sizes, KindAssumption

-----------------------------------------------------------------------------
(* Numbers and slots. *)

(* A set of numbers has a least one, and Least is it.                       *)
LEMMA LeastNat ==
  ASSUME NEW S \in SUBSET Nat, S # {}
  PROVE  Least(S) \in S /\ \A y \in S : Least(S) <= y
<1>1. PICK x \in S : \A y \in S : <<y, x>> \notin OpToRel(<, Nat)
  BY WFMin, NatLessThanWellFounded, S \subseteq Nat, Zenon
<1>2. \A y \in S : ~ (y < x)
  BY <1>1, Zenon DEF OpToRel
<1>3. \A y \in S : x <= y
  BY <1>2
<1> QED
  BY <1>3 DEF Least

(* The extended partition of a table is one of its partitions.              *)
LEMMA ContainerFacts ==
  ASSUME NEW p \in [Slot -> Partition], FindExtended(p) # {}
  PROVE  /\ Least(FindExtended(p)) \in FindExtended(p)
         /\ Least(FindExtended(p)) \in Slot
         /\ Container(p) = p[Least(FindExtended(p))]
         /\ Container(p) \in Partition
         /\ Container(p).size # 0
         /\ Container(p).kind = Extended
         /\ End(Container(p)) \in Nat
<1>1. FindExtended(p) \in SUBSET Nat
  BY DEF FindExtended, Used, Slot
<1>2. Least(FindExtended(p)) \in FindExtended(p)
  BY <1>1, LeastNat
<1> QED
  BY <1>2 DEF FindExtended, Used, Container, Partition, End

LEMMA UsedFinite ==
  ASSUME NEW p
  PROVE  IsFiniteSet(Used(p))
<1>1. IsFiniteSet(Slot)
  BY FS_Interval DEF Slot
<1> QED
  BY <1>1, FS_Subset DEF Used

-----------------------------------------------------------------------------
(* Sorting. *)

Ahead(p, i) ==
  {j \in Used(p) : p[j].start < p[i].start \/ (p[j].start = p[i].start /\ j < i)}

(* Sorting gives every partition a slot of its own.                         *)
LEMMA PlaceFacts ==
  ASSUME NEW p \in [Slot -> Partition]
  PROVE  /\ \A i \in Used(p) : Place(p, i) \in Slot
         /\ \A i, j \in Used(p) : Place(p, i) = Place(p, j) => i = j
<1>1. ASSUME NEW i \in Used(p)
      PROVE  IsFiniteSet(Ahead(p, i)) /\ Place(p, i) = 1 + Cardinality(Ahead(p, i))
             /\ Cardinality(Ahead(p, i)) \in Nat
  <2>1. Ahead(p, i) \in SUBSET Used(p)
    BY DEF Ahead
  <2>2. IsFiniteSet(Ahead(p, i))
    BY <2>1, UsedFinite, FS_Subset
  <2> QED
    BY <2>2, FS_CardinalityType DEF Place, Ahead
<1>2. ASSUME NEW i \in Used(p), NEW j \in Used(p), i \in Ahead(p, j)
      PROVE  Cardinality(Ahead(p, i)) < Cardinality(Ahead(p, j))
  <2>1. i \in Slot /\ j \in Slot /\ Slot \subseteq Nat
    BY DEF Used, Slot
  <2>2. \A k \in Slot : p[k].start \in Nat
    BY DEF Partition
  <2>3. ASSUME NEW k \in Ahead(p, i) PROVE k \in Ahead(p, j)
    <3>1. k \in Used(p) /\ k \in Slot
      BY DEF Ahead, Used
    <3>2. p[k].start \in Nat /\ p[i].start \in Nat /\ p[j].start \in Nat /\ {i, j, k} \subseteq Nat
      BY <2>1, <2>2, <3>1
    <3>3. p[k].start < p[i].start \/ (p[k].start = p[i].start /\ k < i)
      BY DEF Ahead
    <3>4. p[i].start < p[j].start \/ (p[i].start = p[j].start /\ i < j)
      BY <1>2 DEF Ahead
    <3>5. p[k].start < p[j].start \/ (p[k].start = p[j].start /\ k < j)
      BY <3>2, <3>3, <3>4
    <3> QED
      BY <3>1, <3>5 DEF Ahead
  <2>4. i \notin Ahead(p, i)
    BY <2>1, <2>2 DEF Ahead
  <2> QED
    BY <1>1, <1>2, <2>3, <2>4, FS_Subset, Ahead(p, i) \in SUBSET Ahead(p, j)
<1>3. ASSUME NEW i \in Used(p) PROVE Place(p, i) \in Slot
  <2>1. Ahead(p, i) \in SUBSET (Slot \ {i})
    BY DEF Ahead, Used, Slot, Partition
  <2>2. IsFiniteSet(Slot) /\ Cardinality(Slot) = Slots
    BY FS_Interval DEF Slot
  <2>3. IsFiniteSet(Slot \ {i}) /\ Cardinality(Slot \ {i}) = Slots - 1
    BY <2>2, FS_RemoveElement DEF Used
  <2>4. Cardinality(Ahead(p, i)) <= Slots - 1
    BY <2>1, <2>3, FS_Subset
  <2> QED
    BY <1>1, <2>4 DEF Slot
<1>4. ASSUME NEW i \in Used(p), NEW j \in Used(p), i # j
      PROVE  i \in Ahead(p, j) \/ j \in Ahead(p, i)
  BY <1>4 DEF Ahead, Used, Slot, Partition
<1> QED
  BY <1>1, <1>2, <1>3, <1>4

(* A sorted table has the partitions of the table it was made from.         *)
LEMMA SortedFacts ==
  ASSUME NEW p \in [Slot -> Partition]
  PROVE  /\ Sorted(p) \in [Slot -> Partition]
         /\ \A j \in Used(p) : Place(p, j) \in Used(Sorted(p)) /\ Sorted(p)[Place(p, j)] = p[j]
         /\ \A i \in Used(Sorted(p)) : \E j \in Used(p) : Place(p, j) = i /\ Sorted(p)[i] = p[j]
<1>1. \A i \in Slot : (\E j \in Used(p) : Place(p, j) = i) =>
        \E j \in Used(p) : Place(p, j) = i /\ Sorted(p)[i] = p[j]
  BY DEF Sorted
<1>2. \A i \in Slot : ~ (\E j \in Used(p) : Place(p, j) = i) => Sorted(p)[i] = NoPartition
  BY DEF Sorted
<1>3. NoPartition \in Partition /\ NoPartition.size = 0
  BY DEF NoPartition, Partition
<1>4. Sorted(p) = [i \in Slot |-> Sorted(p)[i]]
  BY DEF Sorted
<1>5. ASSUME NEW i \in Slot PROVE Sorted(p)[i] \in Partition
  BY <1>1, <1>2, <1>3 DEF Used
<1>6. ASSUME NEW j \in Used(p)
      PROVE  Place(p, j) \in Used(Sorted(p)) /\ Sorted(p)[Place(p, j)] = p[j]
  <2>1. Place(p, j) \in Slot
    BY PlaceFacts
  <2>2. PICK k \in Used(p) : Place(p, k) = Place(p, j) /\ Sorted(p)[Place(p, j)] = p[k]
    BY <1>1, <2>1
  <2>3. k = j
    BY <2>2, PlaceFacts
  <2> QED
    BY <2>1, <2>2, <2>3 DEF Used
<1>7. ASSUME NEW i \in Used(Sorted(p))
      PROVE  \E j \in Used(p) : Place(p, j) = i /\ Sorted(p)[i] = p[j]
  BY <1>1, <1>2, <1>3 DEF Used
<1> QED
  BY <1>4, <1>5, <1>6, <1>7

(* Sorting keeps a table without overlaps such, with the same extended      *)
(* partition.                                                              *)
LEMMA SortedSound ==
  ASSUME NEW p \in [Slot -> Partition]
  PROVE  /\ FindExtended(p) = {} <=> FindExtended(Sorted(p)) = {}
         /\ ValidPrimaries(p) => ValidPrimaries(Sorted(p))
         /\ ValidPrimaries(p) /\ FindExtended(p) # {} => Container(Sorted(p)) = Container(p)
<1> DEFINE q == Sorted(p)
<1>1. /\ q \in [Slot -> Partition]
      /\ \A j \in Used(p) : Place(p, j) \in Used(q) /\ q[Place(p, j)] = p[j]
      /\ \A i \in Used(q) : \E j \in Used(p) : Place(p, j) = i /\ q[i] = p[j]
  BY SortedFacts
<1>2. FindExtended(p) = {} <=> FindExtended(q) = {}
  BY <1>1 DEF FindExtended
<1>3. ASSUME ValidPrimaries(p) PROVE ValidPrimaries(q)
  <2>1. \A i \in Used(q) : q[i].start # 0 /\ q[i].kind # NoKind /\ End(q[i]) <= Sectors
    BY <1>1, <1>3 DEF ValidPrimaries
  <2>2. \A i, j \in FindExtended(q) : i = j
    BY <1>1, <1>3 DEF ValidPrimaries, FindExtended
  <2>3. \A i, j \in Used(q) : i # j => ~ Overlap(q[i].start, End(q[i]), q[j].start, End(q[j]))
    BY <1>1, <1>3 DEF ValidPrimaries
  <2> QED
    BY <2>1, <2>2, <2>3 DEF ValidPrimaries
<1>4. ASSUME ValidPrimaries(p), FindExtended(p) # {} PROVE Container(q) = Container(p)
  <2>1. Least(FindExtended(p)) \in FindExtended(p) /\ Container(p) = p[Least(FindExtended(p))]
    BY <1>4, ContainerFacts
  <2>2. Least(FindExtended(q)) \in FindExtended(q) /\ Container(q) = q[Least(FindExtended(q))]
    BY <1>1, <1>2, <1>4, ContainerFacts
  <2>3. PICK j \in Used(p) : q[Least(FindExtended(q))] = p[j]
    BY <1>1, <2>2 DEF FindExtended
  <2>4. j \in FindExtended(p)
    BY <2>2, <2>3 DEF FindExtended
  <2> QED
    BY <1>4, <2>1, <2>2, <2>3, <2>4 DEF ValidPrimaries
<1> QED
  BY <1>2, <1>3, <1>4

-----------------------------------------------------------------------------
(* Reading a chain. *)

LEMMA InsideFacts ==
  ASSUME NEW e \in Partition, e.start # 0
  PROVE  /\ Inside(e) \subseteq LBA \ {0}
         /\ Inside(e) \subseteq Nat
         /\ \A S \in SUBSET Inside(e) : IsFiniteSet(S)
<1>1. Inside(e) \subseteq LBA \ {0} /\ Inside(e) \subseteq Nat
  BY DEF Inside, LBA, Partition
<1>2. IsFiniteSet(LBA)
  BY FS_Interval DEF LBA
<1>3. IsFiniteSet(Inside(e))
  BY <1>2, FS_Subset DEF Inside
<1> QED
  BY <1>1, <1>3, FS_Subset

(* A chain reads as one finite set of partitions, or not at all.            *)
LEMMA ReadChainFacts ==
  ASSUME NEW d, IsDisk(d), NEW e \in Partition, e.start # 0,
         NEW L \in ReadChain(d, e)
  PROVE  ReadChain(d, e) = {L} /\ L \subseteq Logical /\ IsFiniteSet(L)
<1> DEFINE D == {ebr \in Walk(d, e) : Describes(d, ebr)}
<1>1. L = {Own(d, ebr) : ebr \in D} /\ ReadChain(d, e) = {L}
  BY DEF ReadChain
<1>2. D \in SUBSET Inside(e)
  BY DEF Walk
<1>3. \A ebr \in D : ebr \in Nat /\ d[ebr] \in Record
  BY <1>2, InsideFacts DEF IsDisk
<1>4. L \subseteq Logical
  <2>1. ASSUME NEW ebr \in D PROVE Own(d, ebr) \in Logical
    <3>1. ebr \in Nat /\ d[ebr].partition \in Partition
      BY <1>3 DEF Record
    <3> QED
      BY <3>1 DEF Own, Logical, Partition
  <2> QED
    BY <1>1, <2>1
<1>5. IsFiniteSet(D)
  BY <1>2, InsideFacts
<1>6. [ebr \in D |-> Own(d, ebr)] \in Surjection(D, L)
  BY <1>1 DEF Surjection
<1> QED
  BY <1>1, <1>4, <1>5, <1>6, FS_Surjection

(* A disk reads as one table or not at all, and a table without an extended *)
(* partition has no logical ones.                                          *)
LEMMA ReadTableFacts ==
  ASSUME NEW d, IsDisk(d), NEW t \in ReadTable(d)
  PROVE  /\ ReadTable(d) = {t}
         /\ t = [parts |-> d[0], logical |-> t.logical]
         /\ t.logical \subseteq Logical /\ IsFiniteSet(t.logical)
         /\ FindExtended(d[0]) = {} => t.logical = {}
<1>1. CASE FindExtended(d[0]) = {}
  BY <1>1, FS_EmptySet DEF ReadTable
<1>2. CASE FindExtended(d[0]) # {}
  <2>1. Container(d[0]) \in Partition /\ Container(d[0]).start # 0
    BY <1>2, ContainerFacts DEF IsDisk
  <2>2. ReadTable(d) = {[parts |-> d[0], logical |-> l] : l \in ReadChain(d, Container(d[0]))}
    BY <1>2 DEF ReadTable
  <2>3. PICK l \in ReadChain(d, Container(d[0])) : t = [parts |-> d[0], logical |-> l]
    BY <2>2
  <2>4. ReadChain(d, Container(d[0])) = {l} /\ l \subseteq Logical /\ IsFiniteSet(l)
    BY <2>1, <2>3, ReadChainFacts
  <2> QED
    BY <1>2, <2>2, <2>3, <2>4
<1> QED
  BY <1>1, <1>2

-----------------------------------------------------------------------------
(* Writing a chain. *)

(* The partitions of a container without overlaps, in order, are their       *)
(* records in order.                                                       *)
LEMMA RecordsInOrder ==
  ASSUME NEW e \in Partition, NEW L \in SUBSET Logical, ValidLogical(e, L)
  PROVE  /\ \A l \in L : l.ebrLBA < l.start /\ l.start < End(l) /\ l.ebrLBA \in Nat /\ l.start \in Nat
         /\ \A l, m \in L : l # m => End(l) <= m.ebrLBA \/ End(m) <= l.ebrLBA
         /\ \A l, m \in L : l.ebrLBA < m.ebrLBA <=> l.start < m.start
         /\ \A l, m \in L : l.ebrLBA = m.ebrLBA => l = m
<1>1. \A l \in L : /\ l.ebrLBA < l.start /\ l.start < End(l) /\ l.ebrLBA \in Nat /\ l.start \in Nat
                   /\ End(l) \in Nat
  BY DEF ValidLogical, Logical, End
<1>2. \A l, m \in L : l # m => End(l) <= m.ebrLBA \/ End(m) <= l.ebrLBA
  BY <1>1 DEF ValidLogical, Overlap
<1>3. \A l, m \in L : l.ebrLBA < m.ebrLBA <=> l.start < m.start
  <2> SUFFICES ASSUME NEW l \in L, NEW m \in L PROVE l.ebrLBA < m.ebrLBA <=> l.start < m.start
    OBVIOUS
  <2> QED
    BY <1>1, <1>2
<1>4. \A l, m \in L : l.ebrLBA = m.ebrLBA => l = m
  BY <1>1, <1>2
<1> QED
  BY <1>1, <1>2, <1>3, <1>4

(* Where the link of a record leads: to the record of the next partition.   *)
LEMMA LinkFacts ==
  ASSUME NEW e \in Partition, NEW L \in SUBSET Logical, ValidLogical(e, L), NEW l \in L
  PROVE  LET link == LinkFrom(e.start, L, l)
         IN  /\ link \in Nat
             /\ (\A m \in L : m.start <= l.start) => link = 0
             /\ (\E m \in L : m.start > l.start) =>
                  /\ link # 0
                  /\ \E m \in L : /\ m.start > l.start /\ e.start + link = m.ebrLBA
                                  /\ \A k \in L : k.start > l.start => m.start <= k.start
<1> DEFINE later == {m \in L : m.start > l.start}
           starts == {m.start : m \in later}
           first == CHOOSE m \in later : \A k \in later : m.start <= k.start
<1>1. \A m \in L : m.ebrLBA < m.start /\ m.ebrLBA \in Nat /\ m.start \in Nat
  BY RecordsInOrder
<1>2. CASE later = {}
  <2>1. LinkFrom(e.start, L, l) = 0
    BY <1>2 DEF LinkFrom
  <2> QED
    BY <1>2, <2>1
<1>3. CASE later # {}
  <2>1. starts \in SUBSET Nat /\ starts # {}
    BY <1>1, <1>3
  <2>2. Least(starts) \in starts /\ \A y \in starts : Least(starts) <= y
    BY <2>1, LeastNat
  <2>8. PICK m \in later : \A k \in later : m.start <= k.start
    BY <2>2
  <2>3. first \in later /\ \A k \in later : first.start <= k.start
    BY <2>8
  <2>4. LinkFrom(e.start, L, l) = first.ebrLBA - e.start
    BY <1>3 DEF LinkFrom
  <2>5. l.ebrLBA < first.ebrLBA
    BY <2>3, RecordsInOrder
  <2>6. l.ebrLBA >= e.start /\ e.start \in Nat
    BY DEF ValidLogical, Partition
  <2>7. first.ebrLBA \in Nat /\ l.ebrLBA \in Nat
    BY <1>1, <2>3
  <2>9. first \in L /\ first.start > l.start /\ \A k \in L : k.start > l.start => first.start <= k.start
    BY <2>3
  <2>10. LinkFrom(e.start, L, l) \in Nat \ {0} /\ e.start + LinkFrom(e.start, L, l) = first.ebrLBA
    BY <2>4, <2>5, <2>6, <2>7
  <2>11. first.start \in Nat /\ l.start \in Nat
    BY <1>1, <2>9
  <2> QED
    BY <2>9, <2>10, <2>11
<1> QED
  BY <1>2, <1>3

(* A chain written as BuildChain says, from the first sector of the          *)
(* container, reads as the partitions it was built from.                    *)
LEMMA ChainReadsBack ==
  ASSUME NEW d, NEW e \in Partition, e.start # 0, End(e) <= Sectors,
         NEW L \in SUBSET Logical, IsFiniteSet(L), ValidLogical(e, L),
         \E l \in L : l.ebrLBA = e.start, Cardinality(L) <= ChainLimit,
         \A w \in BuildChain(e, L) : d[w.lba] = w.record
  PROVE  ReadChain(d, e) = {L}
<1> DEFINE E == {l.ebrLBA : l \in L}
<1>1. /\ \A l \in L : l.ebrLBA < l.start /\ l.start < End(l) /\ l.ebrLBA \in Nat /\ l.start \in Nat
      /\ \A l, m \in L : l.ebrLBA < m.ebrLBA <=> l.start < m.start
      /\ \A l, m \in L : l.ebrLBA = m.ebrLBA => l = m
  BY RecordsInOrder
<1>2. \A l, m \in L : l.start = m.start => l = m
  BY <1>1
<1>3. ASSUME NEW l \in L
      PROVE  /\ d[l.ebrLBA].partition = [start |-> l.start - l.ebrLBA, size |-> l.size,
                                         kind |-> l.kind, boot |-> l.boot]
             /\ d[l.ebrLBA].link = LinkFrom(e.start, L, l)
  <2>1. RecordOf(l, l.start - l.ebrLBA, LinkFrom(e.start, L, l)) \in BuildChain(e, L)
    BY DEF BuildChain
  <2> QED
    BY <2>1 DEF RecordOf
<1>4. ASSUME NEW l \in L
      PROVE  Describes(d, l.ebrLBA) /\ Own(d, l.ebrLBA) = l /\ d[l.ebrLBA] # NoRecord
  <2>1. l.size # 0
    BY DEF ValidLogical
  <2> DEFINE own == [start |-> l.start - l.ebrLBA, size |-> l.size, kind |-> l.kind, boot |-> l.boot]
  <2>6. d[l.ebrLBA].partition = own
    BY <1>3
  <2>2. /\ d[l.ebrLBA].partition.size = l.size /\ d[l.ebrLBA].partition.start = l.start - l.ebrLBA
        /\ d[l.ebrLBA].partition.kind = l.kind /\ d[l.ebrLBA].partition.boot = l.boot
    BY <2>6
  <2>3. d[l.ebrLBA] # NoRecord
    BY <2>1, <2>2 DEF NoRecord, NoPartition
  <2>4. l.ebrLBA + (l.start - l.ebrLBA) = l.start
    BY <1>1
  <2>5. l = [start |-> l.start, size |-> l.size, kind |-> l.kind, boot |-> l.boot, ebrLBA |-> l.ebrLBA]
    BY DEF Logical
  <2> QED
    BY <2>1, <2>2, <2>3, <2>4, <2>5 DEF Describes, Own
<1>5. ASSUME NEW l \in L, \A m \in L : m.start <= l.start
      PROVE  After(d, e, l.ebrLBA) = {}
  BY <1>3, <1>5, LinkFacts DEF After
<1>6. ASSUME NEW l \in L, \E m \in L : m.start > l.start
      PROVE  \E m \in L : /\ After(d, e, l.ebrLBA) = {m.ebrLBA} /\ m.start > l.start
                          /\ \A k \in L : k.start > l.start => m.start <= k.start
  <2>1. LinkFrom(e.start, L, l) # 0
    BY <1>6, LinkFacts
  <2>2. After(d, e, l.ebrLBA) = {e.start + LinkFrom(e.start, L, l)}
    BY <1>3, <1>4, <2>1 DEF After
  <2> QED
    BY <1>6, <2>2, LinkFacts
<1>7. E \in SUBSET Inside(e)
  <2>1. ASSUME NEW l \in L PROVE l.ebrLBA \in Inside(e)
    <3>1. l.ebrLBA >= e.start /\ l.ebrLBA < l.start /\ End(l) <= End(e)
      BY DEF ValidLogical
    <3>2. e.start \in Nat /\ End(e) \in Nat /\ End(l) \in Nat
      BY DEF Partition, Logical, End
    <3> QED
      BY <1>1, <3>1, <3>2 DEF Inside, LBA
  <2> QED
    BY <2>1
<1>8. \A l \in L : \A next \in After(d, e, l.ebrLBA) : next \in E /\ next > l.ebrLBA
  <2> SUFFICES ASSUME NEW l \in L, NEW next \in After(d, e, l.ebrLBA)
               PROVE  next \in E /\ next > l.ebrLBA
    OBVIOUS
  <2>1. PICK m \in L : next = m.ebrLBA /\ m.start > l.start
    BY <1>1, <1>5, <1>6
  <2> QED
    BY <1>1, <2>1
<1>9. Walk(d, e) \subseteq E
  BY <1>7, <1>8 DEF Walk
<1>10. ASSUME NEW W \in SUBSET Inside(e), e.start \in W,
              \A w \in W : After(d, e, w) \cap Inside(e) \subseteq W,
              NEW bad \in L, bad.ebrLBA \notin W
       PROVE  FALSE
  <2> DEFINE starts == {l.start : l \in {k \in L : k.ebrLBA \notin W}}
  <2>1. starts \in SUBSET Nat /\ starts # {}
    BY <1>1, <1>10
  <2>12. Least(starts) \in starts /\ \A y \in starts : Least(starts) <= y
    BY <2>1, LeastNat
  <2>2. PICK l \in L : l.ebrLBA \notin W /\ \A k \in L : k.ebrLBA \notin W => l.start <= k.start
    BY <2>12
  <2>3. PICK f \in L : f.ebrLBA = e.start
    OBVIOUS
  <2>4. f.start < l.start
    <3>1. f.ebrLBA # l.ebrLBA /\ l.ebrLBA >= e.start
      BY <1>10, <2>2, <2>3 DEF ValidLogical
    <3> QED
      BY <1>1, <2>3, <3>1
  <2> DEFINE gaps == {l.start - k.start : k \in {m \in L : m.start < l.start}}
  <2>5. gaps \in SUBSET Nat /\ gaps # {}
    BY <1>1, <2>4
  <2>6. Least(gaps) \in gaps /\ \A g \in gaps : Least(gaps) <= g
    BY <2>5, LeastNat
  <2>7. PICK k \in L : k.start < l.start /\ \A m \in L : m.start < l.start => l.start - k.start <= l.start - m.start
    <3>1. PICK k \in L : k.start < l.start /\ Least(gaps) = l.start - k.start
      BY <2>6
    <3>2. \A m \in L : m.start < l.start => l.start - m.start \in gaps
      OBVIOUS
    <3> QED
      BY <2>6, <3>1, <3>2
  <2>8. k.ebrLBA \in W
    BY <1>1, <2>2, <2>7
  <2>9. PICK m \in L : /\ After(d, e, k.ebrLBA) = {m.ebrLBA} /\ m.start > k.start
                       /\ \A j \in L : j.start > k.start => m.start <= j.start
    BY <1>1, <1>6, <2>7
  <2>10. m.start = l.start
    <3>1. m.start <= l.start
      BY <1>1, <2>7, <2>9
    <3>2. ~ (m.start < l.start)
      BY <1>1, <2>7, <2>9
    <3> QED
      BY <1>1, <3>1, <3>2
  <2>11. l.ebrLBA \in W
    BY <1>2, <1>7, <1>10, <2>8, <2>9, <2>10
  <2> QED
    BY <2>2, <2>11
<1>11. Walk(d, e) = E
  <2>1. E \subseteq Walk(d, e)
    BY <1>7, <1>10 DEF Walk
  <2> QED
    BY <1>9, <2>1
<1>12. Cardinality(E) <= ChainLimit
  <2>1. [l \in L |-> l.ebrLBA] \in Surjection(L, E)
    BY DEF Surjection
  <2>2. IsFiniteSet(E) /\ Cardinality(E) <= Cardinality(L)
    BY <2>1, FS_Surjection
  <2> QED
    BY <2>2, FS_CardinalityType
<1>13. \A ebr \in E : /\ Describes(d, ebr) /\ Own(d, ebr) \in L
                      /\ End(Own(d, ebr)) <= End(e)
                      /\ \A next \in After(d, e, ebr) : next \in Inside(e) /\ next > ebr
  BY <1>4, <1>7, <1>8 DEF ValidLogical
<1>14. {Own(d, ebr) : ebr \in {x \in E : Describes(d, x)}} = L
  BY <1>4
<1>15. e.start \in Inside(e)
  BY <1>7
<1> QED
  BY <1>11, <1>12, <1>13, <1>14, <1>15 DEF ReadChain

-----------------------------------------------------------------------------
(* A session's table. *)

Tables == [parts : [Slot -> Partition], logical : SUBSET Logical]
Writes == [lba : LBA \ {0}, record : Record]
SessionSet ==
  [st : Steps, parts : [Slot -> Partition], logical : SUBSET Logical, selected : Nat,
   dirty : BOOLEAN, sector : [Slot -> Partition], base : SUBSET Tables, todo : SUBSET Writes]

Chain(m) == IF FindExtended(m.parts) = {} THEN {} ELSE BuildChain(Container(m.parts), m.logical)

(* What a session knows of its table: one that may be written was checked    *)
(* and has not been changed since.                                         *)
SessionOK(m) ==
  /\ m \in SessionSet
  /\ IsFiniteSet(m.logical)
  /\ FindExtended(m.parts) = {} => m.logical = {}
  /\ m.todo # {} <=> m.st = "records"
  /\ m.st \in {"asked"} \cup Writing => Valid(m.parts, m.logical) /\ m.dirty
  /\ m.todo \subseteq Chain(m)

(* A table m was edited to n.                                               *)
Edits(m, n) ==
  /\ SessionOK(n)
  /\ n.st = "editing" /\ n.dirty
  /\ n.sector = m.sector /\ n.base = m.base
  /\ Sound(m) => Sound(n)

Edited(m, parts, logical, selected) ==
  [m EXCEPT !.parts = parts, !.logical = logical, !.selected = selected, !.dirty = TRUE]

(* What is left to show of every edit.                                      *)
LEMMA EditsTable ==
  ASSUME NEW m, SessionOK(m), m.st = "editing",
         NEW parts \in [Slot -> Partition], NEW logical \in SUBSET Logical, NEW selected \in Nat,
         IsFiniteSet(logical),
         FindExtended(parts) = {} => logical = {},
         Sound(m) => Valid(parts, logical)
  PROVE  Edits(m, Edited(m, parts, logical, selected))
<1> DEFINE n == Edited(m, parts, logical, selected)
<1>1. m \in SessionSet
  BY DEF SessionOK
<1>2. /\ n \in SessionSet
      /\ n.st = "editing" /\ n.parts = parts /\ n.logical = logical /\ n.dirty = TRUE
      /\ n.sector = m.sector /\ n.base = m.base /\ n.todo = m.todo
  BY <1>1 DEF Edited, SessionSet
<1>3. m.todo = {}
  BY DEF SessionOK
<1>4. SessionOK(n)
  BY <1>2, <1>3 DEF SessionOK, Writing
<1> QED
  BY <1>2, <1>4 DEF Edits, Sound

(* Only where a container begins and ends matters to its partitions.        *)
LEMMA SameExtent ==
  ASSUME NEW e, NEW f, e.start = f.start, e.size = f.size, NEW L, ValidLogical(e, L)
  PROVE  ValidLogical(f, L)
  BY DEF ValidLogical, End

LEMMA NoneValid == \A e : ValidLogical(e, {})
  BY DEF ValidLogical

LEMMA RowNat ==
  ASSUME NEW m, SessionOK(m)
  PROVE  /\ Rows(m) \in Nat /\ Rows(m) >= Slots
         /\ Row(m) \in Nat
         /\ ~ OnPrimary(m) => FindExtended(m.parts) # {}
<1>1. m.selected \in Nat
  BY DEF SessionOK, SessionSet
<1>2. Cardinality(m.logical) \in Nat
  BY FS_CardinalityType DEF SessionOK
<1>3. Rows(m) \in Nat /\ Rows(m) >= Slots
  BY <1>2 DEF Rows
<1>4. FindExtended(m.parts) = {} => Rows(m) = Slots
  BY DEF Rows
<1> QED
  BY <1>1, <1>3, <1>4 DEF Row, OnPrimary

(* n on a primary row.                                                      *)
LEMMA NewPrimaryEdits ==
  ASSUME NEW m, SessionOK(m), m.st = "editing", OnPrimary(m), Chosen(m) <= Slots,
         NEW slot \in Vacant(m), NEW start \in 1 .. Sectors, NEW size \in 1 .. Sectors,
         NEW q, q = [m.parts EXCEPT ![slot] = [start |-> start, size |-> size,
                                               kind |-> NewKind, boot |-> FALSE]],
         ValidPrimaries(q)
  PROVE  Edits(m, Edited(m, q, m.logical, slot - 1))
<1>1. /\ m.parts \in [Slot -> Partition] /\ m.logical \in SUBSET Logical /\ m.selected \in Nat
      /\ IsFiniteSet(m.logical) /\ (FindExtended(m.parts) = {} => m.logical = {})
  BY DEF SessionOK, SessionSet
<1>2. slot \in Slot /\ slot \notin Used(m.parts)
  BY <1>1 DEF Vacant, Chosen, Slot
<1>3. NewKind \in Kinds
  BY DEF NewKind
<1>4. q \in [Slot -> Partition]
  BY <1>1, <1>2, <1>3 DEF Partition
<1>5. FindExtended(q) = FindExtended(m.parts)
  BY <1>1, <1>2, <1>3 DEF FindExtended, Used
<1>6. FindExtended(q) # {} => Container(q) = Container(m.parts)
  BY <1>1, <1>2, <1>5, ContainerFacts DEF Container, FindExtended
<1>7. slot - 1 \in Nat
  BY <1>2 DEF Slot
<1>8. Sound(m) => Valid(q, m.logical)
  BY <1>5, <1>6 DEF Sound, Valid
<1> QED
  BY <1>1, <1>4, <1>5, <1>7, <1>8, EditsTable

(* n in the free space of the container.                                    *)
LEMMA NewLogicalEdits ==
  ASSUME NEW m, SessionOK(m), m.st = "editing", ~ OnPrimary(m),
         NEW r \in FreeRegions(Container(m.parts), m.logical), NEW size \in 1 .. Sectors,
         NEW start \in r[1] + 1 .. r[2] - 1,
         NEW l, l = [start |-> start, size |-> size, kind |-> NewKind, boot |-> FALSE,
                     ebrLBA |-> r[1]],
         ValidLogical(Container(m.parts), m.logical \cup {l})
  PROVE  Edits(m, Edited(m, m.parts, m.logical \cup {l},
                         Slots + Cardinality({x \in m.logical : x.start < start})))
<1>1. /\ m.parts \in [Slot -> Partition] /\ m.logical \in SUBSET Logical
      /\ IsFiniteSet(m.logical)
  BY DEF SessionOK, SessionSet
<1>2. FindExtended(m.parts) # {}
  BY RowNat
<1>3. Container(m.parts) \in Partition
  BY <1>1, <1>2, ContainerFacts
<1> DEFINE records == {k.ebrLBA : k \in m.logical}
<1>10. \/ r = <<Container(m.parts).start, IF records = {} THEN End(Container(m.parts)) ELSE Least(records)>>
       \/ \E k \in m.logical :
            r = <<End(k), IF {x \in records : x > k.ebrLBA} = {} THEN End(Container(m.parts))
                          ELSE Least({x \in records : x > k.ebrLBA})>>
  BY Zenon DEF FreeRegions
<1>4. r[1] \in Nat
  <2>3. \A a, b : r = <<a, b>> => r[1] = a
    OBVIOUS
  <2>1. r[1] = Container(m.parts).start \/ \E k \in m.logical : r[1] = End(k)
    BY <1>10, <2>3, Zenon
  <2>2. \A k \in m.logical : End(k) \in Nat
    BY <1>1 DEF Logical, End
  <2> QED
    BY <1>3, <2>1, <2>2 DEF Partition
<1>5. r[2] \in Nat
  <2>1. End(Container(m.parts)) \in Nat
    BY <1>3 DEF Partition, End
  <2>2. \A later \in SUBSET records : later # {} => Least(later) \in Nat
    <3> SUFFICES ASSUME NEW later \in SUBSET records, later # {} PROVE Least(later) \in Nat
      OBVIOUS
    <3>1. later \in SUBSET Nat
      BY <1>1 DEF Logical
    <3> QED
      BY <3>1, LeastNat
  <2>3. \E later \in SUBSET records : r[2] = IF later = {} THEN End(Container(m.parts)) ELSE Least(later)
    <3>1. CASE r = <<Container(m.parts).start, IF records = {} THEN End(Container(m.parts)) ELSE Least(records)>>
      BY <3>1
    <3>2. ASSUME NEW k \in m.logical,
                 r = <<End(k), IF {x \in records : x > k.ebrLBA} = {} THEN End(Container(m.parts))
                               ELSE Least({x \in records : x > k.ebrLBA})>>
          PROVE  \E later \in SUBSET records : r[2] = IF later = {} THEN End(Container(m.parts)) ELSE Least(later)
      <4>1. {x \in records : x > k.ebrLBA} \in SUBSET records
        OBVIOUS
      <4> QED
        BY <3>2, <4>1
    <3> QED
      BY <1>10, <3>1, <3>2
  <2> QED
    BY <2>1, <2>2, <2>3
<1>6. l \in Logical
  <2>1. NewKind \in Kinds
    BY DEF NewKind
  <2>2. start \in Nat
    BY <1>4, <1>5
  <2> QED
    BY <1>4, <2>1, <2>2 DEF Logical
<1>7. IsFiniteSet(m.logical \cup {l})
  BY <1>1, FS_AddElement
<1>8. Slots + Cardinality({x \in m.logical : x.start < start}) \in Nat
  <2>1. IsFiniteSet({x \in m.logical : x.start < start})
    BY <1>1, FS_Subset
  <2> QED
    BY <2>1, FS_CardinalityType
<1>9. Sound(m) => Valid(m.parts, m.logical \cup {l})
  BY DEF Sound, Valid
<1> QED
  BY <1>1, <1>2, <1>6, <1>7, <1>8, <1>9, EditsTable

(* d on a primary row.                                                      *)
LEMMA DeletePrimaryEdits ==
  ASSUME NEW m, SessionOK(m), m.st = "editing", NEW i \in Used(m.parts),
         NEW L, L = IF m.parts[i].kind = Extended THEN {} ELSE m.logical
  PROVE  Edits(m, Edited(m, [m.parts EXCEPT ![i] = NoPartition], L, m.selected))
<1> DEFINE q == [m.parts EXCEPT ![i] = NoPartition]
<1>1. /\ m.parts \in [Slot -> Partition] /\ m.logical \in SUBSET Logical /\ m.selected \in Nat
      /\ IsFiniteSet(m.logical) /\ (FindExtended(m.parts) = {} => m.logical = {})
  BY DEF SessionOK, SessionSet
<1>2. q \in [Slot -> Partition] /\ i \in Slot /\ NoPartition.size = 0
  BY <1>1 DEF Partition, NoPartition, Used
<1>3. Used(q) = Used(m.parts) \ {i} /\ \A j \in Used(q) : q[j] = m.parts[j]
  BY <1>1, <1>2 DEF Used
<1>4. FindExtended(q) = FindExtended(m.parts) \ {i}
  BY <1>3 DEF FindExtended
<1>5. L \in SUBSET Logical /\ IsFiniteSet(L)
  BY <1>1, FS_EmptySet
<1>6. m.parts[i].kind # Extended => FindExtended(q) = FindExtended(m.parts)
  BY <1>4 DEF FindExtended
<1>7. FindExtended(q) = {} => L = {}
  BY <1>1, <1>6
<1>8. ASSUME Sound(m) PROVE Valid(q, L)
  <2>1. ValidPrimaries(q)
    BY <1>3, <1>4, <1>8 DEF Sound, Valid, ValidPrimaries
  <2>2. CASE m.parts[i].kind = Extended
    BY <2>1, <2>2, NoneValid DEF Valid
  <2>3. CASE m.parts[i].kind # Extended
    <3>1. FindExtended(q) # {} => Container(q) = Container(m.parts)
      BY <1>1, <1>2, <1>3, <1>6, <2>3, ContainerFacts DEF Container, FindExtended
    <3> QED
      BY <1>6, <1>8, <2>1, <2>3, <3>1 DEF Sound, Valid
  <2> QED
    BY <2>2, <2>3
<1> QED
  BY <1>1, <1>2, <1>5, <1>7, <1>8, EditsTable

(* r on a primary row.                                                      *)
LEMMA ResizePrimaryEdits ==
  ASSUME NEW m, SessionOK(m), m.st = "editing", NEW i \in Used(m.parts), NEW size \in 1 .. Sectors,
         NEW q, q = [m.parts EXCEPT ![i].size = size],
         ValidPrimaries(q),
         q[i].kind = Extended => ValidLogical(q[i], m.logical)
  PROVE  Edits(m, Edited(m, q, m.logical, m.selected))
<1>1. /\ m.parts \in [Slot -> Partition] /\ m.logical \in SUBSET Logical /\ m.selected \in Nat
      /\ IsFiniteSet(m.logical) /\ (FindExtended(m.parts) = {} => m.logical = {})
  BY DEF SessionOK, SessionSet
<1>2. i \in Slot /\ m.parts[i] \in Partition
  BY <1>1 DEF Used
<1>3. /\ q \in [Slot -> Partition]
      /\ \A j \in Slot : q[j].kind = m.parts[j].kind
      /\ \A j \in Slot \ {i} : q[j] = m.parts[j]
      /\ q[i].size = size
  BY <1>1, <1>2 DEF Partition
<1>4. FindExtended(q) = FindExtended(m.parts)
  BY <1>3, <1>2 DEF FindExtended, Used
<1>5. ASSUME Sound(m) PROVE Valid(q, m.logical)
  <2>1. CASE FindExtended(q) = {}
    BY <2>1 DEF Valid
  <2>2. CASE FindExtended(q) # {}
    <3>1. Least(FindExtended(q)) \in FindExtended(q) /\ Container(q) = q[Least(FindExtended(q))]
      BY <1>3, <2>2, ContainerFacts
    <3>2. CASE Least(FindExtended(q)) = i
      BY <3>1, <3>2 DEF Valid, FindExtended
    <3>3. CASE Least(FindExtended(q)) # i
      <4>1. Container(q) = Container(m.parts)
        BY <1>3, <1>4, <3>1, <3>3 DEF Container, FindExtended, Used
      <4> QED
        BY <1>4, <1>5, <2>2, <4>1 DEF Valid, Sound
    <3> QED
      BY <3>2, <3>3
  <2> QED
    BY <2>1, <2>2
<1> QED
  BY <1>1, <1>3, <1>4, <1>5, EditsTable

(* t on a primary row.                                                      *)
LEMMA ChangeTypeEdits ==
  ASSUME NEW m, SessionOK(m), m.st = "editing", NEW i \in Used(m.parts),
         NEW kind \in Kinds \cup {Extended},
         kind = Extended /\ m.parts[i].kind # Extended => FindExtended(m.parts) = {},
         m.parts[i].kind = Extended /\ kind # Extended => m.logical = {}
  PROVE  Edits(m, Edited(m, [m.parts EXCEPT ![i].kind = kind], m.logical, m.selected))
<1> DEFINE q == [m.parts EXCEPT ![i].kind = kind]
<1>1. /\ m.parts \in [Slot -> Partition] /\ m.logical \in SUBSET Logical /\ m.selected \in Nat
      /\ IsFiniteSet(m.logical) /\ (FindExtended(m.parts) = {} => m.logical = {})
  BY DEF SessionOK, SessionSet
<1>2. i \in Slot /\ m.parts[i] \in Partition
  BY <1>1 DEF Used
<1>3. /\ q \in [Slot -> Partition]
      /\ \A j \in Slot : q[j].start = m.parts[j].start /\ q[j].size = m.parts[j].size
      /\ \A j \in Slot \ {i} : q[j] = m.parts[j]
      /\ q[i].kind = kind
  BY <1>1, <1>2 DEF Partition
<1>4. Used(q) = Used(m.parts)
  BY <1>3 DEF Used
<1>5. FindExtended(q) = IF kind = Extended THEN FindExtended(m.parts) \cup {i}
                        ELSE FindExtended(m.parts) \ {i}
  BY <1>2, <1>3, <1>4 DEF FindExtended, Used
<1>6. m.parts[i].kind = Extended <=> i \in FindExtended(m.parts)
  BY DEF FindExtended
<1>7. FindExtended(q) = {} => m.logical = {}
  BY <1>1, <1>5, <1>6
<1>8. ASSUME Sound(m) PROVE Valid(q, m.logical)
  <2>1. ValidPrimaries(q)
    <3>1. \A j \in Used(q) : q[j].start # 0 /\ q[j].kind # NoKind /\ End(q[j]) <= Sectors
      <4>1. \A j \in Slot : End(q[j]) = End(m.parts[j])
        BY <1>3 DEF End
      <4>2. \A j \in Used(q) : q[j].kind # NoKind
        BY <1>3, <1>4, <1>8 DEF Sound, Valid, ValidPrimaries, Used
      <4> QED
        BY <1>3, <1>4, <1>8, <4>1, <4>2 DEF Sound, Valid, ValidPrimaries, Used
    <3>2. \A j, k \in FindExtended(q) : j = k
      BY <1>5, <1>6, <1>8 DEF Sound, Valid, ValidPrimaries
    <3>3. \A j, k \in Used(q) :
             j # k => ~ Overlap(q[j].start, End(q[j]), q[k].start, End(q[k]))
      <4>1. \A j \in Slot : End(q[j]) = End(m.parts[j])
        BY <1>3 DEF End
      <4> QED
        BY <1>3, <1>4, <1>8, <4>1 DEF Sound, Valid, ValidPrimaries, Used
    <3> QED
      BY <3>1, <3>2, <3>3 DEF ValidPrimaries
  <2>2. CASE m.logical = {}
    BY <2>1, <2>2, NoneValid DEF Valid
  <2>3. CASE m.logical # {}
    <3>1. FindExtended(q) = FindExtended(m.parts) /\ FindExtended(m.parts) # {}
      BY <1>1, <1>5, <1>6, <2>3
    <3>2. /\ Least(FindExtended(q)) \in Slot
          /\ Container(q) = q[Least(FindExtended(q))]
          /\ Container(m.parts) = m.parts[Least(FindExtended(q))]
      BY <1>1, <1>3, <3>1, ContainerFacts
    <3>3. ValidLogical(Container(m.parts), m.logical)
      BY <1>8, <3>1 DEF Sound, Valid
    <3>5. Container(q).start = Container(m.parts).start /\ Container(q).size = Container(m.parts).size
      BY <1>3, <3>2
    <3>4. ValidLogical(Container(q), m.logical)
      BY <3>3, <3>5, SameExtent
    <3> QED
      BY <2>1, <3>4 DEF Valid
  <2> QED
    BY <2>2, <2>3
<1> QED
  BY <1>1, <1>3, <1>7, <1>8, EditsTable

(* b on a primary row.                                                      *)
LEMMA TogglePrimaryEdits ==
  ASSUME NEW m, SessionOK(m), m.st = "editing", NEW i \in Used(m.parts)
  PROVE  Edits(m, Edited(m, [m.parts EXCEPT ![i].boot = ~ @], m.logical, m.selected))
<1> DEFINE q == [m.parts EXCEPT ![i].boot = ~ @]
<1>1. /\ m.parts \in [Slot -> Partition] /\ m.logical \in SUBSET Logical /\ m.selected \in Nat
      /\ IsFiniteSet(m.logical) /\ (FindExtended(m.parts) = {} => m.logical = {})
  BY DEF SessionOK, SessionSet
<1>2. i \in Slot /\ m.parts[i] \in Partition
  BY <1>1 DEF Used
<1>9. (~ m.parts[i].boot) \in BOOLEAN
  OBVIOUS
<1>3. /\ q \in [Slot -> Partition]
      /\ \A j \in Slot : /\ q[j].start = m.parts[j].start /\ q[j].size = m.parts[j].size
                         /\ q[j].kind = m.parts[j].kind
  BY <1>1, <1>2, <1>9 DEF Partition
<1>4. Used(q) = Used(m.parts) /\ FindExtended(q) = FindExtended(m.parts)
  BY <1>3 DEF Used, FindExtended
<1>5. \A j \in Slot : End(q[j]) = End(m.parts[j])
  BY <1>3 DEF End
<1>6. ASSUME Sound(m) PROVE Valid(q, m.logical)
  <2>1. ValidPrimaries(q)
    BY <1>3, <1>4, <1>5, <1>6 DEF Sound, Valid, ValidPrimaries, Used
  <2>2. ASSUME FindExtended(q) # {} PROVE ValidLogical(Container(q), m.logical)
    <3>1. /\ Least(FindExtended(q)) \in Slot
          /\ Container(q) = q[Least(FindExtended(q))]
          /\ Container(m.parts) = m.parts[Least(FindExtended(q))]
      BY <1>1, <1>3, <1>4, <2>2, ContainerFacts
    <3>2. ValidLogical(Container(m.parts), m.logical)
      BY <1>4, <1>6, <2>2 DEF Sound, Valid
    <3>3. Container(q).start = Container(m.parts).start /\ Container(q).size = Container(m.parts).size
      BY <1>3, <3>1
    <3> QED
      BY <3>2, <3>3, SameExtent
  <2> QED
    BY <2>1, <2>2 DEF Valid
<1> QED
  BY <1>1, <1>3, <1>4, <1>6, EditsTable

(* d, r, t and b on a logical row: one partition goes, or another takes its  *)
(* place.                                                                  *)
LEMMA DeleteLogicalEdits ==
  ASSUME NEW m, SessionOK(m), m.st = "editing", NEW l \in m.logical
  PROVE  Edits(m, Edited(m, m.parts, m.logical \ {l}, m.selected))
<1>1. /\ m.parts \in [Slot -> Partition] /\ m.logical \in SUBSET Logical /\ m.selected \in Nat
      /\ IsFiniteSet(m.logical) /\ FindExtended(m.parts) # {}
  BY DEF SessionOK, SessionSet
<1>2. IsFiniteSet(m.logical \ {l})
  BY <1>1, FS_Subset
<1>3. Sound(m) => Valid(m.parts, m.logical \ {l})
  BY DEF Sound, Valid, ValidLogical
<1> QED
  BY <1>1, <1>2, <1>3, EditsTable

LEMMA ReplaceEdits ==
  ASSUME NEW m, SessionOK(m), m.st = "editing", NEW l \in m.logical, NEW n \in Logical,
         NEW L, L = (m.logical \ {l}) \cup {n},
         Sound(m) => ValidLogical(Container(m.parts), L)
  PROVE  Edits(m, Edited(m, m.parts, L, m.selected))
<1>1. /\ m.parts \in [Slot -> Partition] /\ m.logical \in SUBSET Logical /\ m.selected \in Nat
      /\ IsFiniteSet(m.logical) /\ FindExtended(m.parts) # {}
  BY DEF SessionOK, SessionSet
<1>2. IsFiniteSet(L) /\ L \in SUBSET Logical
  <2>1. IsFiniteSet(m.logical \ {l})
    BY <1>1, FS_Subset
  <2> QED
    BY <1>1, <2>1, FS_AddElement
<1>3. Sound(m) => Valid(m.parts, L)
  BY DEF Sound, Valid
<1> QED
  BY <1>1, <1>2, <1>3, EditsTable

(* A partition with the same sectors may take the place of another.         *)
LEMMA SameSectors ==
  ASSUME NEW e, NEW L, ValidLogical(e, L), NEW l \in L, NEW n, n.kind \in Kinds,
         n.start = l.start, n.size = l.size, n.ebrLBA = l.ebrLBA
  PROVE  ValidLogical(e, (L \ {l}) \cup {n})
<1>1. End(n) = End(l)
  BY DEF End
<1>2. ASSUME NEW k \in (L \ {l}) \cup {n}
      PROVE  k.size # 0 /\ k.kind \in Kinds /\ k.ebrLBA >= e.start /\ k.ebrLBA < k.start /\ End(k) <= End(e)
  BY <1>1 DEF ValidLogical
<1>3. ASSUME NEW k \in (L \ {l}) \cup {n}, NEW j \in (L \ {l}) \cup {n}, k # j
      PROVE  ~ Overlap(k.ebrLBA, End(k), j.ebrLBA, End(j))
  <2>1. CASE k = n
    BY <1>1, <1>3, <2>1 DEF ValidLogical
  <2>2. CASE j = n
    BY <1>1, <1>3, <2>2 DEF ValidLogical
  <2> QED
    BY <1>3, <2>1, <2>2 DEF ValidLogical
<1> QED
  BY <1>2, <1>3 DEF ValidLogical

LEMMA RetypeEdits ==
  ASSUME NEW m, SessionOK(m), m.st = "editing", NEW l \in m.logical, NEW kind \in Kinds
  PROVE  Edits(m, Edited(m, m.parts, (m.logical \ {l}) \cup {[l EXCEPT !.kind = kind]}, m.selected))
<1> DEFINE n == [l EXCEPT !.kind = kind]
<1>1. m.logical \in SUBSET Logical /\ FindExtended(m.parts) # {}
  BY DEF SessionOK, SessionSet
<1>2. n \in Logical /\ n.start = l.start /\ n.size = l.size /\ n.ebrLBA = l.ebrLBA /\ n.kind = kind
  BY <1>1 DEF Logical
<1>3. Sound(m) => ValidLogical(Container(m.parts), (m.logical \ {l}) \cup {n})
  BY <1>1, <1>2, SameSectors DEF Sound, Valid
<1> QED
  BY <1>2, <1>3, ReplaceEdits

LEMMA ToggleLogicalEdits ==
  ASSUME NEW m, SessionOK(m), m.st = "editing", NEW l \in m.logical
  PROVE  Edits(m, Edited(m, m.parts, (m.logical \ {l}) \cup {[l EXCEPT !.boot = ~ @]}, m.selected))
<1> DEFINE n == [l EXCEPT !.boot = ~ @]
<1>1. m.logical \in SUBSET Logical /\ FindExtended(m.parts) # {}
  BY DEF SessionOK, SessionSet
<1>4. (~ l.boot) \in BOOLEAN
  OBVIOUS
<1>2. n \in Logical /\ n.start = l.start /\ n.size = l.size /\ n.ebrLBA = l.ebrLBA /\ n.kind = l.kind
  BY <1>1, <1>4 DEF Logical
<1>3. ASSUME Sound(m) PROVE ValidLogical(Container(m.parts), (m.logical \ {l}) \cup {n})
  <2>1. ValidLogical(Container(m.parts), m.logical)
    BY <1>1, <1>3 DEF Sound, Valid
  <2>2. n.kind \in Kinds
    BY <1>2, <2>1 DEF ValidLogical
  <2> QED
    BY <1>2, <2>1, <2>2, SameSectors
<1> QED
  BY <1>2, <1>3, ReplaceEdits

(* s: the selection follows its partition.                                  *)
LEMMA SortEdits ==
  ASSUME NEW m, SessionOK(m), m.st = "editing",
         NEW selected,
         selected = IF m.selected >= Slots THEN m.selected
                    ELSE IF Chosen(m) \notin Used(m.parts) THEN 0
                    ELSE Least({i \in Slot : Sorted(m.parts)[i] = m.parts[Chosen(m)]}) - 1
  PROVE  Edits(m, Edited(m, Sorted(m.parts), m.logical, selected))
<1>1. /\ m.parts \in [Slot -> Partition] /\ m.logical \in SUBSET Logical /\ m.selected \in Nat
      /\ IsFiniteSet(m.logical) /\ (FindExtended(m.parts) = {} => m.logical = {})
  BY DEF SessionOK, SessionSet
<1>2. Sorted(m.parts) \in [Slot -> Partition]
  BY <1>1, SortedFacts
<1>3. selected \in Nat
  <2>1. CASE m.selected >= Slots \/ Chosen(m) \notin Used(m.parts)
    BY <1>1, <2>1
  <2>2. CASE m.selected < Slots /\ Chosen(m) \in Used(m.parts)
    <3> DEFINE equal == {i \in Slot : Sorted(m.parts)[i] = m.parts[Chosen(m)]}
    <3>1. Place(m.parts, Chosen(m)) \in equal
      BY <1>1, <2>2, SortedFacts DEF Used
    <3>2. equal \in SUBSET Nat /\ \A i \in equal : i >= 1 /\ i \in Nat
      BY DEF Slot
    <3>3. Least(equal) \in equal
      BY <3>1, <3>2, LeastNat
    <3>4. selected = Least(equal) - 1
      BY <1>1, <2>2
    <3> QED
      BY <3>2, <3>3, <3>4
  <2> QED
    BY <1>1, <2>1, <2>2
<1>4. FindExtended(Sorted(m.parts)) = {} => m.logical = {}
  BY <1>1, SortedSound
<1>5. Sound(m) => Valid(Sorted(m.parts), m.logical)
  BY <1>1, SortedSound DEF Sound, Valid
<1> QED
  BY <1>1, <1>2, <1>3, <1>4, <1>5, EditsTable

(* Every edit, whatever is selected and typed, keeps what is said of tables. *)
LEMMA EditKeeps ==
  ASSUME NEW s \in Sessions, session \in [Sessions -> SessionSet], SessionOK(session[s]), Edit(s)
  PROVE  /\ session' = [session EXCEPT ![s] = session'[s]]
         /\ Edits(session[s], session'[s])
         /\ session[s].st = "editing"
         /\ edits < MaxEdits /\ edits' = edits + 1
         /\ UNCHANGED <<disk, durable, trouble, losses>>
<1> DEFINE m == session[s]
<1> USE DEF In
<1>0. m \in SessionSet /\ m.parts \in [Slot -> Partition] /\ m.logical \in SUBSET Logical
  BY DEF SessionSet
<1>1. ASSUME m.st = "editing", NEW n, Changes(s, n), NEW parts, NEW logical, NEW selected,
             [n EXCEPT !.dirty = TRUE] = Edited(m, parts, logical, selected),
             Edits(m, Edited(m, parts, logical, selected))
      PROVE  /\ session' = [session EXCEPT ![s] = session'[s]]
             /\ Edits(session[s], session'[s])
             /\ session[s].st = "editing"
             /\ edits < MaxEdits /\ edits' = edits + 1
             /\ UNCHANGED <<disk, durable, trouble, losses>>
  <2>1. session' = [session EXCEPT ![s] = [n EXCEPT !.dirty = TRUE]]
    BY <1>1 DEF Changes, Becomes
  <2>2. session'[s] = [n EXCEPT !.dirty = TRUE]
    BY <2>1
  <2> QED
    BY <1>1, <2>1, <2>2 DEF Changes
<1>2. CASE NewPrimary(s)
  <2>1. m.st = "editing" /\ OnPrimary(m) /\ Chosen(m) <= Slots
    BY <1>2 DEF NewPrimary
  <2>2. PICK slot \in Vacant(m), start \in 1 .. Sectors, size \in 1 .. Sectors :
          LET q == [m.parts EXCEPT ![slot] = [start |-> start, size |-> size,
                                              kind |-> NewKind, boot |-> FALSE]]
          IN  /\ ValidPrimaries(q)
              /\ Changes(s, [m EXCEPT !.parts = q, !.selected = slot - 1])
    BY <1>2 DEF NewPrimary
  <2> DEFINE q == [m.parts EXCEPT ![slot] = [start |-> start, size |-> size,
                                             kind |-> NewKind, boot |-> FALSE]]
             n == [m EXCEPT !.parts = q, !.selected = slot - 1]
  <2>3. Edits(m, Edited(m, q, m.logical, slot - 1))
    BY <2>1, <2>2, NewPrimaryEdits
  <2>4. [n EXCEPT !.dirty = TRUE] = Edited(m, q, m.logical, slot - 1)
    BY <1>0 DEF Edited, SessionSet
  <2> QED
    BY <1>1, <2>1, <2>2, <2>3, <2>4
<1>3. CASE NewLogical(s)
  <2>1. m.st = "editing" /\ ~ OnPrimary(m)
    BY <1>3 DEF NewLogical
  <2>2. PICK r \in FreeRegions(Container(m.parts), m.logical), size \in 1 .. Sectors :
          \E start \in r[1] + 1 .. r[2] - 1 :
            LET l == [start |-> start, size |-> size, kind |-> NewKind,
                      boot |-> FALSE, ebrLBA |-> r[1]]
                before == {x \in m.logical : x.start < start}
            IN  /\ ValidLogical(Container(m.parts), m.logical \cup {l})
                /\ Changes(s, [m EXCEPT !.logical = @ \cup {l},
                                        !.selected = Slots + Cardinality(before)])
    BY <1>3 DEF NewLogical
  <2>3. PICK start \in r[1] + 1 .. r[2] - 1 :
            LET l == [start |-> start, size |-> size, kind |-> NewKind,
                      boot |-> FALSE, ebrLBA |-> r[1]]
                before == {x \in m.logical : x.start < start}
            IN  /\ ValidLogical(Container(m.parts), m.logical \cup {l})
                /\ Changes(s, [m EXCEPT !.logical = @ \cup {l},
                                        !.selected = Slots + Cardinality(before)])
    BY <2>2
  <2> DEFINE l == [start |-> start, size |-> size, kind |-> NewKind, boot |-> FALSE, ebrLBA |-> r[1]]
             row == Slots + Cardinality({x \in m.logical : x.start < start})
             n == [m EXCEPT !.logical = m.logical \cup {l}, !.selected = row]
  <2>4. ValidLogical(Container(m.parts), m.logical \cup {l}) /\ Changes(s, n)
    BY <2>3
  <2>5. Edits(m, Edited(m, m.parts, m.logical \cup {l}, row))
    BY <2>1, <2>4, NewLogicalEdits, ZenonT(60)
  <2>6. [n EXCEPT !.dirty = TRUE] = Edited(m, m.parts, m.logical \cup {l}, row)
    BY <1>0 DEF Edited, SessionSet
  <2> QED
    BY <1>1, <2>1, <2>4, <2>5, <2>6

<1>4. CASE DeletePrimary(s)
  <2> DEFINE i == Chosen(m)
             L == IF m.parts[i].kind = Extended THEN {} ELSE m.logical
             n == [m EXCEPT !.parts = [m.parts EXCEPT ![i] = NoPartition], !.logical = L]
  <2>1. m.st = "editing" /\ i \in Used(m.parts) /\ Changes(s, n)
    BY <1>4 DEF DeletePrimary, HasChosen
  <2>2. Edits(m, Edited(m, [m.parts EXCEPT ![i] = NoPartition], L, m.selected))
    BY <2>1, DeletePrimaryEdits
  <2>3. [n EXCEPT !.dirty = TRUE] = Edited(m, [m.parts EXCEPT ![i] = NoPartition], L, m.selected)
    BY <1>0 DEF Edited, SessionSet
  <2> QED
    BY <1>1, <2>1, <2>2, <2>3
<1>5. CASE DeleteLogical(s)
  <2>1. PICK l \in m.logical : m.st = "editing" /\ Changes(s, [m EXCEPT !.logical = m.logical \ {l}])
    BY <1>5 DEF DeleteLogical, Picked
  <2> DEFINE n == [m EXCEPT !.logical = m.logical \ {l}]
  <2>2. Edits(m, Edited(m, m.parts, m.logical \ {l}, m.selected))
    BY <2>1, DeleteLogicalEdits
  <2>3. [n EXCEPT !.dirty = TRUE] = Edited(m, m.parts, m.logical \ {l}, m.selected)
    BY <1>0 DEF Edited, SessionSet
  <2> QED
    BY <1>1, <2>1, <2>2, <2>3
<1>6. CASE ResizePrimary(s)
  <2> DEFINE i == Chosen(m)
  <2>1. m.st = "editing" /\ i \in Used(m.parts)
    BY <1>6 DEF ResizePrimary, HasChosen
  <2>2. PICK size \in 1 .. Sectors :
          LET q == [m.parts EXCEPT ![i].size = size]
          IN  /\ ValidPrimaries(q)
              /\ q[i].kind = Extended => ValidLogical(q[i], m.logical)
              /\ Changes(s, [m EXCEPT !.parts = q])
    BY <1>6 DEF ResizePrimary
  <2> DEFINE q == [m.parts EXCEPT ![i].size = size]
             n == [m EXCEPT !.parts = q]
  <2>3. Edits(m, Edited(m, q, m.logical, m.selected))
    BY <2>1, <2>2, ResizePrimaryEdits
  <2>4. [n EXCEPT !.dirty = TRUE] = Edited(m, q, m.logical, m.selected)
    BY <1>0 DEF Edited, SessionSet
  <2> QED
    BY <1>1, <2>1, <2>2, <2>3, <2>4
<1>7. CASE ResizeLogical(s)
  <2>1. PICK l \in m.logical, size \in 1 .. Sectors :
          LET L == (m.logical \ {l}) \cup {[l EXCEPT !.size = size]}
          IN  /\ m.st = "editing"
              /\ ValidLogical(Container(m.parts), L)
              /\ Changes(s, [m EXCEPT !.logical = L])
    BY <1>7 DEF ResizeLogical, Picked
  <2> DEFINE L == (m.logical \ {l}) \cup {[l EXCEPT !.size = size]}
             n == [m EXCEPT !.logical = L]
  <2>2. [l EXCEPT !.size = size] \in Logical
    BY <1>0 DEF Logical
  <2>3. Edits(m, Edited(m, m.parts, L, m.selected))
    BY <2>1, <2>2, ReplaceEdits
  <2>4. [n EXCEPT !.dirty = TRUE] = Edited(m, m.parts, L, m.selected)
    BY <1>0 DEF Edited, SessionSet
  <2> QED
    BY <1>1, <2>1, <2>3, <2>4
<1>8. CASE ChangeType(s)
  <2> DEFINE i == Chosen(m)
  <2>1. m.st = "editing" /\ i \in Used(m.parts)
    BY <1>8 DEF ChangeType, HasChosen
  <2>2. PICK kind \in Kinds \cup {Extended} :
          /\ kind = Extended /\ m.parts[i].kind # Extended => FindExtended(m.parts) = {}
          /\ m.parts[i].kind = Extended /\ kind # Extended => m.logical = {}
          /\ Changes(s, [m EXCEPT !.parts = [m.parts EXCEPT ![i].kind = kind]])
    BY <1>8 DEF ChangeType
  <2> DEFINE q == [m.parts EXCEPT ![i].kind = kind]
             n == [m EXCEPT !.parts = q]
  <2>3. Edits(m, Edited(m, q, m.logical, m.selected))
    BY <2>1, <2>2, ChangeTypeEdits
  <2>4. [n EXCEPT !.dirty = TRUE] = Edited(m, q, m.logical, m.selected)
    BY <1>0 DEF Edited, SessionSet
  <2> QED
    BY <1>1, <2>1, <2>2, <2>3, <2>4
<1>9. CASE ChangeLogicalType(s)
  <2>1. PICK l \in m.logical, kind \in Kinds :
          /\ m.st = "editing"
          /\ Changes(s, [m EXCEPT !.logical = (m.logical \ {l}) \cup {[l EXCEPT !.kind = kind]}])
    BY <1>9 DEF ChangeLogicalType, Picked
  <2> DEFINE L == (m.logical \ {l}) \cup {[l EXCEPT !.kind = kind]}
             n == [m EXCEPT !.logical = L]
  <2>2. Edits(m, Edited(m, m.parts, L, m.selected))
    BY <2>1, RetypeEdits
  <2>3. [n EXCEPT !.dirty = TRUE] = Edited(m, m.parts, L, m.selected)
    BY <1>0 DEF Edited, SessionSet
  <2> QED
    BY <1>1, <2>1, <2>2, <2>3
<1>10. CASE ToggleBootable(s)
  <2>1. CASE HasChosen(m) /\ Changes(s, [m EXCEPT !.parts = [m.parts EXCEPT ![Chosen(m)].boot = ~ @]])
    <3> DEFINE i == Chosen(m)
               q == [m.parts EXCEPT ![i].boot = ~ @]
               n == [m EXCEPT !.parts = q]
    <3>4. m.st = "editing" /\ i \in Used(m.parts)
      BY <1>10, <2>1, Zenon DEF ToggleBootable, HasChosen
    <3>5. Changes(s, n)
      BY <2>1, Zenon
    <3>1. m.st = "editing" /\ i \in Used(m.parts) /\ Changes(s, n)
      BY <3>4, <3>5
    <3>2. Edits(m, Edited(m, q, m.logical, m.selected))
      BY <3>1, TogglePrimaryEdits
    <3>3. [n EXCEPT !.dirty = TRUE] = Edited(m, q, m.logical, m.selected)
      BY <1>0 DEF Edited, SessionSet
    <3> QED
      BY <1>1, <3>1, <3>2, <3>3
  <2>2. ASSUME NEW l \in Picked(m),
               Changes(s, [m EXCEPT !.logical = (@ \ {l}) \cup {[l EXCEPT !.boot = ~ @]}])
        PROVE  /\ session' = [session EXCEPT ![s] = session'[s]]
               /\ Edits(session[s], session'[s])
               /\ session[s].st = "editing"
               /\ edits < MaxEdits /\ edits' = edits + 1
               /\ UNCHANGED <<disk, durable, trouble, losses>>
    <3> DEFINE L == (m.logical \ {l}) \cup {[l EXCEPT !.boot = ~ @]}
               n == [m EXCEPT !.logical = L]
    <3>1. m.st = "editing" /\ l \in m.logical /\ Changes(s, n)
      BY <1>10, <2>2 DEF ToggleBootable, Picked
    <3>2. Edits(m, Edited(m, m.parts, L, m.selected))
      BY <3>1, ToggleLogicalEdits
    <3>3. [n EXCEPT !.dirty = TRUE] = Edited(m, m.parts, L, m.selected)
      BY <1>0 DEF Edited, SessionSet
    <3> QED
      BY <1>1, <3>1, <3>2, <3>3
  <2> QED
    BY <1>10, <2>1, <2>2 DEF ToggleBootable
<1>11. CASE Sort(s)
  <2> DEFINE q == Sorted(m.parts)
             row == IF m.selected >= Slots THEN m.selected
                    ELSE IF Chosen(m) \notin Used(m.parts) THEN 0
                    ELSE Least({i \in Slot : q[i] = m.parts[Chosen(m)]}) - 1
             n == [m EXCEPT !.parts = q, !.selected = row]
  <2>1. m.st = "editing" /\ Changes(s, n)
    BY <1>11 DEF Sort
  <2>2. Edits(m, Edited(m, q, m.logical, row))
    BY <2>1, SortEdits
  <2>3. [n EXCEPT !.dirty = TRUE] = Edited(m, q, m.logical, row)
    BY <1>0 DEF Edited, SessionSet
  <2> QED
    BY <1>1, <2>1, <2>2, <2>3
<1> QED
  BY <1>2, <1>3, <1>4, <1>5, <1>6, <1>7, <1>8, <1>9, <1>10, <1>11 DEF Edit

-----------------------------------------------------------------------------
(* Tables and sectors stay what they are. *)

(* The records of a checked table are records, inside the container.        *)
LEMMA ChainWrites ==
  ASSUME NEW p \in [Slot -> Partition], NEW L \in SUBSET Logical, Valid(p, L),
         FindExtended(p) # {}
  PROVE  BuildChain(Container(p), L) \subseteq Writes
<1> DEFINE e == Container(p)
<1>1. e \in Partition /\ e.start # 0 /\ e.start \in Nat /\ End(e) \in Nat /\ End(e) <= Sectors
  <2>1. e \in Partition /\ Least(FindExtended(p)) \in FindExtended(p) /\ e = p[Least(FindExtended(p))]
    BY ContainerFacts
  <2>2. Least(FindExtended(p)) \in Used(p)
    BY <2>1 DEF FindExtended
  <2>3. e.start # 0 /\ End(e) <= Sectors
    BY <2>1, <2>2 DEF Valid, ValidPrimaries
  <2> QED
    BY <2>1, <2>3 DEF Partition, End
<1>2. ValidLogical(e, L)
  BY DEF Valid
<1>3. ASSUME NEW l \in L
      PROVE  RecordOf(l, l.start - l.ebrLBA, LinkFrom(e.start, L, l)) \in Writes
  <2>1. l.ebrLBA < l.start /\ l.start < End(l) /\ l.ebrLBA \in Nat /\ l.start \in Nat
    BY <1>1, <1>2, RecordsInOrder
  <2>2. l.ebrLBA >= e.start /\ End(l) <= End(e) /\ End(l) \in Nat
    BY <1>2 DEF ValidLogical, Logical, End
  <2>3. l.ebrLBA \in LBA \ {0}
    BY <1>1, <2>1, <2>2 DEF LBA
  <2>4. LinkFrom(e.start, L, l) \in Nat
    BY <1>1, <1>2, LinkFacts
  <2>5. l.start - l.ebrLBA \in Nat
    BY <2>1
  <2>6. [start |-> l.start - l.ebrLBA, size |-> l.size, kind |-> l.kind, boot |-> l.boot] \in Partition
    BY <2>5 DEF Logical, Partition
  <2> QED
    BY <2>3, <2>4, <2>6 DEF RecordOf, Writes, Record
<1> QED
  BY <1>3 DEF BuildChain

(* The record written next is one of those left.                            *)
LEMMA NextWrite ==
  ASSUME NEW T \in SUBSET Writes, T # {}
  PROVE  (CHOOSE v \in T : \A u \in T : v.lba <= u.lba) \in T
<1> DEFINE places == {v.lba : v \in T}
<1>1. places \in SUBSET Nat /\ places # {}
  BY DEF Writes, LBA
<1>2. Least(places) \in places /\ \A y \in places : Least(places) <= y
  BY <1>1, LeastNat
<1>3. \E v \in T : \A u \in T : v.lba <= u.lba
  BY <1>2
<1> QED
  BY <1>3

LEMMA ClosedOK ==
  /\ Closed \in SessionSet /\ NoTable \in [Slot -> Partition]
  /\ SessionOK(Closed) /\ SessionOK([Closed EXCEPT !.st = "panic"])
  /\ Used(NoTable) = {} /\ FindExtended(NoTable) = {} /\ Valid(NoTable, {})
<1>1. NoTable \in [Slot -> Partition]
  BY DEF NoTable, NoPartition, Partition
<1>2. Closed \in SessionSet /\ [Closed EXCEPT !.st = "panic"] \in SessionSet
  BY <1>1 DEF Closed, SessionSet, Steps
<1>3. Used(NoTable) = {} /\ FindExtended(NoTable) = {}
  BY DEF NoTable, NoPartition, Used, FindExtended
<1>4. Valid(NoTable, {})
  BY <1>3 DEF Valid, ValidPrimaries
<1> QED
  BY <1>1, <1>2, <1>3, <1>4, FS_EmptySet DEF SessionOK, Closed, Writing

(* A session that only goes to another step of a write knows what it knew.  *)
LEMMA StepOK ==
  ASSUME NEW m, SessionOK(m), m.st \in Steps \ {"records"}, NEW st \in Steps \ {"records"},
         st \in {"asked"} \cup Writing => Valid(m.parts, m.logical) /\ m.dirty
  PROVE  SessionOK([m EXCEPT !.st = st])
  BY DEF SessionOK, SessionSet

LEMMA OneMoves ==
  ASSUME session \in [Sessions -> SessionSet], \A r \in Sessions : SessionOK(session[r]),
         NEW s \in Sessions, NEW n, session' = [session EXCEPT ![s] = n], SessionOK(n)
  PROVE  /\ session' \in [Sessions -> SessionSet]
         /\ \A r \in Sessions : SessionOK(session'[r])
  BY DEF SessionOK

Typing ==
  /\ IsDisk(disk) /\ IsDisk(durable)
  /\ session \in [Sessions -> SessionSet]
  /\ \A s \in Sessions : SessionOK(session[s])
  /\ edits \in 0 .. MaxEdits /\ losses \in 0 .. MaxLosses

(* The states a session may get to other than by an edit.                   *)
LEMMA OpenTyping ==
  ASSUME Typing, NEW s \in Sessions, Open(s)
  PROVE  Typing'
<1>1. PICK t \in ReadTable(disk) :
        session' = [session EXCEPT ![s] =
                      [Closed EXCEPT !.st = "editing", !.parts = t.parts, !.logical = t.logical,
                                     !.sector = disk[0], !.base = ReadTable(disk)]]
  BY DEF Open, Becomes
<1> DEFINE n == [Closed EXCEPT !.st = "editing", !.parts = t.parts, !.logical = t.logical,
                               !.sector = disk[0], !.base = ReadTable(disk)]
<1>2. /\ ReadTable(disk) = {t}
      /\ t = [parts |-> disk[0], logical |-> t.logical]
      /\ t.logical \subseteq Logical /\ IsFiniteSet(t.logical)
      /\ FindExtended(disk[0]) = {} => t.logical = {}
  BY ReadTableFacts DEF Typing
<1>3. disk[0] \in [Slot -> Partition]
  BY DEF Typing, IsDisk
<1>4. t.parts = disk[0] /\ t \in Tables
  BY <1>2, <1>3 DEF Tables
<1>5. Closed \in SessionSet /\ Closed.todo = {}
  BY ClosedOK DEF Closed
<1>6. /\ n \in SessionSet /\ n.st = "editing" /\ n.todo = {}
      /\ n.parts = disk[0] /\ n.logical = t.logical
  BY <1>2, <1>3, <1>4, <1>5 DEF SessionSet, Steps
<1>7. SessionOK(n)
  BY <1>2, <1>6 DEF SessionOK, Writing
<1>8. session' \in [Sessions -> SessionSet] /\ \A r \in Sessions : SessionOK(session'[r])
  BY <1>1, <1>7, OneMoves DEF Typing
<1> QED
  BY <1>8 DEF Typing, Open

LEMMA OpenEmptyTyping ==
  ASSUME Typing, NEW s \in Sessions, OpenEmpty(s)
  PROVE  Typing'
<1> DEFINE n == [Closed EXCEPT !.st = "editing", !.sector = disk[0], !.base = ReadTable(disk),
                               !.dirty = TRUE]
<1>1. Changes(s, [Closed EXCEPT !.st = "editing", !.sector = disk[0], !.base = ReadTable(disk)])
  BY DEF OpenEmpty
<1>2. session' = [session EXCEPT ![s] = n]
  BY <1>1 DEF Changes, Becomes
<1>3. disk[0] \in [Slot -> Partition]
  BY DEF Typing, IsDisk
<1>4. ReadTable(disk) \in SUBSET Tables
  <2> SUFFICES ASSUME NEW t \in ReadTable(disk) PROVE t \in Tables
    OBVIOUS
  <2>1. t = [parts |-> disk[0], logical |-> t.logical] /\ t.logical \subseteq Logical
    BY ReadTableFacts DEF Typing
  <2> QED
    BY <1>3, <2>1 DEF Tables
<1>5. /\ Closed \in SessionSet /\ Closed.todo = {} /\ Closed.parts = NoTable /\ Closed.logical = {}
      /\ FindExtended(NoTable) = {}
  BY ClosedOK DEF Closed
<1>6. n \in SessionSet /\ n.st = "editing" /\ n.todo = {} /\ n.parts = NoTable /\ n.logical = {}
  BY <1>3, <1>4, <1>5 DEF SessionSet, Steps
<1>7. SessionOK(n)
  BY <1>5, <1>6, FS_EmptySet DEF SessionOK, Writing
<1>8. session' \in [Sessions -> SessionSet] /\ \A r \in Sessions : SessionOK(session'[r])
  BY <1>2, <1>7, OneMoves DEF Typing
<1>9. edits' \in 0 .. MaxEdits
  BY <1>1 DEF Changes, Typing
<1> QED
  BY <1>1, <1>8, <1>9 DEF Typing, Changes

LEMMA EditTyping ==
  ASSUME Typing, NEW s \in Sessions, Edit(s)
  PROVE  Typing'
<1>1. /\ session' = [session EXCEPT ![s] = session'[s]]
      /\ SessionOK(session'[s])
      /\ edits < MaxEdits /\ edits' = edits + 1
      /\ UNCHANGED <<disk, durable, trouble, losses>>
  BY EditKeeps DEF Typing, Edits
<1>2. session' \in [Sessions -> SessionSet] /\ \A r \in Sessions : SessionOK(session'[r])
  BY <1>1, OneMoves DEF Typing
<1> QED
  BY <1>1, <1>2 DEF Typing

(* The steps that leave the sectors alone.                                  *)
LEMMA CalmTyping ==
  ASSUME Typing, NEW s \in Sessions,
         \/ Move(s) \/ Panic(s) \/ Quit(s) \/ Ask(s) \/ Cancel(s) \/ Confirm(s) \/ Fail(s) \/ Kill(s)
  PROVE  Typing'
<1> DEFINE m == session[s]
<1>0. m \in SessionSet /\ SessionOK(m) /\ SessionOK(Closed) /\ SessionOK([Closed EXCEPT !.st = "panic"])
  BY ClosedOK DEF Typing
<1>1. ASSUME NEW n, session' = [session EXCEPT ![s] = n], SessionOK(n),
             UNCHANGED <<disk, durable, trouble, edits, losses>>
      PROVE  Typing'
  <2>1. session' \in [Sessions -> SessionSet] /\ \A r \in Sessions : SessionOK(session'[r])
    BY <1>1, OneMoves DEF Typing
  <2> QED
    BY <1>1, <2>1 DEF Typing
<1>2. CASE Move(s)
  <2>1. PICK row \in {m.selected - 1, m.selected + 1} :
          row \in Nat /\ session' = [session EXCEPT ![s] = [m EXCEPT !.selected = row]]
    BY <1>0, <1>2 DEF Move, Becomes, SessionSet
  <2> DEFINE n == [m EXCEPT !.selected = row]
  <2>3. /\ n \in SessionSet /\ n.st = m.st /\ n.parts = m.parts /\ n.logical = m.logical
        /\ n.dirty = m.dirty /\ n.todo = m.todo
    BY <1>0, <2>1 DEF SessionSet
  <2>4. Chain(n) = Chain(m)
    BY <2>3 DEF Chain
  <2>2. SessionOK(n)
    BY <1>0, <2>3, <2>4 DEF SessionOK
  <2> QED
    BY <1>1, <1>2, <2>1, <2>2 DEF Move
<1>3. CASE Panic(s)
  BY <1>0, <1>1, <1>3 DEF Panic, Becomes
<1>4. CASE Quit(s)
  BY <1>0, <1>1, <1>4 DEF Quit, Becomes
<1>5. CASE Kill(s)
  BY <1>0, <1>1, <1>5 DEF Kill, Becomes
<1>6. CASE Ask(s)
  <2>1. SessionOK([m EXCEPT !.st = "asked"])
    BY <1>0, <1>6, StepOK DEF Ask, StepTo, In, Steps
  <2> QED
    BY <1>1, <1>6, <2>1 DEF Ask, StepTo, Becomes
<1>7. CASE Cancel(s)
  <2>1. SessionOK([m EXCEPT !.st = "editing"])
    BY <1>0, <1>7, StepOK DEF Cancel, StepTo, In, Steps, Writing
  <2> QED
    BY <1>1, <1>7, <2>1 DEF Cancel, StepTo, Becomes
<1>8. CASE Fail(s)
  <2>1. SessionOK([m EXCEPT !.st = "editing", !.todo = {}])
    BY <1>0 DEF SessionOK, SessionSet, Writing, Steps
  <2> QED
    BY <1>1, <1>8, <2>1 DEF Fail, Becomes
<1>9. CASE Confirm(s)
  <2> DEFINE n == [m EXCEPT !.todo = Chain(m), !.st = IF Chain(m) = {} THEN "table" ELSE "records"]
  <2>1. session' = [session EXCEPT ![s] = n]
    BY <1>9 DEF Confirm, Becomes, Chain
  <2>2. Valid(m.parts, m.logical) /\ m.dirty /\ m.parts \in [Slot -> Partition] /\ m.logical \in SUBSET Logical
    BY <1>0, <1>9 DEF Confirm, In, SessionOK, SessionSet
  <2>3. Chain(m) \in SUBSET Writes
    BY <2>2, ChainWrites DEF Chain
  <2>4. /\ n \in SessionSet /\ n.todo = Chain(m) /\ n.st = IF Chain(m) = {} THEN "table" ELSE "records"
        /\ n.parts = m.parts /\ n.logical = m.logical /\ n.dirty = m.dirty
    BY <1>0, <2>3 DEF SessionSet, Steps
  <2>5. Chain(n) = Chain(m)
    BY <2>4 DEF Chain
  <2>7. IsFiniteSet(m.logical) /\ (FindExtended(m.parts) = {} => m.logical = {})
    BY <1>0 DEF SessionOK
  <2>8. n.todo # {} <=> n.st = "records"
    BY <2>4
  <2>9. n.todo \subseteq Chain(n)
    BY <2>4, <2>5
  <2> HIDE DEF n
  <2>6. SessionOK(n)
    BY <2>2, <2>4, <2>7, <2>8, <2>9 DEF SessionOK
  <2> QED
    BY <1>1, <1>9, <2>1, <2>6 DEF Confirm
<1> QED
  BY <1>2, <1>3, <1>4, <1>5, <1>6, <1>7, <1>8, <1>9

(* A record is written, and what is left to write is the rest.              *)
LEMMA WriteFacts ==
  ASSUME Typing, NEW s \in Sessions, WriteRecord(s)
  PROVE  \E w \in session[s].todo :
           LET m == session[s]
               n == [m EXCEPT !.todo = m.todo \ {w},
                              !.st = IF m.todo = {w} THEN "recordsync" ELSE "records"]
           IN  /\ w \in Writes /\ w \in Chain(m)
               /\ m.st = "records"
               /\ disk' = [disk EXCEPT ![w.lba] = w.record]
               /\ session' = [session EXCEPT ![s] = n]
               /\ SessionOK(n)
               /\ UNCHANGED <<durable, trouble, edits, losses>>
<1> DEFINE m == session[s]
           w == CHOOSE v \in m.todo : \A u \in m.todo : v.lba <= u.lba
           n == [m EXCEPT !.todo = m.todo \ {w},
                          !.st = IF m.todo = {w} THEN "recordsync" ELSE "records"]
<1>1. m \in SessionSet /\ SessionOK(m) /\ m.st = "records"
  BY DEF Typing, WriteRecord, In
<1>2. m.todo # {} /\ m.todo \in SUBSET Writes /\ m.todo \subseteq Chain(m)
  BY <1>1 DEF SessionOK, SessionSet
<1>3. w \in m.todo
  BY <1>2, NextWrite
<1>4. disk' = [disk EXCEPT ![w.lba] = w.record] /\ UNCHANGED <<durable, trouble, edits, losses>>
  BY DEF WriteRecord
<1>5. session' = [session EXCEPT ![s] = n]
  BY <1>1 DEF WriteRecord, Becomes
<1> HIDE DEF w
<1>6. /\ n \in SessionSet /\ n.todo = m.todo \ {w}
      /\ n.st = IF m.todo = {w} THEN "recordsync" ELSE "records"
      /\ n.parts = m.parts /\ n.logical = m.logical /\ n.dirty = m.dirty
  BY <1>1, <1>2 DEF SessionSet, Steps
<1>7. SessionOK(n)
  <2>1. Chain(n) = Chain(m)
    BY <1>6 DEF Chain
  <2>2. Valid(m.parts, m.logical) /\ m.dirty
    BY <1>1 DEF SessionOK, Writing
  <2>3. IsFiniteSet(m.logical) /\ (FindExtended(m.parts) = {} => m.logical = {})
    BY <1>1 DEF SessionOK
  <2>4. n.todo # {} <=> n.st = "records"
    BY <1>3, <1>6
  <2>5. n.todo \subseteq Chain(n)
    BY <1>2, <1>6, <2>1
  <2> HIDE DEF n
  <2> QED
    BY <1>6, <2>2, <2>3, <2>4, <2>5 DEF SessionOK
<1> QED
  BY <1>1, <1>2, <1>3, <1>4, <1>5, <1>7

(* A disk after one sector was written.                                     *)
LEMMA WrittenDisk ==
  ASSUME NEW d, IsDisk(d)
  PROVE  /\ \A w \in Writes : IsDisk([d EXCEPT ![w.lba] = w.record])
         /\ \A p \in [Slot -> Partition] : ValidPrimaries(p) => IsDisk([d EXCEPT ![0] = p])
<1>0. 0 \in LBA /\ d = [l \in LBA |-> d[l]]
  BY DEF LBA, IsDisk
<1>1. ASSUME NEW w \in Writes PROVE IsDisk([d EXCEPT ![w.lba] = w.record])
  BY <1>0 DEF IsDisk, Writes
<1>2. ASSUME NEW p \in [Slot -> Partition], ValidPrimaries(p) PROVE IsDisk([d EXCEPT ![0] = p])
  <2>1. \A i \in FindExtended(p) : p[i].start # 0
    BY <1>2 DEF ValidPrimaries, FindExtended
  <2> QED
    BY <1>0, <2>1 DEF IsDisk
<1> QED
  BY <1>1, <1>2

(* The steps of a write, and a loss of power.                               *)
LEMMA WriteTyping ==
  ASSUME Typing, NEW s \in Sessions,
         WriteRecord(s) \/ SyncRecords(s) \/ WriteTable(s) \/ SyncTable(s)
  PROVE  Typing'
<1> DEFINE m == session[s]
<1>0. m \in SessionSet /\ SessionOK(m)
  BY DEF Typing
<1>1. ASSUME NEW n, session' = [session EXCEPT ![s] = n], SessionOK(n)
      PROVE  session' \in [Sessions -> SessionSet] /\ \A r \in Sessions : SessionOK(session'[r])
  BY <1>1, OneMoves DEF Typing
<1>2. CASE WriteRecord(s)
  <2>1. PICK w \in m.todo :
          LET n == [m EXCEPT !.todo = m.todo \ {w},
                             !.st = IF m.todo = {w} THEN "recordsync" ELSE "records"]
          IN  /\ w \in Writes
              /\ disk' = [disk EXCEPT ![w.lba] = w.record]
              /\ session' = [session EXCEPT ![s] = n]
              /\ SessionOK(n)
              /\ UNCHANGED <<durable, trouble, edits, losses>>
    BY <1>2, WriteFacts
  <2>2. IsDisk(disk')
    BY <2>1, WrittenDisk DEF Typing
  <2> QED
    BY <1>1, <2>1, <2>2 DEF Typing
<1>3. CASE SyncRecords(s)
  <2>1. SessionOK([m EXCEPT !.st = "table"])
    BY <1>0, <1>3, StepOK DEF SyncRecords, StepTo, In, Steps, SessionOK, Writing
  <2>2. session' = [session EXCEPT ![s] = [m EXCEPT !.st = "table"]]
    BY <1>3 DEF SyncRecords, StepTo, Becomes
  <2> QED
    BY <1>1, <1>3, <2>1, <2>2 DEF Typing, SyncRecords
<1>4. CASE WriteTable(s)
  <2>1. m.st = "table" /\ Valid(m.parts, m.logical) /\ m.dirty
    BY <1>0, <1>4 DEF WriteTable, StepTo, In, SessionOK, Writing
  <2>2. SessionOK([m EXCEPT !.st = "tablesync"])
    BY <1>0, <2>1, StepOK DEF Steps
  <2>3. session' = [session EXCEPT ![s] = [m EXCEPT !.st = "tablesync"]]
    BY <1>4 DEF WriteTable, StepTo, Becomes
  <2>4. IsDisk(disk')
    BY <1>0, <1>4, <2>1, WrittenDisk DEF WriteTable, Typing, SessionSet, Valid
  <2> QED
    BY <1>1, <1>4, <2>2, <2>3, <2>4 DEF Typing, WriteTable
<1>5. CASE SyncTable(s)
  <2> DEFINE n == [m EXCEPT !.st = "editing", !.sector = m.parts, !.dirty = FALSE,
                            !.base = {[parts |-> m.parts, logical |-> m.logical]}]
  <2>1. session' = [session EXCEPT ![s] = n]
    BY <1>5 DEF SyncTable, Becomes
  <2>2. n \in SessionSet /\ n.st = "editing" /\ n.parts = m.parts /\ n.logical = m.logical /\ n.todo = m.todo
    <3>1. {[parts |-> m.parts, logical |-> m.logical]} \in SUBSET Tables
      BY <1>0 DEF SessionSet, Tables
    <3>2. "editing" \in Steps /\ m.parts \in [Slot -> Partition] /\ FALSE \in BOOLEAN
      BY <1>0 DEF SessionSet, Steps
    <3> QED
      BY <1>0, <3>1, <3>2 DEF SessionSet
  <2>3. m.todo = {}
    BY <1>0, <1>5 DEF SyncTable, In, SessionOK
  <2>4. SessionOK(n)
    BY <1>0, <2>2, <2>3 DEF SessionOK, Writing
  <2> QED
    BY <1>1, <1>5, <2>1, <2>4 DEF Typing, SyncTable
<1> QED
  BY <1>2, <1>3, <1>4, <1>5

LEMMA PowerTyping ==
  ASSUME Typing, PowerLoss
  PROVE  Typing'
<1>1. PICK lost \in SUBSET {l \in LBA : disk[l] # durable[l]} :
        disk' = [l \in LBA |-> IF l \in lost THEN durable[l] ELSE disk[l]]
  BY DEF PowerLoss
<1>2. disk'[0] = disk[0] \/ disk'[0] = durable[0]
  BY <1>1 DEF LBA
<1>3. \A l \in LBA \ {0} : disk'[l] \in Record
  BY <1>1 DEF Typing, IsDisk
<1>4. IsDisk(disk')
  BY <1>1, <1>2, <1>3 DEF Typing, IsDisk
<1>5. session' \in [Sessions -> SessionSet] /\ \A r \in Sessions : SessionOK(session'[r])
  BY ClosedOK DEF PowerLoss
<1> QED
  BY <1>4, <1>5 DEF PowerLoss, Typing

LEMMA TypingStep ==
  ASSUME Typing, [Next]_vars
  PROVE  Typing'
<1>1. CASE UNCHANGED vars
  BY <1>1 DEF vars, Typing
<1>2. ASSUME NEW s \in Sessions, Open(s) PROVE Typing'
  BY <1>2, OpenTyping
<1>3. ASSUME NEW s \in Sessions, OpenEmpty(s) PROVE Typing'
  BY <1>3, OpenEmptyTyping
<1>4. ASSUME NEW s \in Sessions, Edit(s) PROVE Typing'
  BY <1>4, EditTyping
<1>5. ASSUME NEW s \in Sessions,
             \/ Move(s) \/ Panic(s) \/ Quit(s) \/ Ask(s) \/ Cancel(s) \/ Confirm(s) \/ Fail(s) \/ Kill(s)
      PROVE  Typing'
  BY <1>5, CalmTyping
<1>6. ASSUME NEW s \in Sessions, WriteRecord(s) \/ SyncRecords(s) \/ WriteTable(s) \/ SyncTable(s)
      PROVE  Typing'
  BY <1>6, WriteTyping
<1>7. CASE PowerLoss
  BY <1>7, PowerTyping
<1> QED
  BY <1>1, <1>2, <1>3, <1>4, <1>5, <1>6, <1>7 DEF Next

LEMMA TypingInit == Init => Typing
<1> SUFFICES ASSUME Init PROVE Typing
  OBVIOUS
<1>1. IsDisk(disk) /\ IsDisk(durable)
  BY DiskAssumption DEF Init
<1>2. \A s \in Sessions : session[s] = Closed
  BY DEF Init
<1>3. session \in [Sessions -> SessionSet] /\ \A s \in Sessions : SessionOK(session[s])
  BY <1>2, ClosedOK DEF Init
<1> QED
  BY <1>1, <1>3 DEF Typing, Init

LEMMA TypingAlways == Spec => []Typing
<1>1. Typing /\ [Next]_vars => Typing'
  BY TypingStep
<1> QED
  BY TypingInit, <1>1, PTL DEF Spec

(* Tables have the fields of tables, whoever edits and writes them, and after *)
(* any loss of power: what cfdisk reads, edits and writes stays a table.    *)
THEOREM TablesTyped == Spec => []TypeOK
<1>1. Typing => TypeOK
  <2> SUFFICES ASSUME Typing PROVE TypeOK
    OBVIOUS
  <2>1. ASSUME NEW s \in Sessions
        PROVE  LET m == session[s]
               IN  /\ m.st \in Steps
                   /\ m.parts \in [Slot -> Partition] /\ m.sector \in [Slot -> Partition]
                   /\ \A l \in m.logical : l \in Logical
                   /\ m.selected \in Nat /\ m.dirty \in BOOLEAN
                   /\ m.todo # {} => m.st = "records"
    BY DEF Typing, SessionOK, SessionSet
  <2> QED
    BY <2>1 DEF TypeOK, Typing
<1> QED
  BY <1>1, TypingAlways, PTL

-----------------------------------------------------------------------------
(* Sessions among each other. *)

Acts(r) ==
  \/ Open(r) \/ OpenEmpty(r) \/ Move(r) \/ Panic(r) \/ Edit(r) \/ Quit(r)
  \/ Ask(r) \/ Cancel(r) \/ Confirm(r)
  \/ WriteRecord(r) \/ SyncRecords(r) \/ WriteTable(r) \/ SyncTable(r)
  \/ Fail(r) \/ Kill(r)

LEMMA NextCases ==
  Next <=> (\E r \in Sessions : Acts(r)) \/ PowerLoss
  BY Zenon DEF Next, Acts

(* A step changes the session that takes it, and no other.                  *)
LEMMA OthersStay ==
  ASSUME Typing, NEW r \in Sessions, Acts(r)
  PROVE  /\ session' = [session EXCEPT ![r] = session'[r]]
         /\ \A s \in Sessions \ {r} : session'[s] = session[s]
<1>0. session = [s \in Sessions |-> session[s]]
  BY DEF Typing
<1>1. ASSUME NEW n, session' = [session EXCEPT ![r] = n]
      PROVE  /\ session' = [session EXCEPT ![r] = session'[r]]
             /\ \A s \in Sessions \ {r} : session'[s] = session[s]
  BY <1>0, <1>1
<1>2. CASE Open(r) \/ OpenEmpty(r)
  BY <1>1, <1>2 DEF Open, OpenEmpty, Changes, Becomes
<1>3. CASE Edit(r)
  BY <1>1, <1>3, EditKeeps DEF Typing
<1>4. CASE Move(r) \/ Panic(r) \/ Quit(r) \/ Fail(r) \/ Kill(r)
  BY <1>1, <1>4 DEF Move, Panic, Quit, Fail, Kill, Becomes
<1>5. CASE Ask(r) \/ Cancel(r) \/ SyncRecords(r) \/ WriteTable(r)
  BY <1>1, <1>5 DEF Ask, Cancel, SyncRecords, WriteTable, StepTo, Becomes
<1>6. CASE Confirm(r) \/ SyncTable(r)
  BY <1>1, <1>6 DEF Confirm, SyncTable, Becomes
<1>7. CASE WriteRecord(r)
  BY <1>1, <1>7 DEF WriteRecord, Becomes
<1> QED
  BY <1>2, <1>3, <1>4, <1>5, <1>6, <1>7 DEF Acts

LEMMA SameTableSound ==
  ASSUME NEW m, NEW n, n.parts = m.parts, n.logical = m.logical, Sound(m)
  PROVE  Sound(n)
  BY DEF Sound

LEMMA SoundStep ==
  ASSUME Typing, [Next]_vars, NEW s \in Sessions,
         In(s, "editing"), Sound(session[s]), session'[s].st # "closed"
  PROVE  Sound(session'[s])
<1> DEFINE m == session[s]
<1>0. m \in SessionSet /\ m.st = "editing" /\ session = [r \in Sessions |-> session[r]]
  BY DEF Typing, In
<1>1. CASE UNCHANGED vars
  BY <1>1 DEF vars
<1>2. CASE PowerLoss
  BY <1>2 DEF PowerLoss, Closed
<1>3. ASSUME NEW r \in Sessions \ {s}, Acts(r) PROVE Sound(session'[s])
  BY <1>3, OthersStay
<1>4. CASE Acts(s)
  <2>1. CASE Edit(s)
    BY <2>1, EditKeeps DEF Typing, Edits
  <2>2. CASE Move(s)
    <3>1. PICK row : session' = [session EXCEPT ![s] = [m EXCEPT !.selected = row]]
      BY <2>2 DEF Move, Becomes
    <3>2. session'[s] = [m EXCEPT !.selected = row]
      BY <1>0, <3>1
    <3>3. session'[s].parts = m.parts /\ session'[s].logical = m.logical
      BY <1>0, <3>2 DEF SessionSet
    <3> QED
      BY <3>3, SameTableSound
  <2>3. CASE Panic(s)
    <3>1. session'[s].parts = NoTable /\ session'[s].logical = {}
      BY <1>0, <2>3 DEF Panic, Becomes, Closed
    <3> QED
      BY <3>1, ClosedOK DEF Sound
  <2>4. CASE Quit(s) \/ Kill(s)
    BY <1>0, <2>4 DEF Quit, Kill, Becomes, Closed
  <2>5. CASE Ask(s)
    <3>1. session'[s].parts = m.parts /\ session'[s].logical = m.logical
      BY <1>0, <2>5 DEF Ask, StepTo, Becomes, SessionSet
    <3> QED
      BY <3>1, SameTableSound
  <2>6. ~ (Open(s) \/ OpenEmpty(s) \/ Cancel(s) \/ Confirm(s) \/ WriteRecord(s) \/ SyncRecords(s)
           \/ WriteTable(s) \/ SyncTable(s) \/ Fail(s))
    BY <1>0 DEF Open, OpenEmpty, Cancel, Confirm, WriteRecord, SyncRecords, WriteTable, SyncTable,
                Fail, StepTo, In, Writing
  <2> QED
    BY <1>4, <2>1, <2>2, <2>3, <2>4, <2>5, <2>6 DEF Acts
<1> QED
  BY <1>1, <1>2, <1>3, <1>4, NextCases

(* No sequence of new, delete, resize, sort and type leads from a table       *)
(* without overlaps to one that overlaps, leaves the disk or leaves logical  *)
(* partitions outside their container.                                      *)
THEOREM EditsStaySound == Spec => EditsKeepSound
<1>1. Typing /\ [Next]_vars =>
        [\A s \in Sessions :
           In(s, "editing") /\ Sound(session[s]) /\ session'[s].st # "closed"
              => Sound(session[s]')]_vars
  BY SoundStep
<1> QED
  BY <1>1, TypingAlways, PTL DEF Spec, EditsKeepSound

-----------------------------------------------------------------------------
(* One session at a time: all of them lock the disk. *)

Active(s) == session[s].st \notin {"closed", "panic"}

Alone == \A r, s \in Sessions : Active(r) /\ Active(s) => r = s

(* A session that acts is open already, or opens when no other is.          *)
LEMMA ActorAlone ==
  ASSUME Locking = Sessions, Typing, Alone, NEW r \in Sessions, Acts(r)
  PROVE  \A s \in Sessions \ {r} : session[s].st \in {"closed", "panic"}
<1>1. CASE Open(r) \/ OpenEmpty(r)
  BY <1>1 DEF Open, OpenEmpty, Locks
<1>2. CASE Edit(r)
  BY <1>2, EditKeeps DEF Typing, Alone, Active
<1>3. CASE ~ (Open(r) \/ OpenEmpty(r) \/ Edit(r))
  <2>1. Active(r)
    BY <1>3 DEF Acts, Move, Panic, Quit, Ask, Cancel, Confirm, WriteRecord, SyncRecords, WriteTable,
                SyncTable, Fail, Kill, StepTo, In, Writing, Active
  <2> QED
    BY <2>1 DEF Alone, Active
<1> QED
  BY <1>1, <1>2, <1>3

LEMMA AloneStep ==
  ASSUME Locking = Sessions, Typing, Alone, [Next]_vars
  PROVE  Alone'
<1>1. CASE UNCHANGED vars
  BY <1>1 DEF vars, Alone, Active
<1>2. CASE PowerLoss
  BY <1>2 DEF PowerLoss, Closed, Alone, Active
<1>3. ASSUME NEW r \in Sessions, Acts(r) PROVE Alone'
  BY <1>3, ActorAlone, OthersStay DEF Alone, Active
<1> QED
  BY <1>1, <1>2, <1>3, NextCases

(* What the table on the disk was when a session last read or wrote it.     *)
Based(m) ==
  FindExtended(m.sector) = {} => m.base = {[parts |-> m.sector, logical |-> {}]}

(* How far a write has come says what the disk d holds.                     *)
Written(d, m) ==
  /\ m.st \in {"records", "recordsync", "table"} => d[0] = m.sector
  /\ m.st = "tablesync" => d[0] = m.parts
  /\ m.st \in Writing => \A w \in Chain(m) \ m.todo : d[w.lba] = w.record
  /\ m.st = "editing" /\ ~ m.dirty /\ Linked(m)
        => ReadTable(d) = {[parts |-> m.parts, logical |-> m.logical]}

(* What a disk d shows and its medium u may lose is what is being written.  *)
Unsynced(m, l) ==
  \/ m.st \in {"records", "recordsync"} /\ l # 0
  \/ m.st = "tablesync" /\ l = 0

SettledFor(d, u, m) ==
  /\ \A l \in LBA : d[l] # u[l] => Unsynced(m, l)
  /\ m.st = "tablesync" => u[0] = m.sector

Settled ==
  trouble = "power" =>
    /\ \A l \in LBA : disk[l] # durable[l] => \E s \in Sessions : Unsynced(session[s], l)
    /\ \A s \in Sessions : In(s, "tablesync") => durable[0] = session[s].sector

Committed ==
  /\ Alone
  /\ \A s \in Sessions : Active(s) => Based(session[s]) /\ Written(disk, session[s])
  /\ Settled

(* The records of a checked table are apart from each other, from sector 0   *)
(* and from the data of every partition of the table.                       *)
LEMMA ChainApart ==
  ASSUME NEW m, SessionOK(m), Valid(m.parts, m.logical)
  PROVE  /\ \A w \in Chain(m) : w \in Writes /\ w.lba # 0 /\ ~ DataOf(m, w.lba)
         /\ \A v, w \in Chain(m) : v.lba = w.lba => v = w
<1> DEFINE p == m.parts
           e == Container(p)
<1>0. p \in [Slot -> Partition] /\ m.logical \in SUBSET Logical
  BY DEF SessionOK, SessionSet
<1>1. CASE FindExtended(p) = {}
  BY <1>1 DEF Chain
<1>2. CASE FindExtended(p) # {}
  <2>1. /\ e \in Partition /\ Least(FindExtended(p)) \in FindExtended(p)
        /\ e = p[Least(FindExtended(p))] /\ Least(FindExtended(p)) \in Slot
    BY <1>0, <1>2, ContainerFacts
  <2>2. ValidLogical(e, m.logical) /\ ValidPrimaries(p)
    BY <1>2 DEF Valid
  <2>3. Chain(m) = BuildChain(e, m.logical) /\ Chain(m) \subseteq Writes
    BY <1>0, <1>2, ChainWrites DEF Chain
  <2>4. /\ \A l \in m.logical : l.ebrLBA < l.start /\ l.start < End(l) /\ l.ebrLBA \in Nat /\ l.start \in Nat
        /\ \A l, k \in m.logical : l # k => End(l) <= k.ebrLBA \/ End(k) <= l.ebrLBA
        /\ \A l, k \in m.logical : l.ebrLBA = k.ebrLBA => l = k
    BY <1>0, <2>1, <2>2, RecordsInOrder
  <2>5. \A w \in Chain(m) : \E l \in m.logical :
          w = RecordOf(l, l.start - l.ebrLBA, LinkFrom(e.start, m.logical, l)) /\ w.lba = l.ebrLBA
    BY <2>3 DEF BuildChain, RecordOf
  <2>6. \A v, w \in Chain(m) : v.lba = w.lba => v = w
    BY <2>4, <2>5
  <2>7. ASSUME NEW l \in m.logical PROVE ~ DataOf(m, l.ebrLBA)
    <3>1. ASSUME NEW k \in m.logical PROVE ~ (l.ebrLBA >= k.start /\ l.ebrLBA < End(k))
      <4>1. End(k) \in Nat /\ End(l) \in Nat
        BY <1>0 DEF Logical, End
      <4> QED
        BY <2>4, <4>1
    <3>2. ASSUME NEW i \in Used(p) \ FindExtended(p)
          PROVE  ~ (l.ebrLBA >= p[i].start /\ l.ebrLBA < End(p[i]))
      <4>1. Least(FindExtended(p)) \in Used(p) /\ i # Least(FindExtended(p))
        BY <2>1 DEF FindExtended
      <4>2. ~ Overlap(p[i].start, End(p[i]), e.start, End(e))
        BY <2>1, <2>2, <4>1 DEF ValidPrimaries
      <4>3. l.ebrLBA >= e.start /\ End(l) <= End(e)
        BY <2>2 DEF ValidLogical
      <4>4. p[i].start \in Nat /\ End(p[i]) \in Nat /\ e.start \in Nat /\ End(e) \in Nat /\ End(l) \in Nat
        BY <1>0, <2>1 DEF Partition, Used, Logical, End
      <4> QED
        BY <2>4, <4>2, <4>3, <4>4 DEF Overlap
    <3> QED
      BY <3>1, <3>2 DEF DataOf
  <2>8. \A w \in Chain(m) : ~ DataOf(m, w.lba)
    BY <2>5, <2>7
  <2> QED
    BY <2>3, <2>6, <2>8 DEF Writes
<1> QED
  BY <1>1, <1>2

(* A disk with a checked table and its whole chain reads as that table.     *)
LEMMA TableReads ==
  ASSUME NEW d, NEW m, SessionOK(m), Valid(m.parts, m.logical), Linked(m),
         d[0] = m.parts, \A w \in Chain(m) : d[w.lba] = w.record
  PROVE  ReadTable(d) = {[parts |-> m.parts, logical |-> m.logical]}
<1> DEFINE e == Container(m.parts)
<1>0. m.parts \in [Slot -> Partition] /\ m.logical \in SUBSET Logical /\ IsFiniteSet(m.logical)
  BY DEF SessionOK, SessionSet
<1>1. CASE FindExtended(m.parts) = {}
  BY <1>1 DEF ReadTable, SessionOK
<1>2. CASE FindExtended(m.parts) # {}
  <2>1. e \in Partition /\ Least(FindExtended(m.parts)) \in FindExtended(m.parts)
        /\ e = m.parts[Least(FindExtended(m.parts))]
    BY <1>0, <1>2, ContainerFacts
  <2>2. e.start # 0 /\ End(e) <= Sectors
    BY <2>1 DEF Valid, ValidPrimaries, FindExtended
  <2>3. ValidLogical(e, m.logical)
    BY <1>2 DEF Valid
  <2>4. (\E l \in m.logical : l.ebrLBA = e.start) /\ Cardinality(m.logical) <= ChainLimit
    BY <1>2 DEF Linked
  <2>5. \A w \in BuildChain(e, m.logical) : d[w.lba] = w.record
    BY <1>2 DEF Chain
  <2>6. ReadChain(d, e) = {m.logical}
    BY <1>0, <2>1, <2>2, <2>3, <2>4, <2>5, ChainReadsBack
  <2> QED
    BY <1>2, <2>6 DEF ReadTable
<1> QED
  BY <1>1, <1>2

(* A disk whose table has no extended partition has nothing else to read.   *)
LEMMA PlainReads ==
  ASSUME NEW d, FindExtended(d[0]) = {}
  PROVE  ReadTable(d) = {[parts |-> d[0], logical |-> {}]}
  BY DEF ReadTable

(* What the session that acts knows, and what it has to show.               *)
LEMMA ActorKnows ==
  ASSUME Locking = Sessions, Typing, Committed, NEW r \in Sessions, Acts(r)
  PROVE  /\ session[r] \in SessionSet /\ SessionOK(session[r])
         /\ Active(r) => Based(session[r]) /\ Written(disk, session[r])
         /\ trouble = "power" => SettledFor(disk, durable, session[r])
<1>1. \A s \in Sessions \ {r} : session[s].st \in {"closed", "panic"}
  BY ActorAlone DEF Committed
<1>2. ASSUME trouble = "power" PROVE SettledFor(disk, durable, session[r])
  BY <1>1, <1>2 DEF Committed, Settled, SettledFor, Unsynced, In
<1> QED
  BY <1>2 DEF Typing, Committed

LEMMA ActorCommitted ==
  ASSUME Locking = Sessions, Typing, Committed, NEW r \in Sessions, Acts(r),
         session'[r].st \notin {"closed", "panic"}
            => Based(session'[r]) /\ Written(disk', session'[r]),
         trouble = "power" => SettledFor(disk', durable', session'[r]),
         trouble' = trouble
  PROVE  Committed'
<1>1. \A s \in Sessions \ {r} : session'[s] = session[s] /\ session[s].st \in {"closed", "panic"}
  BY ActorAlone, OthersStay DEF Committed
<1>2. Alone'
  BY AloneStep, NextCases DEF Committed
<1>3. \A s \in Sessions : Active(s)' => Based(session'[s]) /\ Written(disk', session'[s])
  BY <1>1 DEF Active
<1>4. Settled'
  BY <1>1 DEF Settled, SettledFor, Unsynced, In
<1> QED
  BY <1>2, <1>3, <1>4 DEF Committed

(* The steps of a session that leave the disk and the medium alone.         *)
LEMMA CalmCommitted ==
  ASSUME Locking = Sessions, Typing, Committed, NEW r \in Sessions,
         \/ Open(r) \/ OpenEmpty(r) \/ Edit(r) \/ Move(r) \/ Panic(r) \/ Quit(r)
         \/ Ask(r) \/ Cancel(r) \/ Confirm(r) \/ Fail(r) \/ Kill(r)
  PROVE  Committed'
<1> DEFINE m == session[r]
           n == session'[r]
<1>a. Acts(r)
  BY Zenon DEF Acts
<1>0. /\ m \in SessionSet /\ SessionOK(m)
      /\ m.st \notin {"closed", "panic"} => Based(m) /\ Written(disk, m)
      /\ trouble = "power" => SettledFor(disk, durable, m)
      /\ session = [s \in Sessions |-> session[s]]
  BY <1>a, ActorKnows DEF Typing, Active
<1>1. ASSUME UNCHANGED <<disk, durable, trouble>>,
             n.st \notin {"closed", "panic"} => Based(n) /\ Written(disk, n),
             trouble = "power" => m.st \notin Writing /\ n.st # "tablesync"
      PROVE  Committed'
  <2>1. ASSUME trouble = "power" PROVE SettledFor(disk', durable', n)
    BY <1>0, <1>1, <2>1 DEF SettledFor, Unsynced, Writing
  <2> QED
    BY <1>a, <1>1, <2>1, ActorCommitted
<1>2. CASE Open(r)
  <2>1. PICK t \in ReadTable(disk) :
          session' = [session EXCEPT ![r] =
                        [Closed EXCEPT !.st = "editing", !.parts = t.parts, !.logical = t.logical,
                                       !.sector = disk[0], !.base = ReadTable(disk)]]
    BY <1>2 DEF Open, Becomes
  <2>2. /\ ReadTable(disk) = {t} /\ t = [parts |-> disk[0], logical |-> t.logical]
    BY ReadTableFacts DEF Typing
  <2>3. n = [Closed EXCEPT !.st = "editing", !.parts = t.parts, !.logical = t.logical,
                           !.sector = disk[0], !.base = ReadTable(disk)]
    BY <1>0, <2>1
  <2>4. /\ n.st = "editing" /\ n.parts = t.parts /\ n.logical = t.logical
        /\ n.sector = disk[0] /\ n.base = ReadTable(disk)
    BY <2>3 DEF Closed
  <2>5. Based(n)
    BY <2>4, PlainReads DEF Based
  <2>6. Written(disk, n)
    BY <2>2, <2>4 DEF Written, Writing
  <2> QED
    BY <1>1, <1>2, <2>4, <2>5, <2>6 DEF Open, In, Writing
<1>3. CASE OpenEmpty(r)
  <2>1. n = [Closed EXCEPT !.st = "editing", !.sector = disk[0], !.base = ReadTable(disk), !.dirty = TRUE]
    BY <1>0, <1>3 DEF OpenEmpty, Changes, Becomes
  <2>2. n.st = "editing" /\ n.dirty /\ n.sector = disk[0] /\ n.base = ReadTable(disk)
    BY <2>1 DEF Closed
  <2>3. Based(n) /\ Written(disk, n)
    BY <2>2, PlainReads DEF Based, Written, Writing
  <2> QED
    BY <1>1, <1>3, <2>2, <2>3 DEF OpenEmpty, Changes, In, Writing
<1>4. CASE Edit(r)
  <2>1. Edits(m, n) /\ m.st = "editing" /\ UNCHANGED <<disk, durable, trouble>>
    BY <1>4, EditKeeps DEF Typing
  <2>2. Based(n) /\ Written(disk, n)
    BY <1>0, <2>1 DEF Edits, Based, Written, Writing
  <2> QED
    BY <1>1, <2>1, <2>2 DEF Edits, Writing
<1>5. CASE Move(r)
  <2>1. PICK row : session' = [session EXCEPT ![r] = [m EXCEPT !.selected = row]]
    BY <1>5 DEF Move, Becomes
  <2>2. n = [m EXCEPT !.selected = row]
    BY <1>0, <2>1
  <2>3. /\ n.st = m.st /\ n.parts = m.parts /\ n.logical = m.logical /\ n.dirty = m.dirty
        /\ n.sector = m.sector /\ n.base = m.base /\ m.st = "editing"
    BY <1>0, <1>5, <2>2 DEF SessionSet, Move, In
  <2>4. Linked(n) = Linked(m)
    BY <2>3 DEF Linked
  <2>5. Based(n) /\ Written(disk, n)
    BY <1>0, <2>3, <2>4 DEF Based, Written, Writing
  <2> QED
    BY <1>1, <1>5, <2>3, <2>5 DEF Move, Writing
<1>6. CASE Panic(r) \/ Quit(r)
  <2>1. n.st \in {"closed", "panic"} /\ m.st = "editing"
    BY <1>0, <1>6 DEF Panic, Quit, Becomes, Closed, In
  <2> QED
    BY <1>1, <1>6, <2>1 DEF Panic, Quit, Writing
<1>7. CASE Kill(r)
  <2>1. n.st = "closed" /\ trouble # "power"
    BY <1>0, <1>7 DEF Kill, Becomes, Closed
  <2> QED
    BY <1>1, <1>7, <2>1 DEF Kill
<1>8. CASE Fail(r)
  <2>1. n = [m EXCEPT !.st = "editing", !.todo = {}]
    BY <1>0, <1>8 DEF Fail, Becomes
  <2>2. m.dirty /\ m.st \notin {"closed", "panic"}
    BY <1>0, <1>8 DEF Fail, SessionOK, Writing
  <2>3. n.st = "editing" /\ n.dirty /\ n.sector = m.sector /\ n.base = m.base
    BY <1>0, <2>1, <2>2 DEF SessionSet
  <2>4. Based(n) /\ Written(disk, n)
    BY <1>0, <2>2, <2>3 DEF Based, Written, Writing
  <2> QED
    BY <1>1, <1>8, <2>4 DEF Fail
<1>9. CASE Ask(r)
  <2>1. n = [m EXCEPT !.st = "asked"] /\ m.st = "editing"
    BY <1>0, <1>9 DEF Ask, StepTo, Becomes, In
  <2>2. n.st = "asked" /\ n.sector = m.sector /\ n.base = m.base
    BY <1>0, <2>1 DEF SessionSet
  <2>3. Based(n) /\ Written(disk, n)
    BY <1>0, <2>1, <2>2 DEF Based, Written, Writing
  <2> QED
    BY <1>1, <1>9, <2>1, <2>2, <2>3 DEF Ask, Writing
<1>10. CASE Cancel(r)
  <2>1. n = [m EXCEPT !.st = "editing"] /\ m.st = "asked" /\ m.dirty
    BY <1>0, <1>10 DEF Cancel, StepTo, Becomes, In, SessionOK
  <2>2. n.st = "editing" /\ n.dirty /\ n.sector = m.sector /\ n.base = m.base
    BY <1>0, <2>1 DEF SessionSet
  <2>3. Based(n) /\ Written(disk, n)
    BY <1>0, <2>1, <2>2 DEF Based, Written, Writing
  <2> QED
    BY <1>1, <1>10, <2>1, <2>2, <2>3 DEF Cancel, Writing
<1>11. CASE Confirm(r)
  <2>1. /\ n = [m EXCEPT !.todo = Chain(m), !.st = IF Chain(m) = {} THEN "table" ELSE "records"]
        /\ m.st = "asked" /\ disk[0] = m.sector
    BY <1>0, <1>11 DEF Confirm, Becomes, In, Verified, Chain
  <2>2. /\ n.st \in {"records", "table"} /\ n.sector = m.sector /\ n.base = m.base
        /\ n.todo = Chain(m) /\ n.parts = m.parts /\ n.logical = m.logical
    BY <1>0, <2>1 DEF SessionSet
  <2>3. Chain(n) = Chain(m)
    BY <2>2 DEF Chain
  <2>4. Based(n) /\ Written(disk, n)
    BY <1>0, <2>1, <2>2, <2>3 DEF Based, Written, Writing
  <2> QED
    BY <1>1, <1>11, <2>1, <2>2, <2>4 DEF Confirm, Writing
<1> QED
  BY <1>2, <1>3, <1>4, <1>5, <1>6, <1>7, <1>8, <1>9, <1>10, <1>11

(* The steps of a write.                                                    *)
LEMMA WriteCommitted ==
  ASSUME Locking = Sessions, Typing, Committed, NEW r \in Sessions,
         WriteRecord(r) \/ SyncRecords(r) \/ WriteTable(r) \/ SyncTable(r)
  PROVE  Committed'
<1> DEFINE m == session[r]
           n == session'[r]
<1>a. Acts(r)
  BY Zenon DEF Acts
<1>0. /\ m \in SessionSet /\ SessionOK(m)
      /\ m.st \notin {"closed", "panic"} => Based(m) /\ Written(disk, m)
      /\ trouble = "power" => SettledFor(disk, durable, m)
      /\ session = [s \in Sessions |-> session[s]]
      /\ disk = [l \in LBA |-> disk[l]] /\ 0 \in LBA
  <2>1. disk = [l \in LBA |-> disk[l]] /\ 0 \in LBA
    BY DEF Typing, IsDisk, LBA
  <2> QED
    BY <1>a, <2>1, ActorKnows DEF Typing, Active
<1>1. /\ m.st \in Writing
      /\ Based(m) /\ Written(disk, m)
      /\ Valid(m.parts, m.logical)
      /\ trouble' = trouble
  BY <1>0 DEF WriteRecord, SyncRecords, WriteTable, SyncTable, StepTo, In, Writing, SessionOK
<1>2. /\ \A w \in Chain(m) : w \in Writes /\ w.lba # 0
      /\ \A v, w \in Chain(m) : v.lba = w.lba => v = w
  BY <1>0, <1>1, ChainApart
<1>3. CASE WriteRecord(r)
  <2>1. PICK w \in m.todo :
          /\ w \in Writes /\ w \in Chain(m) /\ m.st = "records"
          /\ disk' = [disk EXCEPT ![w.lba] = w.record]
          /\ session' = [session EXCEPT ![r] =
                [m EXCEPT !.todo = m.todo \ {w},
                          !.st = IF m.todo = {w} THEN "recordsync" ELSE "records"]]
          /\ UNCHANGED durable
    BY <1>3, WriteFacts
  <2>2. n = [m EXCEPT !.todo = m.todo \ {w},
                      !.st = IF m.todo = {w} THEN "recordsync" ELSE "records"]
    BY <1>0, <2>1
  <2>3. /\ n.st \in {"records", "recordsync"} /\ n.todo = m.todo \ {w}
        /\ n.parts = m.parts /\ n.logical = m.logical /\ n.sector = m.sector /\ n.base = m.base
    BY <1>0, <2>2 DEF SessionSet
  <2>4. Chain(n) = Chain(m)
    BY <2>3 DEF Chain
  <2>5. disk'[0] = disk[0] /\ w.lba \in LBA
    BY <1>2, <2>1 DEF Writes
  <2>6. ASSUME NEW v \in Chain(n) \ n.todo PROVE disk'[v.lba] = v.record
    <3>1. v.lba \in LBA /\ v \in Chain(m)
      BY <1>2, <2>4 DEF Writes
    <3>2. CASE v = w
      BY <1>0, <2>1, <3>1, <3>2
    <3>3. CASE v # w
      <4>1. v \in Chain(m) \ m.todo /\ v.lba # w.lba
        BY <1>2, <2>1, <2>3, <2>4, <3>3
      <4>2. disk[v.lba] = v.record
        BY <1>1, <4>1 DEF Written
      <4> QED
        BY <1>0, <2>1, <3>1, <4>1, <4>2
    <3> QED
      BY <3>2, <3>3
  <2>7. Based(n)
    BY <1>1, <2>3 DEF Based
  <2>8. Written(disk', n)
    BY <1>1, <2>1, <2>3, <2>5, <2>6 DEF Written
  <2>9. ASSUME trouble = "power" PROVE SettledFor(disk', durable', n)
    <3>1. ASSUME NEW l \in LBA, disk'[l] # durable[l] PROVE l # 0
      BY <1>0, <2>1, <2>5, <2>9, <3>1 DEF SettledFor, Unsynced
    <3> QED
      BY <2>1, <2>3, <3>1 DEF SettledFor, Unsynced
  <2> QED
    BY <1>a, <1>1, <2>7, <2>8, <2>9, ActorCommitted
<1>4. CASE SyncRecords(r)
  <2>1. m.st = "recordsync" /\ n = [m EXCEPT !.st = "table"] /\ disk' = disk /\ durable' = disk
    BY <1>0, <1>4 DEF SyncRecords, StepTo, In, Becomes
  <2>2. /\ n.st = "table" /\ n.parts = m.parts /\ n.logical = m.logical /\ n.sector = m.sector
        /\ n.base = m.base /\ n.todo = m.todo
    BY <1>0, <2>1 DEF SessionSet
  <2>3. Chain(n) = Chain(m)
    BY <2>2 DEF Chain
  <2>4. Based(n) /\ Written(disk', n)
    BY <1>1, <2>1, <2>2, <2>3 DEF Based, Written, Writing
  <2>5. SettledFor(disk', durable', n)
    BY <2>1, <2>2 DEF SettledFor
  <2> QED
    BY <1>a, <1>1, <2>4, <2>5, ActorCommitted
<1>5. CASE WriteTable(r)
  <2>1. /\ m.st = "table" /\ n = [m EXCEPT !.st = "tablesync"]
        /\ disk' = [disk EXCEPT ![0] = m.parts] /\ durable' = durable
    BY <1>0, <1>5 DEF WriteTable, StepTo, In, Becomes
  <2>2. /\ n.st = "tablesync" /\ n.parts = m.parts /\ n.logical = m.logical /\ n.sector = m.sector
        /\ n.base = m.base /\ n.todo = m.todo
    BY <1>0, <2>1 DEF SessionSet
  <2>3. Chain(n) = Chain(m)
    BY <2>2 DEF Chain
  <2>4. ASSUME NEW w \in Chain(n) \ n.todo PROVE disk'[w.lba] = w.record
    <3>1. w.lba \in LBA \ {0} /\ w \in Chain(m) \ m.todo
      BY <1>2, <2>2, <2>3 DEF Writes
    <3>2. disk[w.lba] = w.record
      BY <1>1, <3>1 DEF Written
    <3> QED
      BY <1>0, <2>1, <3>1, <3>2
  <2>5. Based(n) /\ Written(disk', n)
    BY <1>0, <1>1, <2>1, <2>2, <2>4 DEF Based, Written, Writing
  <2>6. ASSUME trouble = "power" PROVE SettledFor(disk', durable', n)
    <3>1. \A l \in LBA : disk[l] = durable[l]
      BY <1>0, <2>1, <2>6 DEF SettledFor, Unsynced
    <3>2. disk[0] = m.sector
      BY <1>1, <2>1 DEF Written
    <3> QED
      BY <1>0, <2>1, <2>2, <3>1, <3>2 DEF SettledFor, Unsynced
  <2> QED
    BY <1>a, <1>1, <2>5, <2>6, ActorCommitted
<1>6. CASE SyncTable(r)
  <2>1. /\ m.st = "tablesync" /\ disk' = disk /\ durable' = disk
        /\ n = [m EXCEPT !.st = "editing", !.sector = m.parts, !.dirty = FALSE,
                         !.base = {[parts |-> m.parts, logical |-> m.logical]}]
    BY <1>0, <1>6 DEF SyncTable, In, Becomes
  <2>2. /\ n.st = "editing" /\ n.parts = m.parts /\ n.logical = m.logical /\ n.sector = m.parts
        /\ n.base = {[parts |-> m.parts, logical |-> m.logical]}
    BY <1>0, <2>1 DEF SessionSet
  <2>3. m.todo = {} /\ (FindExtended(m.parts) = {} => m.logical = {})
    BY <1>0, <2>1 DEF SessionOK
  <2>4. Based(n)
    BY <2>2, <2>3 DEF Based
  <2>5. Linked(n) = Linked(m)
    BY <2>2 DEF Linked
  <2>6. ASSUME Linked(m) PROVE ReadTable(disk) = {[parts |-> m.parts, logical |-> m.logical]}
    BY <1>0, <1>1, <2>1, <2>3, <2>6, TableReads DEF Written, Writing
  <2>7. Written(disk', n)
    BY <2>1, <2>2, <2>5, <2>6 DEF Written, Writing
  <2>8. SettledFor(disk', durable', n)
    BY <2>1, <2>2 DEF SettledFor
  <2> QED
    BY <1>a, <1>1, <2>4, <2>7, <2>8, ActorCommitted
<1> QED
  BY <1>3, <1>4, <1>5, <1>6

(* What power takes away leaves no session behind.                          *)
LEMMA PowerCommitted ==
  ASSUME Typing, Committed, PowerLoss
  PROVE  Committed'
<1>1. \A s \in Sessions : session'[s] = Closed
  BY DEF PowerLoss
<1>2. \A s \in Sessions : session'[s].st = "closed"
  BY <1>1 DEF Closed
<1>3. Settled'
  BY <1>2 DEF Settled, PowerLoss, In
<1> QED
  BY <1>2, <1>3 DEF Committed, Alone, Active

LEMMA CommittedStep ==
  ASSUME Locking = Sessions, Typing, Committed, [Next]_vars
  PROVE  Committed'
<1>1. CASE UNCHANGED vars
  BY <1>1 DEF vars, Committed, Alone, Active, Written, Settled, In
<1>2. CASE PowerLoss
  BY <1>2, PowerCommitted
<1>3. ASSUME NEW r \in Sessions, Acts(r) PROVE Committed'
  BY <1>3, CalmCommitted, WriteCommitted DEF Acts
<1> QED
  BY <1>1, <1>2, <1>3, NextCases

LEMMA CommittedInit ==
  ASSUME Init
  PROVE  Committed
<1>1. \A s \in Sessions : session[s].st = "closed"
  BY DEF Init, Closed
<1> QED
  BY <1>1 DEF Init, Committed, Alone, Active, Settled, In

LEMMA CommittedAlways ==
  ASSUME Locking = Sessions
  PROVE  Spec => [](Typing /\ Committed)
<1>1. Init => Committed
  BY CommittedInit
<1>2. Typing /\ Committed /\ [Next]_vars => Committed'
  BY CommittedStep
<1> QED
  BY TypingAlways, <1>1, <1>2, PTL DEF Spec

-----------------------------------------------------------------------------
(* The promises. *)

(* A session without unsaved changes, on a disk that all sessions lock,      *)
(* shows what the next session will read from it, if the chain of its        *)
(* logical partitions starts where it is looked for and is no longer than    *)
(* is read.                                                                 *)
THEOREM SavedReadsBack ==
  ASSUME Locking = Sessions
  PROVE  Spec => []LinkedReadsBack
<1>1. Typing /\ Committed => LinkedReadsBack
  BY DEF Committed, LinkedReadsBack, ReadsAs, Written, Active, In
<1> QED
  BY <1>1, CommittedAlways, PTL

(* A step of a write of a session with the disk to itself leaves the data    *)
(* alone.                                                                  *)
LEMMA DataStep ==
  ASSUME Locking = Sessions, Typing, Committed, [Next]_vars,
         NEW s \in Sessions, session[s].st \in Writing, session'[s].st # "closed",
         NEW l \in LBA, disk'[l] # disk[l]
  PROVE  l = 0 \/ ~ DataOf(session[s], l)
<1> DEFINE m == session[s]
<1>0. SessionOK(m) /\ Valid(m.parts, m.logical)
  BY DEF Typing, SessionOK
<1>1. CASE UNCHANGED vars
  BY <1>1 DEF vars
<1>2. CASE PowerLoss
  BY <1>2 DEF PowerLoss, Closed
<1>3. ASSUME NEW r \in Sessions, Acts(r) PROVE l = 0 \/ ~ DataOf(m, l)
  <2>1. r = s
    BY <1>3, ActorAlone DEF Committed, Writing
  <2>2. CASE WriteRecord(s)
    <3>1. PICK w \in m.todo : w \in Chain(m) /\ disk' = [disk EXCEPT ![w.lba] = w.record]
      BY <2>2, WriteFacts
    <3>2. l = w.lba
      BY <3>1 DEF Typing, IsDisk
    <3> QED
      BY <1>0, <3>1, <3>2, ChainApart
  <2>3. CASE WriteTable(s)
    BY <2>3 DEF WriteTable, Typing, IsDisk
  <2>4. CASE Edit(s)
    BY <2>4, EditKeeps DEF Typing
  <2>5. ASSUME ~ (WriteRecord(s) \/ WriteTable(s) \/ Edit(s)) PROVE disk' = disk
    BY <1>3, <2>1, <2>5 DEF Acts, Open, OpenEmpty, Changes, Move, Panic, Quit, Ask, Cancel, Confirm,
                            SyncRecords, SyncTable, Fail, Kill
  <2> QED
    BY <2>2, <2>3, <2>4, <2>5
<1> QED
  BY <1>1, <1>2, <1>3, NextCases

(* Writing a table, boot records included, leaves the sectors of every        *)
(* partition in it alone, on a disk that all sessions lock.                 *)
THEOREM WritesLeaveData ==
  ASSUME Locking = Sessions
  PROVE  Spec => DataUntouched
<1>1. Typing /\ Committed /\ [Next]_vars =>
        [\A s \in Sessions :
           session[s].st \in Writing /\ session'[s].st # "closed"
              => \A l \in LBA : disk'[l] # disk[l] => l = 0 \/ ~ DataOf(session[s], l)]_vars
  BY DataStep
<1> QED
  BY <1>1, CommittedAlways, PTL DEF Spec, DataUntouched

(* Before, at and after every step of a first write of logical partitions    *)
(* the disk reads as the old table or as the new one.                       *)
LEMMA FirstChainStep ==
  ASSUME Locking = Sessions, Typing, Committed, [Next]_vars,
         NEW s \in Sessions, session[s].st \in Writing, Linked(session[s]),
         FindExtended(session[s].sector) = {}
  PROVE  LET new == {[parts |-> session[s].parts, logical |-> session[s].logical]}
         IN  /\ ReadTable(disk) = session[s].base \/ ReadTable(disk) = new
             /\ ReadTable(disk') = session[s].base \/ ReadTable(disk') = new
<1> DEFINE m == session[s]
           new == {[parts |-> m.parts, logical |-> m.logical]}
<1>0. /\ m \in SessionSet /\ SessionOK(m) /\ Valid(m.parts, m.logical)
      /\ Based(m) /\ Written(disk, m)
  BY DEF Typing, SessionOK, Committed, Active, Writing
<1>1. ASSUME NEW d, d[0] = m.sector PROVE ReadTable(d) = m.base
  BY <1>0, <1>1, PlainReads DEF Based
<1>2. ASSUME NEW d, m.todo = {}, d[0] = m.parts, \A w \in Chain(m) : d[w.lba] = disk[w.lba]
      PROVE  ReadTable(d) = new
  <2>1. \A w \in Chain(m) : d[w.lba] = w.record
    BY <1>0, <1>2 DEF Written
  <2> QED
    BY <1>0, <1>2, <2>1, TableReads
<1>3. m.st # "records" => m.todo = {}
  BY <1>0 DEF SessionOK
<1>4. /\ m.st # "tablesync" => disk[0] = m.sector
      /\ m.st = "tablesync" => disk[0] = m.parts
  BY <1>0 DEF Written, Writing
<1>5. ReadTable(disk) = m.base \/ ReadTable(disk) = new
  BY <1>1, <1>2, <1>3, <1>4
<1>6. CASE UNCHANGED disk
  BY <1>5, <1>6
<1>7. \A w \in Chain(m) : w \in Writes /\ w.lba # 0
  BY <1>0, ChainApart
<1>8. ASSUME PowerLoss PROVE ReadTable(disk') = m.base \/ ReadTable(disk') = new
  <2>1. \A r \in Sessions \ {s} : session[r].st \in {"closed", "panic"}
    BY DEF Committed, Alone, Active, Writing
  <2>2. SettledFor(disk, durable, m)
    BY <1>8, <2>1 DEF PowerLoss, Committed, Settled, SettledFor, Unsynced, In
  <2>3. \A l \in LBA : disk'[l] \in {disk[l], durable[l]}
    BY <1>8 DEF PowerLoss
  <2>4. 0 \in LBA
    BY DEF LBA
  <2>5. CASE m.st # "tablesync"
    <3>1. disk'[0] = m.sector
      BY <1>4, <2>2, <2>3, <2>4, <2>5 DEF SettledFor, Unsynced
    <3> QED
      BY <1>1, <3>1
  <2>6. CASE m.st = "tablesync"
    <3>1. disk'[0] = m.sector \/ disk'[0] = m.parts
      BY <1>4, <2>2, <2>3, <2>4, <2>6 DEF SettledFor
    <3>2. \A w \in Chain(m) : disk'[w.lba] = disk[w.lba]
      BY <1>7, <2>2, <2>3, <2>6 DEF SettledFor, Unsynced, Writes
    <3> QED
      BY <1>1, <1>2, <1>3, <2>6, <3>1, <3>2
  <2> QED
    BY <2>5, <2>6
<1>9. ASSUME NEW r \in Sessions, Acts(r), disk' # disk
      PROVE  ReadTable(disk') = m.base \/ ReadTable(disk') = new
  <2>1. r = s
    BY <1>9, ActorAlone DEF Committed, Writing
  <2>2. CASE WriteRecord(s)
    <3>1. PICK w \in m.todo : /\ w \in Chain(m) /\ m.st = "records"
                              /\ disk' = [disk EXCEPT ![w.lba] = w.record]
      BY <2>2, WriteFacts
    <3>2. disk'[0] = m.sector
      BY <1>4, <1>7, <3>1
    <3> QED
      BY <1>1, <3>2
  <2>3. CASE WriteTable(s)
    <3>1. m.st = "table" /\ disk' = [disk EXCEPT ![0] = m.parts]
      BY <2>3 DEF WriteTable, StepTo, In
    <3>2. disk'[0] = m.parts /\ \A w \in Chain(m) : disk'[w.lba] = disk[w.lba]
      BY <1>7, <3>1 DEF Typing, IsDisk, Writes, LBA
    <3> QED
      BY <1>2, <1>3, <3>1, <3>2
  <2>4. CASE Edit(s)
    BY <1>9, <2>4, EditKeeps DEF Typing
  <2>5. ASSUME ~ (WriteRecord(s) \/ WriteTable(s) \/ Edit(s)) PROVE FALSE
    BY <1>9, <2>1, <2>5 DEF Acts, Open, OpenEmpty, Changes, Move, Panic, Quit, Ask, Cancel, Confirm,
                            SyncRecords, SyncTable, Fail, Kill
  <2> QED
    BY <2>2, <2>3, <2>4, <2>5
<1>10. ReadTable(disk') = m.base \/ ReadTable(disk') = new
  BY <1>5, <1>8, <1>9, NextCases DEF vars
<1> QED
  BY <1>5, <1>10

(* The extended partition's own entry never points at a chain that was not    *)
(* fully committed: at every step of a write to a disk that had no extended   *)
(* partition, and after a loss of power in it, the disk reads as the old      *)
(* table or as the new one, if all sessions lock the disk.                  *)
THEOREM FirstChainSafe ==
  ASSUME Locking = Sessions
  PROVE  Spec => FirstChainCommitted
<1>1. Typing /\ Committed /\ [Next]_vars =>
        [\A s \in Sessions :
           /\ session[s].st \in Writing
           /\ Linked(session[s])
           /\ FindExtended(session[s].sector) = {}
           => OldOrNew(s) /\ (ReadTable(disk') = session[s].base
                               \/ ReadTable(disk') = {[parts |-> session[s].parts,
                                                       logical |-> session[s].logical]})]_vars
  BY FirstChainStep DEF OldOrNew, ReadsAs
<1> QED
  BY <1>1, CommittedAlways, PTL DEF Spec, FirstChainCommitted
=============================================================================
