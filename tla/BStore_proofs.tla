----------------------------- MODULE BStore_proofs -----------------------------
(***************************************************************************)
(* Proofs about the store, for any contents, any number of sessions and a  *)
(* file of any length: the file and the object stay well typed, and if the *)
(* program changes a store only at the end of its file, every store in the *)
(* file stays readable and a session is one of the abstract store's.       *)
(***************************************************************************)
EXTENDS BStoreProperties, TLAPS

-----------------------------------------------------------------------------
(* Blocks *)

\* A lookup table and flags refer to what is before them.
BlocksInside ==
    \A i \in 1..Len(disk) :
       /\ disk[i].kind = "lookup" => \A k \in 1..Len(disk[i].table) : disk[i].table[k] < i
       /\ disk[i].kind = "flags" => disk[i].previous < i

-----------------------------------------------------------------------------
(* The inductive invariant of a program that changes no older store *)

\* Flags, beyond what WellFormed says of them: all versions of a file have a header, or none.
FlagsInv(end) ==
    /\ WellFormed(end) /\ end <= flushed
    /\ disk[end].header <= disk[end].lookup
    /\ disk[end].previous # 0 => disk[disk[end].previous].has = disk[end].has

FileInv == \A end \in 1..Len(disk) : EndsInFlags(end) => FlagsInv(end)

\* An object that has nothing open.
NothingOpen ==
    /\ m_lookup = <<>> /\ m_variables = Nothing /\ Header = Nothing
    /\ m_open_file_end = 0

\* The store that was opened, and the entries that it has now.
OpenInv ==
    /\ exists
    /\ m_open_file_end # 0 => /\ EndsInFlags(m_open_file_end)
                              /\ disk[m_open_file_end].has = m_has_header
    /\ \A k \in 1..Len(m_lookup) : IsBlock(m_lookup[k], "map")
    /\ ~m_has_header => Header = Nothing

WorkInv ==
    /\ m_previous_file_end = IF m_open_file_end = 0 THEN 0 ELSE disk[m_open_file_end].previous
    /\ m_update => m_file_end = Len(disk)
    /\ \A k \in 1..Len(m_lookup) : m_lookup[k] < m_file_end

\* Between WriteLookup and WriteFlags.
ClosingInv ==
    /\ m_previous_file_end = m_open_file_end
    /\ m_lookup_start + 1 = Len(disk) /\ disk[Len(disk)] = LookupBlock(m_lookup)
    /\ m_header_start <= m_lookup_start
    /\ m_has_header => /\ m_header_start + 1 = m_lookup_start
                       /\ disk[m_header_start + 1] = MapBlock(Header)
    /\ \A k \in 1..Len(m_lookup) : m_lookup[k] < m_header_start

SessionInv ==
    /\ obj \in {"none", "broken"} => NothingOpen
    /\ ~exists => disk = <<>>
    /\ obj \in {"open", "closing"} => OpenInv
    /\ obj = "open" => WorkInv
    /\ obj = "closing" => ClosingInv

-----------------------------------------------------------------------------
(* Sequences *)

LEMMA ConcatFacts ==
    ASSUME NEW S, NEW s \in Seq(S), NEW t \in Seq(S)
    PROVE  /\ s \o t \in Seq(S) /\ Len(s \o t) = Len(s) + Len(t)
           /\ Len(s) \in Nat /\ Len(t) \in Nat
           /\ \A i \in 1..Len(s) : (s \o t)[i] = s[i]
           /\ \A i \in 1..Len(t) : (s \o t)[Len(s) + i] = t[i]
  OBVIOUS

LEMMA AppendFacts ==
    ASSUME NEW S, NEW s \in Seq(S), NEW x \in S
    PROVE  /\ Append(s, x) \in Seq(S) /\ Len(Append(s, x)) = Len(s) + 1
           /\ Len(s) \in Nat
           /\ \A i \in 1..Len(s) : Append(s, x)[i] = s[i]
           /\ Append(s, x)[Len(s) + 1] = x
  OBVIOUS

LEMMA ReplaceFacts ==
    ASSUME NEW S, NEW s \in Seq(S), NEW p \in 1..Len(s), NEW x \in S
    PROVE  /\ [s EXCEPT ![p] = x] \in Seq(S) /\ Len([s EXCEPT ![p] = x]) = Len(s)
           /\ \A i \in 1..Len(s) : [s EXCEPT ![p] = x][i] = IF i = p THEN x ELSE s[i]
  OBVIOUS

LEMMA PrefixFacts ==
    ASSUME NEW S, NEW s \in Seq(S), NEW n \in 0..Len(s)
    PROVE  /\ SubSeq(s, 1, n) \in Seq(S) /\ Len(SubSeq(s, 1, n)) = n
           /\ \A i \in 1..n : SubSeq(s, 1, n)[i] = s[i]
  OBVIOUS

LEMMA EmptyFacts ==
    ASSUME NEW S, NEW s \in Seq(S)
    PROVE  /\ s = <<>> <=> Len(s) = 0
           /\ Len(s) \in Nat
           /\ \A i \in 1..Len(s) : s[i] \in S
           /\ <<>> \in Seq(S) /\ Len(<<>>) = 0
  OBVIOUS

\* What RemoveAt leaves.
LEMMA RemoveFacts ==
    ASSUME NEW S, NEW s \in Seq(S), NEW p \in 1..Len(s)
    PROVE  /\ RemoveAt(s, p) \in Seq(S) /\ Len(RemoveAt(s, p)) = Len(s) - 1
           /\ \A i \in 1..(Len(s) - 1) :
                 RemoveAt(s, p)[i] = IF i < p THEN s[i] ELSE s[i + 1]
<1> DEFINE a == SubSeq(s, 1, p - 1)
           b == SubSeq(s, p + 1, Len(s))
<1>1. a \in Seq(S) /\ Len(a) = p - 1 /\ \A i \in 1..(p - 1) : a[i] = s[i]
  OBVIOUS
<1>2. b \in Seq(S) /\ Len(b) = Len(s) - p /\ \A i \in 1..(Len(s) - p) : b[i] = s[p + i]
  OBVIOUS
<1>3. RemoveAt(s, p) = a \o b
  BY DEF RemoveAt
<1>4. Len(s) \in Nat /\ p \in Nat /\ p <= Len(s) /\ p >= 1
  OBVIOUS
<1> HIDE DEF a, b
<1>5. a \o b \in Seq(S) /\ Len(a \o b) = Len(s) - 1
  <2>1. a \o b \in Seq(S) /\ Len(a \o b) = Len(a) + Len(b)
    BY <1>1, <1>2, ConcatFacts
  <2>2. Len(a) + Len(b) = Len(s) - 1
    BY <1>1, <1>2, <1>4
  <2>3. QED
    BY <2>1, <2>2
<1>6. ASSUME NEW i \in 1..(Len(s) - 1)
      PROVE  (a \o b)[i] = IF i < p THEN s[i] ELSE s[i + 1]
  <2>1. CASE i < p
    BY <1>1, <1>2, <1>4, <2>1, ConcatFacts
  <2>2. CASE ~(i < p)
    <3>1. i - p + 1 \in 1..Len(b) /\ Len(a) + (i - p + 1) = i /\ p + (i - p + 1) = i + 1
      BY <1>1, <1>2, <1>4, <2>2
    <3>2. (a \o b)[Len(a) + (i - p + 1)] = b[i - p + 1]
      BY <1>1, <1>2, <3>1, ConcatFacts
    <3>3. b[i - p + 1] = s[p + (i - p + 1)]
      BY <1>2, <3>1
    <3>4. QED
      BY <2>2, <3>1, <3>2, <3>3
  <2>3. QED
    BY <2>1, <2>2
<1>7. QED
  BY <1>3, <1>5, <1>6

-----------------------------------------------------------------------------
(* Types: the lemmas about blocks, then one step per action *)

\* The fields of a block, by its kind.
LEMMA BlockFields ==
    ASSUME TypeOK, NEW i \in 1..Len(disk)
    PROVE  /\ disk[i] \in Blocks
           /\ disk[i].kind = "map" => disk[i].value \in Contents
           /\ disk[i].kind = "lookup" => disk[i].table \in Seq(Nat)
           /\ disk[i].kind = "flags" => /\ disk[i].header \in Nat /\ disk[i].lookup \in Nat
                                        /\ disk[i].previous \in Nat /\ disk[i].has \in BOOLEAN
<1>1. disk[i] \in Blocks
  BY EmptyFacts DEF TypeOK
<1>2. QED
  BY <1>1 DEF Blocks, Offsets

LEMMA MadeBlocks ==
    /\ \A v \in Contents : MapBlock(v) \in Blocks
    /\ \A table \in Seq(Nat) : LookupBlock(table) \in Blocks
    /\ \A h, l, p \in Nat, has \in BOOLEAN : FlagsBlock(h, has, l, p) \in Blocks
  BY DEF MapBlock, LookupBlock, FlagsBlock, Blocks, Offsets

LEMMA MapAtType ==
    ASSUME TypeOK, NEW pos \in Nat
    PROVE  MapAt(pos) \in Contents
<1>1. CASE IsBlock(pos, "map")
  <2>1. pos + 1 \in 1..Len(disk) /\ disk[pos + 1].kind = "map"
    BY <1>1 DEF IsBlock, TypeOK
  <2>2. QED
    BY <1>1, <2>1, BlockFields DEF MapAt
<1>2. CASE ~IsBlock(pos, "map")
  BY <1>2 DEF MapAt, Contents
<1>3. QED
  BY <1>1, <1>2

\* A lookup table that is read holds offsets of the file.
LEMMA TableForType ==
    ASSUME TypeOK, BlocksInside, NEW end \in 0..Len(disk)
    PROVE  /\ TableFor(end) \in Seq(0..(Len(disk) - 1))
           /\ TableFor(end) # <<>> => /\ EndsInFlags(end) /\ end \in 1..Len(disk)
                                      /\ IsBlock(disk[end].lookup, "lookup")
                                      /\ TableFor(end) = disk[disk[end].lookup + 1].table
<1>1. CASE ~EndsInFlags(end)
  BY <1>1 DEF TableFor
<1>2. CASE EndsInFlags(end)
  <2> DEFINE pos == disk[end].lookup
             table == disk[pos + 1].table
  <2>1. end \in 1..Len(disk) /\ pos \in Nat
    BY <1>2, BlockFields DEF EndsInFlags, TypeOK
  <2>2. CASE ~IsBlock(pos, "lookup")
    BY <1>2, <2>2 DEF TableFor, TableAt
  <2>3. CASE IsBlock(pos, "lookup")
    <3>1. pos + 1 \in 1..Len(disk) /\ disk[pos + 1].kind = "lookup" /\ Len(disk) \in Nat
      BY <2>1, <2>3 DEF IsBlock, TypeOK
    <3>2. table \in Seq(Nat) /\ \A k \in 1..Len(table) : table[k] < pos + 1
      BY <3>1, BlockFields DEF BlocksInside
    <3>3. TableFor(end) = table
      BY <1>2, <2>3 DEF TableFor, TableAt
    <3>4. table \in Seq(0..(Len(disk) - 1))
      <4> HIDE DEF table, pos
      <4>1. \A k \in 1..Len(table) : table[k] \in 0..(Len(disk) - 1)
        BY <2>1, <3>1, <3>2
      <4>2. QED
        BY <3>2, <4>1
    <3>5. QED
      BY <1>2, <2>1, <2>3, <3>3, <3>4
  <2>4. QED
    BY <2>2, <2>3
<1>3. QED
  BY <1>1, <1>2

LEMMA GoneTypes ==
    ASSUME StoreAssumption, NEW fate \in {"none", "broken"}, Gone(fate),
           exists' \in BOOLEAN, disk' \in Seq(Blocks), flushed' \in 0..Len(disk')
    PROVE  TypeOK'
<1>1. Len(disk') \in Nat /\ Nothing \in Contents
  BY DEF StoreAssumption, Contents
<1>2. m_lookup' \in Seq(0..(Len(disk') - 1))
  BY DEF Gone
<1>3. /\ obj' \in {"none", "open", "closing", "broken"}
      /\ m_variables' \in Contents /\ Header' \in Contents
      /\ m_has_header' \in BOOLEAN /\ m_update' \in BOOLEAN
  BY <1>1 DEF Gone
<1>4. /\ m_file_end' \in 0..Len(disk') /\ m_open_file_end' \in 0..m_file_end'
      /\ m_previous_file_end' \in 0..m_open_file_end'
      /\ m_header_start' \in Nat /\ m_lookup_start' \in Nat
  BY <1>1 DEF Gone
<1>5. QED
  BY <1>2, <1>3, <1>4 DEF TypeOK, Offsets

LEMMA ReadTypes ==
    ASSUME StoreAssumption, TypeOK, BlocksInside, NEW end \in 0..Len(disk), ReadStore(end),
           UNCHANGED <<exists, disk>>, flushed' = Len(disk)
    PROVE  TypeOK' /\ BlocksInside'
<1>0. Len(disk) \in Nat /\ disk \in Seq(Blocks)
  BY DEF TypeOK
<1>1. BlocksInside'
  BY DEF BlocksInside
<1>2. CASE TableFor(end) = <<>>
  <2>1. Gone("broken")
    BY <1>2 DEF ReadStore
  <2>2. QED
    BY <1>0, <1>1, <2>1, GoneTypes DEF TypeOK
<1>3. CASE TableFor(end) # <<>>
  <2>1. /\ obj' = "open" /\ m_update' = FALSE /\ m_file_end' = end /\ m_open_file_end' = end
        /\ m_header_start' = disk[end].header /\ m_has_header' = disk[end].has
        /\ m_lookup_start' = disk[end].lookup /\ m_previous_file_end' = disk[end].previous
        /\ m_lookup' = TableFor(end)
        /\ Header' = IF m_has_header' THEN MapAt(m_header_start') ELSE Header
        /\ m_variables' = MapAt(m_lookup'[1])
    BY <1>3 DEF ReadStore
  <2>2. /\ m_lookup' \in Seq(0..(Len(disk) - 1)) /\ end \in 1..Len(disk)
        /\ disk[end].kind = "flags"
    BY <1>3, <2>1, TableForType DEF EndsInFlags
  <2>3. /\ disk[end].header \in Nat /\ disk[end].lookup \in Nat /\ disk[end].previous \in 0..end
        /\ disk[end].has \in BOOLEAN
    BY <1>0, <2>2, BlockFields DEF BlocksInside
  <2>4. m_lookup'[1] \in Nat
    BY <1>0, <1>3, <2>1, <2>2, EmptyFacts
  <2>5. m_variables' \in Contents /\ Header' \in Contents
    BY <2>1, <2>3, <2>4, MapAtType DEF TypeOK
  <2>6. /\ m_file_end' \in 0..Len(disk) /\ m_open_file_end' \in 0..m_file_end'
        /\ m_previous_file_end' \in 0..m_open_file_end'
        /\ m_header_start' \in Nat /\ m_lookup_start' \in Nat
    BY <1>0, <2>1, <2>2, <2>3
  <2>7. disk' = disk /\ flushed' \in 0..Len(disk) /\ exists' \in BOOLEAN
    BY <1>0 DEF TypeOK
  <2>8. /\ obj' \in {"none", "open", "closing", "broken"} /\ m_has_header' \in BOOLEAN
        /\ m_update' \in BOOLEAN
    BY <2>1, <2>3
  <2>9. TypeOK'
    BY <1>0, <2>2, <2>5, <2>6, <2>7, <2>8 DEF TypeOK, Offsets
  <2>10. QED
    BY <1>1, <2>9
<1>4. QED
  BY <1>2, <1>3

-----------------------------------------------------------------------------
(* The types of every step *)

Types == TypeOK /\ BlocksInside

LEMMA InitTypes == ASSUME StoreAssumption, Init PROVE Types
<1>1. <<>> \in Seq(Blocks) /\ Len(<<>>) = 0 /\ <<>> \in Seq(0..(0 - 1))
  OBVIOUS
<1>2. QED
  <2>1. Nothing \in Contents
    BY DEF StoreAssumption, Contents
  <2>2. disk \in Seq(Blocks) /\ Len(disk) = 0 /\ m_lookup \in Seq(0..(Len(disk) - 1))
    BY <1>1 DEF Init
  <2>3. TypeOK
    <3>1. /\ flushed \in 0..Len(disk) /\ m_file_end \in 0..Len(disk)
          /\ m_open_file_end \in 0..m_file_end /\ m_previous_file_end \in 0..m_open_file_end
          /\ m_header_start \in Nat /\ m_lookup_start \in Nat
      BY <2>2 DEF Init
    <3>2. /\ exists \in BOOLEAN /\ m_has_header \in BOOLEAN /\ m_update \in BOOLEAN
          /\ m_variables \in Contents /\ Header \in Contents
          /\ obj \in {"none", "open", "closing", "broken"}
      BY <2>1 DEF Init
    <3>3. QED
      BY <2>2, <3>1, <3>2 DEF TypeOK, Offsets
  <2>4. BlocksInside
    BY <2>2 DEF BlocksInside
  <2>5. QED
    BY <2>3, <2>4 DEF Types

\* One block is written.
LEMMA WrittenTypes ==
    ASSUME Types, NEW b \in Blocks, disk' = Append(disk, b),
           b.kind = "lookup" => \A k \in 1..Len(b.table) : b.table[k] < Len(disk) + 1,
           b.kind = "flags" => b.previous < Len(disk) + 1
    PROVE  /\ disk' \in Seq(Blocks) /\ Len(disk') = Len(disk) + 1 /\ Len(disk) \in Nat
           /\ BlocksInside'
<1>1. /\ disk' \in Seq(Blocks) /\ Len(disk') = Len(disk) + 1 /\ Len(disk) \in Nat
      /\ \A i \in 1..Len(disk) : disk'[i] = disk[i]
      /\ disk'[Len(disk) + 1] = b
  BY AppendFacts DEF Types, TypeOK
<1>2. ASSUME NEW i \in 1..Len(disk')
      PROVE  /\ disk'[i].kind = "lookup" =>
                   \A k \in 1..Len(disk'[i].table) : disk'[i].table[k] < i
             /\ disk'[i].kind = "flags" => disk'[i].previous < i
  <2>1. CASE i \in 1..Len(disk)
    BY <1>1, <2>1 DEF Types, BlocksInside
  <2>2. CASE i = Len(disk) + 1
    BY <1>1, <2>2
  <2>3. QED
    BY <1>1, <2>1, <2>2
<1>3. QED
  BY <1>1, <1>2 DEF BlocksInside

LEMMA SaveTypes ==
    ASSUME StoreAssumption, Types, NEW entry \in 0..Len(m_lookup), Save(entry)
    PROVE  Types'
<1> DEFINE b == MapBlock(m_variables)
<1>1. /\ disk \in Seq(Blocks) /\ Len(disk) \in Nat /\ m_file_end \in 0..Len(disk)
      /\ m_lookup \in Seq(0..(Len(disk) - 1)) /\ Len(m_lookup) \in Nat
      /\ b \in Blocks /\ b.kind = "map"
  BY MadeBlocks DEF Types, TypeOK, MapBlock
<1>2. /\ disk' = disk \o <<b>> /\ m_update' = TRUE /\ m_file_end' = Len(disk')
      /\ UNCHANGED <<exists, flushed, obj, m_variables, Header, m_has_header, m_open_file_end,
                     m_previous_file_end, m_header_start, m_lookup_start>>
  BY DEF Save, Written, MoveFileEnd, startVars
<1>3. disk' = Append(disk, b)
  <2> HIDE DEF b
  <2> QED
    BY <1>1, <1>2
<1>4. /\ disk' \in Seq(Blocks) /\ Len(disk') = Len(disk) + 1 /\ BlocksInside'
  <2> HIDE DEF b
  <2> QED
    BY <1>1, <1>3, WrittenTypes
<1>5. m_lookup' \in Seq(0..(Len(disk') - 1))
  <2> DEFINE S == 0..(Len(disk') - 1)
  <2>1. m_lookup \in Seq(S) /\ m_file_end \in S
    BY <1>1, <1>4, EmptyFacts
  <2>2. ASSUME entry < Len(m_lookup) PROVE m_lookup' \in Seq(S)
    <3>1. m_lookup' = [m_lookup EXCEPT ![entry + 1] = m_file_end]
      BY <2>2 DEF Save
    <3> HIDE DEF S
    <3>2. entry + 1 \in 1..Len(m_lookup)
      BY <1>1, <2>2
    <3>3. QED
      BY <2>1, <3>1, <3>2, ReplaceFacts
  <2>3. ASSUME ~(entry < Len(m_lookup)) PROVE m_lookup' \in Seq(S)
    <3>1. m_lookup' = Append(m_lookup, m_file_end)
      BY <2>3 DEF Save
    <3> HIDE DEF S
    <3>2. QED
      BY <2>1, <3>1, AppendFacts
  <2>4. QED
    BY <2>2, <2>3
<1>6. TypeOK'
  <2>1. /\ flushed' \in 0..Len(disk') /\ m_file_end' \in 0..Len(disk')
        /\ m_open_file_end' \in 0..m_file_end' /\ m_previous_file_end' \in 0..m_open_file_end'
    BY <1>1, <1>2, <1>4 DEF Types, TypeOK
  <2>2. QED
    BY <1>2, <1>4, <1>5, <2>1 DEF Types, TypeOK
<1>7. QED
  BY <1>4, <1>6 DEF Types

LEMMA CloseTablesTypes == ASSUME StoreAssumption, Types, CloseTables PROVE Types'
<1> DEFINE h == MapBlock(Header)
           b == LookupBlock(m_lookup)
           mid == disk \o HeaderBlocks
<1>1. /\ disk \in Seq(Blocks) /\ Len(disk) \in Nat /\ m_file_end \in 0..Len(disk)
      /\ m_lookup \in Seq(0..(Len(disk) - 1)) /\ m_lookup \in Seq(Nat)
      /\ h \in Blocks /\ h.kind = "map" /\ b.kind = "lookup" /\ b.table = m_lookup
  <2>1. m_lookup \in Seq(Nat)
    BY DEF Types, TypeOK
  <2>2. QED
    BY <2>1, MadeBlocks DEF Types, TypeOK, MapBlock, LookupBlock
<1>2. b \in Blocks
  BY <1>1, MadeBlocks
<1>3. /\ obj' = "closing" /\ m_header_start' = m_file_end /\ m_previous_file_end' = m_open_file_end
      /\ m_lookup_start' = Btell(HeaderBlocks) /\ disk' = disk \o (HeaderBlocks \o <<b>>)
      /\ m_file_end' = Len(disk')
      /\ UNCHANGED <<exists, flushed, m_variables, Header, m_has_header, m_lookup, m_update,
                     m_open_file_end>>
  BY DEF CloseTables, Written
<1>4. /\ HeaderBlocks \in Seq(Blocks) /\ Len(HeaderBlocks) \in Nat
      /\ \/ HeaderBlocks = <<h>>
         \/ HeaderBlocks = <<>>
  <2> HIDE DEF h
  <2>1. HeaderBlocks = <<h>> \/ HeaderBlocks = <<>>
    BY DEF HeaderBlocks, h
  <2>2. <<h>> \in Seq(Blocks) /\ Len(<<h>>) = 1 /\ <<>> \in Seq(Blocks) /\ Len(<<>>) = 0
    BY <1>1
  <2>3. QED
    BY <2>1, <2>2
<1>5. disk' = Append(mid, b)
  <2> HIDE DEF b, h
  <2> QED
    BY <1>1, <1>2, <1>3, <1>4
<1>6. /\ mid \in Seq(Blocks) /\ Len(mid) \in Nat /\ Len(mid) >= Len(disk)
      /\ \A i \in 1..Len(disk) : mid[i] = disk[i]
      /\ \A i \in 1..Len(mid) : i > Len(disk) => mid[i] = h
  <2> HIDE DEF h, b
  <2>1. CASE HeaderBlocks = <<h>>
    BY <1>1, <2>1
  <2>2. CASE HeaderBlocks = <<>>
    BY <1>1, <2>2
  <2>3. QED
    BY <1>4, <2>1, <2>2
<1> HIDE DEF mid
<1>7. /\ disk' \in Seq(Blocks) /\ Len(disk') = Len(mid) + 1
      /\ \A i \in 1..Len(mid) : disk'[i] = mid[i]
      /\ disk'[Len(mid) + 1] = b
  <2> HIDE DEF b
  <2> QED
    BY <1>2, <1>5, <1>6, AppendFacts
<1>8. BlocksInside'
  <2>1. ASSUME NEW i \in 1..Len(disk')
        PROVE  /\ disk'[i].kind = "lookup" =>
                     \A k \in 1..Len(disk'[i].table) : disk'[i].table[k] < i
               /\ disk'[i].kind = "flags" => disk'[i].previous < i
    <3>1. CASE i \in 1..Len(disk)
      <4>1. disk'[i] = disk[i]
        BY <1>1, <1>6, <1>7, <3>1
      <4>2. QED
        BY <3>1, <4>1 DEF Types, BlocksInside
    <3>2. CASE i \in 1..Len(mid) /\ i > Len(disk)
      BY <1>1, <1>6, <1>7, <3>2
    <3>3. CASE i = Len(mid) + 1
      <4>1. \A k \in 1..Len(m_lookup) : m_lookup[k] < i
        BY <1>1, <1>6, <3>3, EmptyFacts
      <4>2. disk'[i] = b
        BY <1>7, <3>3
      <4> HIDE DEF b
      <4>3. QED
        BY <1>1, <4>1, <4>2
    <3>4. QED
      BY <1>1, <1>6, <1>7, <3>1, <3>2, <3>3
  <2>2. QED
    BY <2>1 DEF BlocksInside
<1>9. TypeOK'
  <2>1. /\ flushed' \in 0..Len(disk') /\ m_file_end' \in 0..Len(disk')
        /\ m_open_file_end' \in 0..m_file_end' /\ m_previous_file_end' \in 0..m_open_file_end'
    BY <1>1, <1>3, <1>6, <1>7 DEF Types, TypeOK
  <2>2. m_lookup_start' \in Nat /\ m_header_start' \in Nat
    BY <1>1, <1>3, <1>4 DEF Btell
  <2>3. m_lookup' \in Seq(0..(Len(disk') - 1))
    <3>1. m_lookup \in Seq(0..(Len(disk') - 1))
      BY <1>1, <1>6, <1>7, EmptyFacts
    <3>2. QED
      BY <1>3, <3>1
  <2>4. QED
    BY <1>3, <1>7, <2>1, <2>2, <2>3 DEF Types, TypeOK, Offsets
<1>10. QED
  BY <1>8, <1>9 DEF Types

LEMMA CloseFlagsTypes == ASSUME StoreAssumption, Types, CloseFlags PROVE Types'
<1> DEFINE b == FlagsBlock(m_header_start, m_has_header, m_lookup_start, m_previous_file_end)
<1>1. /\ disk \in Seq(Blocks) /\ Len(disk) \in Nat
      /\ b \in Blocks /\ b.kind = "flags" /\ b.previous = m_previous_file_end
      /\ m_previous_file_end < Len(disk) + 1
  BY MadeBlocks DEF Types, TypeOK, Offsets, FlagsBlock
<1>2. /\ disk' = disk \o <<b>> /\ flushed' = Len(disk') /\ exists' = exists /\ Gone("none")
  BY DEF CloseFlags, Written
<1>3. disk' = Append(disk, b)
  <2> HIDE DEF b
  <2> QED
    BY <1>1, <1>2
<1>4. disk' \in Seq(Blocks) /\ Len(disk') = Len(disk) + 1 /\ BlocksInside'
  <2> HIDE DEF b
  <2> QED
    BY <1>1, <1>3, WrittenTypes
<1>5. flushed' \in 0..Len(disk') /\ exists' \in BOOLEAN
  BY <1>1, <1>2, <1>4 DEF Types, TypeOK
<1>6. QED
  BY <1>2, <1>4, <1>5, GoneTypes DEF Types

LEMMA StopTypes == ASSUME StoreAssumption, Types, Stop PROVE Types'
<1>1. PICK n \in flushed..Len(disk) : disk' = SubSeq(disk, 1, n)
  BY DEF Stop
<1>2. n \in 0..Len(disk) /\ disk \in Seq(Blocks) /\ Len(disk) \in Nat /\ flushed \in 0..n
  BY <1>1 DEF Types, TypeOK
<1>3. disk' \in Seq(Blocks) /\ Len(disk') = n /\ \A i \in 1..n : disk'[i] = disk[i]
  BY <1>1, <1>2, PrefixFacts
<1>4. BlocksInside'
  BY <1>2, <1>3 DEF Types, BlocksInside
<1>5. TypeOK'
  BY <1>2, <1>3, GoneTypes DEF Stop, Types, TypeOK
<1>6. QED
  BY <1>4, <1>5 DEF Types

LEMMA TypesNext == ASSUME StoreAssumption, Types, [Next]_vars PROVE Types'
<1>1. CASE UNCHANGED vars \/ CreateFile \/ SetVariables \/ SetHeader
  BY <1>1 DEF vars, fileVars, objVars, endVars, startVars, CreateFile, SetVariables, SetHeader,
     Types, TypeOK, BlocksInside, Contents
<1>2. CASE OpenFile \/ Rollback
  <2>1. PICK end \in 0..Len(disk) :
             ReadStore(end) /\ UNCHANGED <<exists, disk>> /\ flushed' = Len(disk)
    BY <1>2 DEF OpenFile, Rollback, Types, TypeOK
  <2>2. QED
    BY <2>1, ReadTypes DEF Types
<1>3. ASSUME NEW entry \in 0..Len(m_lookup), GetEntry(entry) PROVE Types'
  <2>1. UNCHANGED fileVars /\ BlocksInside'
    BY <1>3 DEF GetEntry, fileVars, Types, BlocksInside
  <2>2. CASE m_lookup = <<>>
    BY <1>3, <2>1, <2>2, GoneTypes DEF GetEntry, fileVars, Types, TypeOK
  <2>3. CASE m_lookup # <<>>
    <3>1. /\ entry < Len(m_lookup) /\ m_variables' = MapAt(m_lookup[entry + 1])
          /\ UNCHANGED <<obj, Header, m_has_header, m_lookup, m_update, endVars, startVars>>
      BY <1>3, <2>3 DEF GetEntry
    <3>2. m_lookup[entry + 1] \in Nat
      BY <3>1 DEF Types, TypeOK
    <3>3. m_variables' \in Contents
      BY <3>1, <3>2, MapAtType DEF Types
    <3>4. QED
      BY <2>1, <3>1, <3>3 DEF fileVars, endVars, startVars, Types, TypeOK
  <2>4. QED
    BY <2>2, <2>3
<1>4. ASSUME NEW entry \in 0..Len(m_lookup), DeleteEntry(entry) PROVE Types'
  <2>1. /\ entry < Len(m_lookup) /\ m_lookup' = RemoveAt(m_lookup, entry + 1) /\ m_update' = TRUE
        /\ UNCHANGED <<exists, disk, flushed, obj, m_variables, Header, m_has_header, endVars,
                       startVars>>
    BY <1>4 DEF DeleteEntry, fileVars
  <2>2. m_lookup' \in Seq(0..(Len(disk) - 1))
    <3>1. m_lookup \in Seq(0..(Len(disk) - 1)) /\ entry + 1 \in 1..Len(m_lookup)
      BY <2>1 DEF Types, TypeOK
    <3>2. QED
      BY <2>1, <3>1, RemoveFacts
  <2>3. QED
    BY <2>1, <2>2 DEF endVars, startVars, Types, TypeOK, BlocksInside
<1>5. CASE CloseUnchanged
  BY <1>5, GoneTypes DEF CloseUnchanged, fileVars, Types, TypeOK, BlocksInside
<1>6. QED
  BY <1>1, <1>2, <1>3, <1>4, <1>5, SaveTypes, CloseTablesTypes, CloseFlagsTypes, StopTypes
  DEF Next

\* Whatever the program does with its store, older ends of the file included, the offsets
\* that the object and the file hold lie in the file (Initnew, GetFlags, Save, Close).
THEOREM TypeCorrect == Spec => []TypeOK
<1>1. Init => Types
  BY StoreAssumption, InitTypes
<1>2. Types /\ [Next]_vars => Types'
  BY StoreAssumption, TypesNext
<1>3. Types => TypeOK
  BY DEF Types
<1>4. QED
  BY <1>1, <1>2, <1>3, PTL DEF Spec

-----------------------------------------------------------------------------
(* The file: what is kept of it *)

\* The file and what becomes of it are the same up to offset n.
Kept(n) ==
    /\ n \in 0..Len(disk) /\ n <= Len(disk') /\ Len(disk') \in Nat
    /\ \A i \in 1..n : disk'[i] = disk[i]

\* A store whose flags are kept is read as it was.
LEMMA StoreKept ==
    ASSUME Types, FileInv, NEW n \in Nat, Kept(n), NEW end \in 1..n, EndsInFlags(end)
    PROVE  /\ EndsInFlags(end)' /\ WellFormed(end)'
           /\ end <= flushed' => FlagsInv(end)'
           /\ Version(end)' = Version(end)
<1> DEFINE f == disk[end]
<1>1. /\ end \in 1..Len(disk) /\ FlagsInv(end) /\ WellFormed(end)
      /\ Len(disk) \in Nat /\ Len(disk') \in Nat
  BY DEF Kept, FileInv, FlagsInv, Types, TypeOK
<1>2. PICK header \in Nat, lookup \in Nat, previous \in Nat, has \in BOOLEAN :
           /\ f.header = header /\ f.lookup = lookup /\ f.previous = previous /\ f.has = has
           /\ f.kind = "flags"
  BY <1>1, BlockFields DEF EndsInFlags, Types
<1>3. /\ lookup + 2 = end /\ header <= lookup /\ previous < end
      /\ has => header + 1 = lookup
  BY <1>1, <1>2 DEF FlagsInv, WellFormed
<1>4. lookup + 1 \in 1..Len(disk) /\ disk[lookup + 1].kind = "lookup"
  BY <1>1, <1>2, <1>3 DEF WellFormed, IsBlock
<1>5. PICK table \in Seq(Nat) : disk[lookup + 1].table = table
  BY <1>4, BlockFields DEF Types
<1>6. TableAt(f.lookup) = table /\ TableFor(end) = table
  BY <1>1, <1>2, <1>3, <1>4, <1>5 DEF TableAt, TableFor, IsBlock
<1>7. \A k \in 1..Len(table) : /\ table[k] \in Nat /\ table[k] < header
                               /\ disk[table[k] + 1].kind = "map"
  BY <1>1, <1>2, <1>5, <1>6 DEF WellFormed, IsBlock
\* and the same in the next state
<1>8. /\ disk'[end] = f /\ disk'[lookup + 1] = disk[lookup + 1]
      /\ \A k \in 1..Len(table) : disk'[table[k] + 1] = disk[table[k] + 1]
  BY <1>1, <1>3, <1>4, <1>7 DEF Kept
<1>9. EndsInFlags(end)'
  BY <1>8 DEF EndsInFlags
<1>10. TableAt(lookup)' = table /\ TableFor(end)' = table
  BY <1>1, <1>2, <1>3, <1>4, <1>5, <1>8, <1>9 DEF TableAt, TableFor, IsBlock, Kept
<1>11. has => /\ disk[header + 1].kind = "map" /\ disk'[header + 1] = disk[header + 1]
              /\ header < Len(disk) /\ header < Len(disk')
  BY <1>1, <1>2, <1>3 DEF WellFormed, IsBlock, Kept
<1>12. previous # 0 => EndsInFlags(previous) /\ disk'[previous] = disk[previous]
  BY <1>1, <1>2, <1>3 DEF WellFormed, Kept
<1>13. WellFormed(end)'
  <2>1. /\ disk'[end].lookup = lookup /\ disk'[end].header = header
        /\ disk'[end].previous = previous /\ disk'[end].has = has
    BY <1>2, <1>8
  <2>2. IsBlock(lookup, "lookup")' /\ (has => IsBlock(header, "map")')
    BY <1>1, <1>3, <1>4, <1>8, <1>11 DEF IsBlock, Kept
  <2>3. ASSUME NEW k \in 1..Len(table) PROVE table[k] < header /\ IsBlock(table[k], "map")'
    <3>1. PICK p \in Nat : p = table[k]
      BY <1>7
    <3>2. /\ p < header /\ disk[p + 1].kind = "map" /\ disk'[p + 1] = disk[p + 1]
      BY <1>7, <1>8, <3>1
    <3>3. p < Len(disk')
      BY <1>1, <1>3, <3>2 DEF Kept
    <3>4. QED
      BY <3>1, <3>2, <3>3 DEF IsBlock
  <2>4. previous = 0 \/ EndsInFlags(previous)'
    BY <1>12 DEF EndsInFlags
  <2>5. QED
    BY <1>3, <1>10, <2>1, <2>2, <2>3, <2>4 DEF WellFormed
<1>14. end <= flushed' => FlagsInv(end)'
  BY <1>1, <1>2, <1>3, <1>8, <1>12, <1>13 DEF FlagsInv
<1>15. Version(end)' = Version(end)
  <2>1. EntriesOf(table)' = EntriesOf(table)
    <3>1. \A k \in 1..Len(table) : MapAt(table[k])' = MapAt(table[k])
      BY <1>1, <1>3, <1>7, <1>8 DEF MapAt, IsBlock, Kept
    <3>2. QED
      BY <3>1 DEF EntriesOf
  <2>2. (IF disk[end].has THEN MapAt(disk[end].header) ELSE Nothing)'
          = IF disk[end].has THEN MapAt(disk[end].header) ELSE Nothing
    BY <1>2, <1>8, <1>11 DEF MapAt, IsBlock
  <2>3. EntriesOf(TableFor(end))' = EntriesOf(table) /\ EntriesOf(TableFor(end)) = EntriesOf(table)
    BY <1>6, <1>10, <2>1 DEF EntriesOf
  <2>4. QED
    BY <1>2, <1>8, <2>2, <2>3 DEF Version
<1>16. QED
  BY <1>9, <1>13, <1>14, <1>15

\* The stores that are kept of a file: all that it had, and no other.
LEMMA StoresKept ==
    ASSUME Types, FileInv, NEW n \in Nat, Kept(n), flushed' \in Nat, flushed <= flushed'
    PROVE  \A end \in 1..n : /\ EndsInFlags(end)' <=> EndsInFlags(end)
                             /\ EndsInFlags(end) => /\ FlagsInv(end)'
                                                    /\ Version(end)' = Version(end)
<1>1. SUFFICES ASSUME NEW end \in 1..n
               PROVE  /\ EndsInFlags(end)' <=> EndsInFlags(end)
                      /\ EndsInFlags(end) => /\ FlagsInv(end)' /\ Version(end)' = Version(end)
  OBVIOUS
<1>2. EndsInFlags(end)' <=> EndsInFlags(end)
  BY DEF Kept, EndsInFlags
<1>3. CASE EndsInFlags(end)
  <2>1. end <= flushed'
    <3>1. end <= flushed /\ flushed \in Nat /\ flushed' >= flushed
      BY <1>3 DEF Kept, FileInv, FlagsInv, Types, TypeOK
    <3>2. QED
      BY <3>1
  <2>2. QED
    BY <1>2, <1>3, <2>1, StoreKept
<1>4. QED
  BY <1>2, <1>3

-----------------------------------------------------------------------------
(* The object and the file: one lemma per action *)

\* Steps that add no flags: the stores of the file are those it had up to n.
LEMMA FileStays ==
    ASSUME Types, FileInv, NEW n \in Nat, Kept(n), flushed' \in Nat, flushed <= flushed',
           \A end \in 1..Len(disk') : end > n => ~EndsInFlags(end)'
    PROVE  FileInv'
<1>1. SUFFICES ASSUME NEW end \in 1..Len(disk'), EndsInFlags(end)' PROVE FlagsInv(end)'
  BY DEF FileInv
<1>2. end \in 1..n
  BY <1>1
<1>3. QED
  BY <1>1, <1>2, StoresKept

LEMMA SessionGone ==
    ASSUME NEW fate \in {"none", "broken"}, Gone(fate), ~exists' => disk' = <<>>
    PROVE  SessionInv'
  BY DEF SessionInv, Gone, NothingOpen

LEMMA SessionRead ==
    ASSUME Types, FileInv, exists, NEW end \in 0..Len(disk), ReadStore(end),
           UNCHANGED <<exists, disk>>,
           TableFor(end) # <<>> /\ ~disk[end].has => Header = Nothing
    PROVE  SessionInv'
<1>1. CASE TableFor(end) = <<>>
  BY <1>1, SessionGone DEF ReadStore
<1>2. CASE TableFor(end) # <<>>
  <2>1. /\ obj' = "open" /\ m_update' = FALSE /\ m_file_end' = end /\ m_open_file_end' = end
        /\ m_has_header' = disk[end].has /\ m_previous_file_end' = disk[end].previous
        /\ m_lookup' = TableFor(end)
        /\ Header' = IF m_has_header' THEN MapAt(m_header_start') ELSE Header
    BY <1>2 DEF ReadStore
  <2>2. /\ end \in 1..Len(disk) /\ EndsInFlags(end) /\ disk' = disk
        /\ TableFor(end) \in Seq(0..(Len(disk) - 1))
    BY <1>2, TableForType DEF Types
  <2>3. /\ WellFormed(end) /\ disk[end].header \in Nat /\ disk[end].lookup \in Nat
        /\ disk[end].header <= disk[end].lookup /\ disk[end].lookup + 2 = end
    BY <2>2, BlockFields DEF FileInv, FlagsInv, EndsInFlags, WellFormed, Types
  <2>4. \A k \in 1..Len(TableFor(end)) :
           /\ TableFor(end)[k] < disk[end].header /\ IsBlock(TableFor(end)[k], "map")
           /\ TableFor(end)[k] \in Nat
    <3>1. TableFor(end) = TableAt(disk[end].lookup)
      BY <2>2 DEF TableFor
    <3>2. \A k \in 1..Len(TableFor(end)) :
             TableFor(end)[k] < disk[end].header /\ IsBlock(TableFor(end)[k], "map")
      BY <2>3, <3>1 DEF WellFormed
    <3>3. QED
      BY <2>2, <3>2
  <2>5. OpenInv'
    BY <1>2, <2>1, <2>2, <2>4 DEF OpenInv, EndsInFlags, IsBlock
  <2>6. WorkInv'
    <3>1. \A k \in 1..Len(m_lookup') : m_lookup'[k] < m_file_end'
      BY <2>1, <2>2, <2>3, <2>4
    <3>2. QED
      BY <2>1, <2>2, <3>1 DEF WorkInv
  <2>7. QED
    BY <2>1, <2>5, <2>6 DEF SessionInv, OpenInv
<1>3. QED
  BY <1>1, <1>2

\* What a program that changes no older store may append to.
LEMMA AtTheEnd ==
    ASSUME ~EditsOld, Types, SessionInv, obj = "open", m_update \/ MayChange
    PROVE  m_file_end = Len(disk) /\ Len(disk) \in Nat /\ exists /\ OpenInv /\ WorkInv
  BY DEF SessionInv, OpenInv, WorkInv, MayChange, Types, TypeOK

LEMMA SaveInv ==
    ASSUME ~EditsOld, Types, FileInv, SessionInv, NEW entry \in 0..Len(m_lookup), Save(entry)
    PROVE  FileInv' /\ SessionInv'
<1> DEFINE b == MapBlock(m_variables)
<1>0. /\ obj = "open" /\ m_file_end = Len(disk) /\ Len(disk) \in Nat /\ exists
      /\ OpenInv /\ WorkInv
  BY AtTheEnd DEF Save
<1>1. /\ disk \in Seq(Blocks) /\ b \in Blocks /\ b.kind = "map" /\ flushed \in Nat
      /\ m_lookup \in Seq(Nat) /\ Len(m_lookup) \in Nat
      /\ m_open_file_end \in 0..Len(disk)
  BY MadeBlocks DEF Types, TypeOK, MapBlock
<1>2. /\ disk' = disk \o <<b>> /\ m_file_end' = Len(disk')
      /\ UNCHANGED <<exists, flushed, obj, Header, m_has_header, m_open_file_end,
                     m_previous_file_end>>
  BY DEF Save, Written, MoveFileEnd
<1>3. /\ Len(disk') = Len(disk) + 1 /\ \A i \in 1..Len(disk) : disk'[i] = disk[i]
      /\ disk'[Len(disk) + 1].kind = "map"
  <2> HIDE DEF b
  <2> QED
    BY <1>1, <1>2
<1>4. FileInv'
  <2>1. Kept(Len(disk))
    BY <1>0, <1>3 DEF Kept
  <2>2. \A end \in 1..Len(disk') : end > Len(disk) => ~EndsInFlags(end)'
    BY <1>0, <1>3 DEF EndsInFlags
  <2>3. QED
    BY <1>0, <1>1, <1>2, <2>1, <2>2, FileStays
<1>5. \A k \in 1..Len(m_lookup') : \/ m_lookup'[k] = Len(disk)
                                   \/ \E q \in 1..Len(m_lookup) : m_lookup'[k] = m_lookup[q]
  <2>1. CASE entry < Len(m_lookup)
    <3>1. m_lookup' = [m_lookup EXCEPT ![entry + 1] = m_file_end] /\ entry + 1 \in 1..Len(m_lookup)
      BY <1>1, <2>1 DEF Save
    <3>2. QED
      BY <1>0, <1>1, <3>1, ReplaceFacts
  <2>2. CASE ~(entry < Len(m_lookup))
    <3>1. m_lookup' = Append(m_lookup, m_file_end)
      BY <2>2 DEF Save
    <3>2. QED
      BY <1>0, <1>1, <3>1, AppendFacts
  <2>3. QED
    BY <2>1, <2>2
<1>6. \A k \in 1..Len(m_lookup') : /\ IsBlock(m_lookup[k], "map")'
                                   /\ m_lookup'[k] < m_file_end'
  <2>1. SUFFICES ASSUME NEW k \in 1..Len(m_lookup')
                 PROVE  IsBlock(m_lookup[k], "map")' /\ m_lookup'[k] < m_file_end'
    OBVIOUS
  <2>2. CASE m_lookup'[k] = Len(disk)
    BY <1>0, <1>2, <1>3, <2>2 DEF IsBlock
  <2>3. ASSUME NEW q \in 1..Len(m_lookup), m_lookup'[k] = m_lookup[q]
        PROVE  IsBlock(m_lookup[k], "map")' /\ m_lookup'[k] < m_file_end'
    <3>1. PICK p \in Nat : p = m_lookup[q]
      BY <1>1
    <3>2. p < Len(disk) /\ disk[p + 1].kind = "map"
      BY <1>0, <3>1 DEF OpenInv, IsBlock
    <3>3. disk'[p + 1].kind = "map" /\ p < Len(disk')
      BY <1>0, <1>3, <3>2
    <3>4. QED
      BY <1>2, <2>3, <3>1, <3>3 DEF IsBlock
  <2>4. QED
    BY <1>5, <2>2, <2>3
<1>7. OpenInv'
  BY <1>0, <1>1, <1>2, <1>3, <1>6 DEF OpenInv, EndsInFlags
<1>8. WorkInv'
  <2>1. m_open_file_end # 0 => disk'[m_open_file_end] = disk[m_open_file_end]
    BY <1>1, <1>3
  <2>2. QED
    BY <1>0, <1>2, <1>6, <2>1 DEF WorkInv
<1>9. QED
  BY <1>0, <1>2, <1>4, <1>7, <1>8 DEF SessionInv

\* The blocks that WriteHeader and WriteLookup add.
LEMMA TablesWritten ==
    ASSUME Types, CloseTables
    PROVE  /\ m_lookup_start' = IF m_has_header THEN Len(disk) + 1 ELSE m_file_end
           /\ Len(disk') = IF m_has_header THEN Len(disk) + 2 ELSE Len(disk) + 1
           /\ \A i \in 1..Len(disk) : disk'[i] = disk[i]
           /\ m_has_header => disk'[Len(disk) + 1] = MapBlock(Header)
           /\ disk'[Len(disk')] = LookupBlock(m_lookup)
<1> DEFINE h == MapBlock(Header)
           b == LookupBlock(m_lookup)
<1>1. /\ disk \in Seq(Blocks) /\ Len(disk) \in Nat /\ h \in Blocks /\ b \in Blocks
      /\ m_has_header \in BOOLEAN
  <2>1. m_lookup \in Seq(Nat)
    BY DEF Types, TypeOK
  <2>2. QED
    BY <2>1, MadeBlocks DEF Types, TypeOK
<1>2. /\ m_lookup_start' = Btell(HeaderBlocks) /\ disk' = disk \o (HeaderBlocks \o <<b>>)
  BY DEF CloseTables, Written
<1> HIDE DEF h, b
<1>3. CASE m_has_header
  <2>1. HeaderBlocks = <<h>>
    BY <1>3 DEF HeaderBlocks, h
  <2>2. /\ <<h>> \in Seq(Blocks) /\ <<b>> \in Seq(Blocks) /\ <<h>> # <<>>
        /\ Len(<<h>>) = 1 /\ Len(<<b>>) = 1 /\ <<h>>[1] = h /\ <<b>>[1] = b
    BY <1>1
  <2> DEFINE tail == <<h>> \o <<b>>
  <2>3. disk' = disk \o tail /\ m_lookup_start' = Len(disk) + 1
    BY <1>2, <2>1, <2>2 DEF Btell
  <2>4. tail \in Seq(Blocks) /\ Len(tail) = 2 /\ tail[1] = h /\ tail[2] = b
    <3>1. 1 \in 1..1
      OBVIOUS
    <3>2. tail \in Seq(Blocks) /\ Len(tail) = 1 + 1 /\ tail[1] = h /\ tail[1 + 1] = b
      BY <2>2, <3>1, ConcatFacts
    <3>3. QED
      BY <3>2
  <2> HIDE DEF tail
  <2>5. /\ Len(disk') = Len(disk) + 2 /\ \A i \in 1..Len(disk) : disk'[i] = disk[i]
        /\ disk'[Len(disk) + 1] = h /\ disk'[Len(disk) + 2] = b
    <3>1. 1 \in 1..Len(tail) /\ 2 \in 1..Len(tail)
      BY <2>4
    <3> DEFINE new == disk \o tail
    <3>2. disk \in Seq(Blocks) /\ tail \in Seq(Blocks)
      BY <1>1, <2>4
    <3>3. /\ Len(new) = Len(disk) + Len(tail) /\ \A i \in 1..Len(disk) : new[i] = disk[i]
          /\ \A i \in 1..Len(tail) : new[Len(disk) + i] = tail[i]
      BY ONLY <3>2, ConcatFacts
    <3>4. /\ Len(disk') = Len(disk) + Len(tail) /\ \A i \in 1..Len(disk) : disk'[i] = disk[i]
          /\ \A i \in 1..Len(tail) : disk'[Len(disk) + i] = tail[i]
      BY <2>3, <3>3
    <3>5. QED
      BY <2>4, <3>1, <3>4
  <2>6. QED
    BY <1>3, <2>3, <2>5 DEF h, b
<1>4. CASE ~m_has_header
  <2>1. HeaderBlocks = <<>>
    BY <1>4 DEF HeaderBlocks
  <2>2. <<>> \o <<b>> = <<b>>
    BY <1>1
  <2>3. disk' = disk \o <<b>> /\ m_lookup_start' = m_file_end
    BY <1>2, <2>1, <2>2 DEF Btell
  <2>4. /\ Len(disk') = Len(disk) + 1 /\ \A i \in 1..Len(disk) : disk'[i] = disk[i]
        /\ disk'[Len(disk) + 1] = b
    BY <1>1, <2>3
  <2>5. QED
    BY <1>4, <2>3, <2>4 DEF h, b
<1>5. QED
  BY <1>3, <1>4

LEMMA CloseTablesInv ==
    ASSUME ~EditsOld, Types, FileInv, SessionInv, CloseTables
    PROVE  FileInv' /\ SessionInv'
<1>0. /\ obj = "open" /\ m_file_end = Len(disk) /\ Len(disk) \in Nat /\ exists
      /\ OpenInv /\ WorkInv
  BY AtTheEnd DEF CloseTables
<1>1. /\ obj' = "closing" /\ m_header_start' = m_file_end /\ m_previous_file_end' = m_open_file_end
      /\ UNCHANGED <<exists, flushed, Header, m_has_header, m_lookup, m_open_file_end>>
  BY DEF CloseTables
<1>2. /\ m_lookup \in Seq(Nat) /\ m_open_file_end \in 0..Len(disk) /\ flushed \in Nat
      /\ m_has_header \in BOOLEAN
  BY DEF Types, TypeOK
<1>3. /\ m_lookup_start' = IF m_has_header THEN Len(disk) + 1 ELSE m_file_end
      /\ Len(disk') = IF m_has_header THEN Len(disk) + 2 ELSE Len(disk) + 1
      /\ \A i \in 1..Len(disk) : disk'[i] = disk[i]
      /\ m_has_header => disk'[Len(disk) + 1] = MapBlock(Header)
      /\ disk'[Len(disk')] = LookupBlock(m_lookup)
  BY TablesWritten
<1>4. FileInv'
  <2>1. Kept(Len(disk))
    BY <1>0, <1>3 DEF Kept
  <2>2. MapBlock(Header).kind = "map" /\ LookupBlock(m_lookup).kind = "lookup"
    BY DEF MapBlock, LookupBlock
  <2>3. \A end \in 1..Len(disk') : end > Len(disk) => disk'[end].kind # "flags"
    BY <1>0, <1>2, <1>3, <2>2
  <2>4. QED
    BY <1>0, <1>1, <1>2, <2>1, <2>3, FileStays DEF EndsInFlags
<1>5. OpenInv'
  <2>1. ASSUME NEW k \in 1..Len(m_lookup) PROVE IsBlock(m_lookup[k], "map")'
    <3>1. PICK p \in Nat : p = m_lookup[k]
      BY <1>2
    <3>2. p < Len(disk) /\ disk[p + 1].kind = "map"
      BY <1>0, <3>1 DEF OpenInv, IsBlock
    <3>3. disk'[p + 1].kind = "map" /\ p < Len(disk')
      BY <1>0, <1>2, <1>3, <3>2
    <3>4. QED
      BY <1>1, <3>1, <3>3 DEF IsBlock
  <2>2. QED
    BY <1>0, <1>1, <1>2, <1>3, <2>1 DEF OpenInv, EndsInFlags
<1>6. ClosingInv'
  BY <1>0, <1>1, <1>2, <1>3 DEF ClosingInv, WorkInv
<1>7. QED
  BY <1>0, <1>1, <1>4, <1>5, <1>6 DEF SessionInv

LEMMA CloseFlagsInv ==
    ASSUME ~EditsOld, Types, FileInv, SessionInv, CloseFlags
    PROVE  FileInv' /\ SessionInv'
<1> DEFINE b == FlagsBlock(m_header_start, m_has_header, m_lookup_start, m_previous_file_end)
<1>0. /\ obj = "closing" /\ exists /\ OpenInv /\ ClosingInv
      /\ Len(disk) \in Nat /\ flushed \in 0..Len(disk)
      /\ m_lookup \in Seq(Nat) /\ m_header_start \in Nat /\ m_lookup_start \in Nat
      /\ m_open_file_end \in 0..Len(disk) /\ m_has_header \in BOOLEAN
  BY DEF CloseFlags, SessionInv, OpenInv, Types, TypeOK, Offsets
<1> PICK last \in Nat : last = Len(disk) + 1
  BY <1>0
<1>1. /\ b.kind = "flags" /\ b.header = m_header_start /\ b.has = m_has_header
      /\ b.lookup = m_lookup_start /\ b.previous = m_open_file_end
  BY <1>0 DEF FlagsBlock, ClosingInv
<1>2. b \in Blocks /\ disk \in Seq(Blocks)
  BY MadeBlocks DEF Types, TypeOK, Offsets
<1>3. /\ disk' = disk \o <<b>> /\ flushed' = Len(disk') /\ exists' = exists /\ Gone("none")
  BY DEF CloseFlags, Written
<1>4. /\ Len(disk') = Len(disk) + 1 /\ \A i \in 1..Len(disk) : disk'[i] = disk[i]
      /\ disk'[last] = b
  <2> HIDE DEF b
  <2> QED
    BY <1>0, <1>2, <1>3
<1> HIDE DEF b
<1>5. SessionInv'
  BY <1>0, <1>3, SessionGone
<1>6. Kept(Len(disk)) /\ flushed' \in Nat /\ flushed <= flushed'
  BY <1>0, <1>3, <1>4 DEF Kept
<1>7. \A end \in 1..Len(disk) : EndsInFlags(end)' => FlagsInv(end)'
  BY <1>0, <1>6, StoresKept
<1>8. FlagsInv(last)'
  <2>1. PICK header \in Nat, lookup \in Nat, previous \in Nat, has \in BOOLEAN, table \in Seq(Nat) :
             /\ header = m_header_start /\ lookup = m_lookup_start
             /\ previous = m_open_file_end /\ has = m_has_header /\ table = m_lookup
    BY <1>0
  <2>2. /\ disk'[last].header = header /\ disk'[last].lookup = lookup
        /\ disk'[last].previous = previous /\ disk'[last].has = has
    BY <1>1, <1>4, <2>1
  <2>3. /\ lookup + 1 = Len(disk) /\ disk[Len(disk)] = LookupBlock(table)
        /\ header <= lookup /\ previous <= Len(disk)
        /\ has => header + 1 = lookup /\ disk[header + 1] = MapBlock(Header)
    BY <1>0, <2>1 DEF ClosingInv
  <2>4. lookup < Len(disk') /\ disk'[lookup + 1] = LookupBlock(table)
    BY <1>0, <1>4, <2>3
  <2>5. IsBlock(lookup, "lookup")' /\ TableAt(lookup)' = table
    BY <2>4 DEF IsBlock, TableAt, LookupBlock
  <2>6. has => IsBlock(header, "map")'
    BY <1>0, <1>4, <2>3 DEF IsBlock, MapBlock
  <2>7. ASSUME NEW k \in 1..Len(table) PROVE table[k] < header /\ IsBlock(table[k], "map")'
    <3>1. PICK p \in Nat : p = table[k]
      OBVIOUS
    <3>2. p < header /\ p < Len(disk) /\ disk[p + 1].kind = "map"
      BY <1>0, <2>1, <3>1 DEF ClosingInv, OpenInv, IsBlock
    <3>3. disk'[p + 1].kind = "map" /\ p < Len(disk')
      <4>1. p + 1 \in 1..Len(disk)
        BY <1>0, <3>2
      <4>2. QED
        BY <1>0, <1>4, <3>2, <4>1
    <3>4. QED
      BY <3>1, <3>2, <3>3 DEF IsBlock
  <2>8. previous # 0 => /\ EndsInFlags(previous)' /\ disk'[previous].has = has
    BY <1>0, <1>4, <2>1 DEF OpenInv, EndsInFlags
  <2>9. WellFormed(last)'
    BY <1>0, <2>2, <2>3, <2>5, <2>6, <2>7, <2>8 DEF WellFormed
  <2>10. QED
    BY <1>0, <1>3, <1>4, <2>2, <2>3, <2>8, <2>9 DEF FlagsInv
<1>9. QED
  BY <1>0, <1>4, <1>5, <1>7, <1>8 DEF FileInv

LEMMA StopInv ==
    ASSUME Types, FileInv, SessionInv, Stop
    PROVE  FileInv' /\ SessionInv'
<1>1. PICK n \in flushed..Len(disk) : disk' = SubSeq(disk, 1, n)
  BY DEF Stop
<1>2. n \in 0..Len(disk) /\ n \in Nat /\ disk \in Seq(Blocks) /\ Len(disk) \in Nat
      /\ flushed \in Nat /\ flushed' = flushed /\ exists' = exists
  BY <1>1 DEF Types, TypeOK, Stop
<1>3. Len(disk') = n /\ \A i \in 1..n : disk'[i] = disk[i]
  BY <1>1, <1>2, PrefixFacts
<1>4. FileInv'
  BY <1>2, <1>3, FileStays DEF Kept
<1>5. ~exists' => disk' = <<>>
  <2>1. SUFFICES ASSUME ~exists PROVE disk' = <<>>
    BY <1>2
  <2>2. disk = <<>> /\ Len(disk) = 0
    BY <1>2, <2>1, EmptyFacts DEF SessionInv
  <2>3. disk' \in Seq(Blocks) /\ Len(disk') = 0
    BY <1>1, <1>2, <1>3, <2>2, PrefixFacts
  <2>4. QED
    BY <2>3, EmptyFacts
<1>6. QED
  BY <1>4, <1>5, SessionGone DEF Stop

\* The entries of an open store after a fetch or a removal.
LEMMA WorkStays ==
    ASSUME Types, SessionInv, obj = "open", UNCHANGED <<obj, Header, m_has_header, endVars>>,
           UNCHANGED fileVars, m_update' => m_file_end = Len(disk),
           \A k \in 1..Len(m_lookup') : \E q \in 1..Len(m_lookup) : m_lookup'[k] = m_lookup[q]
    PROVE  SessionInv'
<1>1. /\ OpenInv /\ WorkInv /\ m_lookup \in Seq(Nat)
      /\ UNCHANGED <<exists, disk, m_file_end, m_open_file_end, m_previous_file_end>>
  BY DEF SessionInv, Types, TypeOK, endVars, fileVars
<1>2. \A k \in 1..Len(m_lookup') : /\ IsBlock(m_lookup[k], "map")'
                                   /\ m_lookup'[k] < m_file_end
  BY <1>1 DEF OpenInv, WorkInv, IsBlock
<1>3. QED
  BY <1>1, <1>2 DEF SessionInv, OpenInv, WorkInv, EndsInFlags

LEMMA StoreNextInv ==
    ASSUME ~EditsOld, StoreAssumption, Types, FileInv, SessionInv, [Next]_vars
    PROVE  FileInv' /\ SessionInv'
<1>0. Len(disk) \in Nat /\ flushed \in 0..Len(disk)
  BY DEF Types, TypeOK
<1>1. ASSUME disk' = disk, flushed' \in Nat, flushed <= flushed' PROVE FileInv'
  <2>1. Kept(Len(disk))
    BY <1>0, <1>1 DEF Kept
  <2>2. QED
    BY <1>0, <1>1, <2>1, FileStays
<1>2. ASSUME UNCHANGED fileVars PROVE FileInv'
  BY <1>0, <1>1, <1>2 DEF fileVars
<1>3. CASE UNCHANGED vars
  <2>1. UNCHANGED fileVars /\ UNCHANGED <<exists, disk>>
    BY <1>3 DEF vars, fileVars
  <2>2. SessionInv'
    BY <1>3, <2>1 DEF vars, objVars, endVars, startVars, SessionInv, NothingOpen, OpenInv,
       WorkInv, ClosingInv, EndsInFlags, IsBlock
  <2>3. QED
    BY <1>2, <2>1, <2>2
<1>4. CASE CreateFile
  <2>1. /\ NothingOpen /\ UNCHANGED <<disk, flushed, Header, m_lookup, endVars>>
        /\ obj' = "open" /\ exists' = TRUE /\ m_update' = FALSE
    BY <1>4 DEF CreateFile, SessionInv
  <2>2. m_open_file_end' = 0 /\ m_previous_file_end' = 0 /\ Len(m_lookup') = 0 /\ Header' = Nothing
    BY <2>1 DEF NothingOpen, endVars, Types, TypeOK
  <2>3. SessionInv'
    BY <2>1, <2>2 DEF SessionInv, OpenInv, WorkInv
  <2>4. QED
    BY <1>0, <1>1, <2>1, <2>3
<1>5. CASE OpenFile
  <2>1. PICK end \in 0..Len(disk) : ReadStore(end) /\ UNCHANGED <<exists, disk>>
    BY <1>5 DEF OpenFile
  <2>2. exists /\ Header = Nothing /\ flushed' = Len(disk)
    BY <1>5 DEF OpenFile, SessionInv, NothingOpen
  <2>3. QED
    BY <1>0, <1>1, <2>1, <2>2, SessionRead
<1>6. CASE Rollback
  <2> DEFINE end == m_previous_file_end
  <2>1. /\ end # 0 /\ ReadStore(end) /\ UNCHANGED <<exists, disk>> /\ flushed' = Len(disk)
        /\ OpenInv /\ WorkInv /\ end \in 0..Len(disk)
    BY <1>6 DEF Rollback, SessionInv, Types, TypeOK
  <2>2. m_open_file_end # 0 /\ EndsInFlags(m_open_file_end) /\ m_open_file_end \in 1..Len(disk)
    BY <2>1 DEF OpenInv, WorkInv, Types, TypeOK
  <2>3. FlagsInv(m_open_file_end) /\ disk[m_open_file_end].previous = end
    BY <2>1, <2>2 DEF FileInv, WorkInv
  <2>4. disk[end].has = m_has_header
    BY <2>1, <2>2, <2>3 DEF FlagsInv, OpenInv
  <2>5. ~disk[end].has => Header = Nothing
    BY <2>1, <2>4 DEF OpenInv
  <2>6. exists
    BY <2>1 DEF OpenInv
  <2> HIDE DEF end
  <2>7. QED
    BY <1>0, <1>1, <2>1, <2>5, <2>6, SessionRead
<1>7. CASE SetVariables
  <2>1. SessionInv'
    BY <1>7, WorkStays DEF SetVariables, SessionInv, WorkInv
  <2>2. QED
    BY <1>2, <1>7, <2>1 DEF SetVariables
<1>8. CASE SetHeader
  <2>1. SessionInv'
    BY <1>8 DEF SetHeader, SessionInv, OpenInv, WorkInv, fileVars, endVars, startVars, IsBlock,
       EndsInFlags
  <2>2. QED
    BY <1>2, <1>8, <2>1 DEF SetHeader
<1>9. ASSUME NEW entry \in 0..Len(m_lookup), GetEntry(entry) PROVE FileInv' /\ SessionInv'
  <2>1. UNCHANGED fileVars /\ obj = "open"
    BY <1>9 DEF GetEntry
  <2>2. CASE m_lookup = <<>>
    <3>1. Gone("broken") /\ exists' /\ FileInv'
      BY <1>2, <1>9, <2>1, <2>2 DEF GetEntry, fileVars, SessionInv, OpenInv
    <3>2. QED
      BY <3>1, SessionGone
  <2>3. CASE m_lookup # <<>>
    <3>1. UNCHANGED <<obj, Header, m_has_header, m_lookup, m_update, endVars>>
      BY <1>9, <2>3 DEF GetEntry
    <3>2. SessionInv'
      BY <2>1, <3>1, WorkStays DEF SessionInv, WorkInv
    <3>3. QED
      BY <1>2, <2>1, <3>2
  <2>4. QED
    BY <2>2, <2>3
<1>10. ASSUME NEW entry \in 0..Len(m_lookup), DeleteEntry(entry) PROVE FileInv' /\ SessionInv'
  <2>1. /\ entry < Len(m_lookup) /\ m_lookup' = RemoveAt(m_lookup, entry + 1)
        /\ UNCHANGED <<obj, Header, m_has_header, endVars>> /\ UNCHANGED fileVars
        /\ obj = "open"
    BY <1>10 DEF DeleteEntry
  <2>2. m_lookup \in Seq(Nat) /\ entry + 1 \in 1..Len(m_lookup) /\ Len(m_lookup) \in Nat
    BY <2>1 DEF Types, TypeOK
  <2>3. \A k \in 1..Len(m_lookup') : \E q \in 1..Len(m_lookup) : m_lookup'[k] = m_lookup[q]
    <3>1. SUFFICES ASSUME NEW k \in 1..Len(m_lookup')
                   PROVE  \E q \in 1..Len(m_lookup) : m_lookup'[k] = m_lookup[q]
      OBVIOUS
    <3>2. /\ Len(m_lookup') = Len(m_lookup) - 1
          /\ m_lookup'[k] = IF k < entry + 1 THEN m_lookup[k] ELSE m_lookup[k + 1]
      BY <2>1, <2>2, RemoveFacts
    <3>3. k \in 1..Len(m_lookup) /\ k + 1 \in 1..Len(m_lookup)
      BY <2>2, <3>2
    <3>4. QED
      BY <3>2, <3>3
  <2>4. m_file_end = Len(disk)
    BY <1>10, AtTheEnd DEF DeleteEntry
  <2>5. SessionInv'
    BY <2>1, <2>3, <2>4, WorkStays
  <2>6. QED
    BY <1>2, <2>1, <2>5
<1>11. CASE CloseUnchanged
  <2>1. UNCHANGED fileVars /\ Gone("none") /\ exists'
    BY <1>11 DEF CloseUnchanged, fileVars, SessionInv, OpenInv
  <2>2. QED
    BY <1>2, <2>1, SessionGone
<1>12. QED
  BY <1>3, <1>4, <1>5, <1>6, <1>7, <1>8, <1>9, <1>10, <1>11, SaveInv, CloseTablesInv,
     CloseFlagsInv, StopInv DEF Next

LEMMA StoreInvariant == ASSUME EditsOld = FALSE PROVE Spec => [](Types /\ FileInv /\ SessionInv)
<1>1. Init => Types /\ FileInv /\ SessionInv
  <2>1. SUFFICES ASSUME Init PROVE Types /\ FileInv /\ SessionInv
    OBVIOUS
  <2>2. Len(disk) = 0
    BY <2>1 DEF Init
  <2>3. QED
    <3>1. FileInv
      BY <2>2 DEF FileInv
    <3>2. SessionInv
      BY <2>1 DEF Init, SessionInv, NothingOpen
    <3>3. QED
      BY <2>1, <3>1, <3>2, StoreAssumption, InitTypes
<1>2. Types /\ FileInv /\ SessionInv /\ [Next]_vars => (Types /\ FileInv /\ SessionInv)'
  BY StoreAssumption, TypesNext, StoreNextInv
<1>3. QED
  BY <1>1, <1>2, PTL DEF Spec

\* In whatever order the sessions of a program that changes no older store save, delete,
\* roll back, close, crash in the middle of Close or forget it, and however many there
\* are, every store closed in the file stays readable: its flags name its own lookup
\* table, header, entries and the store before (Close, WriteFlags, GetFlags).
THEOREM ClosedStoresStayReadable == ASSUME EditsOld = FALSE PROVE Spec => []FileIsWellFormed
<1>1. FileInv => FileIsWellFormed
  BY DEF FileInv, FlagsInv, FileIsWellFormed
<1>2. QED
  BY <1>1, StoreInvariant, PTL

-----------------------------------------------------------------------------
(* The store implements the abstract one: what the mapping shows *)

Inv == Types /\ FileInv /\ SessionInv

LEMMA HistoryFacts ==
    /\ DOMAIN History = Names /\ \A v \in Names : History[v] = Version(v)
    /\ DOMAIN History' = Names' /\ \A v \in Names' : History'[v] = Version(v)'
  BY DEF History

\* A step that adds and takes away no flags leaves the history as it was.
LEMMA HistoryStays ==
    ASSUME Inv, NEW n \in Nat, Kept(n), flushed <= n, flushed' \in Nat, flushed <= flushed',
           \A end \in 1..Len(disk') : end > n => ~EndsInFlags(end)'
    PROVE  History' = History
<1>1. /\ Len(disk) \in Nat /\ Len(disk') \in Nat /\ flushed \in Nat
      /\ n <= Len(disk) /\ n <= Len(disk')
  BY DEF Inv, Types, TypeOK, Kept
<1>2. \A end \in 1..n : /\ EndsInFlags(end)' <=> EndsInFlags(end)
                        /\ EndsInFlags(end) => Version(end)' = Version(end)
  BY StoresKept DEF Inv
<1>3. \A end \in Names : end \in 1..n
  BY <1>1 DEF Names, Inv, FileInv, FlagsInv
<1>4. \A end \in Names' : end \in 1..n
  BY <1>1 DEF Names
<1>5. Names' = Names
  BY <1>1, <1>2, <1>3, <1>4 DEF Names
<1>6. \A end \in Names : Version(end)' = Version(end)
  BY <1>2, <1>3 DEF Names
<1>7. QED
  BY <1>5, <1>6 DEF History

\* ... and so does a step that leaves the file alone.
LEMMA HistorySame ==
    ASSUME Inv, disk' = disk, flushed' \in Nat, flushed <= flushed'
    PROVE  History' = History
<1>1. Kept(Len(disk)) /\ Len(disk) \in Nat /\ flushed <= Len(disk)
  BY DEF Kept, Inv, Types, TypeOK
<1>2. QED
  BY <1>1, HistoryStays

LEMMA EntriesFacts ==
    ASSUME Types, NEW table \in Seq(Nat)
    PROVE  /\ EntriesOf(table) \in Seq(Contents) /\ Len(EntriesOf(table)) = Len(table)
           /\ \A k \in 1..Len(table) : EntriesOf(table)[k] = MapAt(table[k])
           /\ EntriesOf(table) = <<>> <=> table = <<>>
<1>1. Len(table) \in Nat /\ \A k \in 1..Len(table) : MapAt(table[k]) \in Contents
  BY MapAtType, EmptyFacts DEF Types
<1>2. EntriesOf(table) \in [1..Len(table) -> Contents]
  BY <1>1 DEF EntriesOf
<1>3. EntriesOf(table) \in Seq(Contents) /\ Len(EntriesOf(table)) = Len(table)
  BY <1>1, <1>2
<1>4. QED
  BY <1>1, <1>3, EmptyFacts DEF EntriesOf

\* The entries an open store shows are still there when the file grows.
LEMMA EntryKept ==
    ASSUME Inv, Kept(Len(disk)), obj \in {"open", "closing"}, NEW k \in 1..Len(m_lookup)
    PROVE  MapAt(m_lookup[k]) = Entries[k] /\ \A p \in Nat : p = m_lookup[k] => MapAt(p)' = Entries[k]
<1>1. m_lookup \in Seq(Nat) /\ Len(disk) \in Nat
  BY DEF Inv, Types, TypeOK
<1>2. PICK p \in Nat : p = m_lookup[k]
  BY <1>1
<1>3. p < Len(disk) /\ disk[p + 1].kind = "map"
  BY <1>2 DEF Inv, SessionInv, OpenInv, IsBlock
<1>4. p + 1 \in 1..Len(disk) /\ p < Len(disk') /\ disk'[p + 1] = disk[p + 1]
  BY <1>1, <1>3 DEF Kept
<1>5. MapAt(p)' = MapAt(p)
  BY <1>3, <1>4 DEF MapAt, IsBlock
<1>6. Entries[k] = MapAt(p)
  BY <1>1, <1>2, EntriesFacts DEF Entries, Inv
<1>7. QED
  BY <1>2, <1>5, <1>6

\* The entries of a table that is put together from the old one and the end of the file.
LEMMA EntriesKept ==
    ASSUME Inv, Kept(Len(disk)), obj \in {"open", "closing"}, m_lookup' = m_lookup
    PROVE  Entries' = Entries
<1>1. m_lookup \in Seq(Nat)
  BY DEF Inv, Types, TypeOK
<1>2. \A k \in 1..Len(m_lookup) : MapAt(m_lookup[k])' = MapAt(m_lookup[k])
  <2>1. SUFFICES ASSUME NEW k \in 1..Len(m_lookup)
                 PROVE  MapAt(m_lookup[k])' = MapAt(m_lookup[k])
    OBVIOUS
  <2>2. PICK p \in Nat : p = m_lookup[k]
    BY <1>1
  <2>3. MapAt(p)' = MapAt(p)
    BY <2>2, EntryKept
  <2>4. QED
    BY <2>2, <2>3 DEF MapAt, IsBlock
<1>3. QED
  BY <1>2 DEF Entries, EntriesOf

\* A new object shows no entries.
LEMMA NoEntries ==
    ASSUME NEW fate, Gone(fate)
    PROVE  /\ Entries' = <<>> /\ Header' = Nothing /\ m_variables' = Nothing
           /\ m_open_file_end' = 0 /\ obj' = fate
<1>1. Len(<<>>) = 0
  OBVIOUS
<1>2. \A k \in 1..0 : FALSE
  OBVIOUS
<1>3. Entries' = <<>>
  BY <1>1, <1>2 DEF Gone, Entries, EntriesOf
<1>4. QED
  BY <1>3 DEF Gone

\* ... and what it shows otherwise does not change with what is no part of it.
LEMMA EntriesSame ==
    ASSUME disk' = disk, m_lookup' = m_lookup
    PROVE  Entries' = Entries
  BY DEF Entries, EntriesOf, MapAt, IsBlock

LEMMA NothingShown ==
    ASSUME Inv, obj \in {"none", "broken"}
    PROVE  Entries = <<>> /\ Header = Nothing /\ m_variables = Nothing /\ m_open_file_end = 0
<1>1. NothingOpen
  BY DEF Inv, SessionInv
<1>2. m_lookup \in Seq(Nat) /\ m_lookup = <<>>
  BY <1>1 DEF NothingOpen
<1>3. Entries = <<>>
  BY <1>2, EntriesFacts DEF Entries, Inv
<1>4. QED
  BY <1>1, <1>3 DEF NothingOpen

LEMMA SameSequence ==
    ASSUME NEW S, NEW s \in Seq(S), NEW t \in Seq(S), Len(s) = Len(t),
           \A i \in 1..Len(s) : s[i] = t[i]
    PROVE  s = t
  OBVIOUS

-----------------------------------------------------------------------------
(* ... and one lemma per action *)

LEMMA MappedInit == ASSUME Init PROVE Store!StoreInit
<1>1. Len(disk) = 0 /\ m_lookup = <<>> /\ Len(<<>>) = 0
  BY DEF Init
<1>2. Names = {}
  BY <1>1 DEF Names
<1>3. Entries = <<>>
  BY <1>1 DEF Entries, EntriesOf
<1>4. QED
  BY <1>2, <1>3, HistoryFacts
     DEF Init, Store!StoreInit, Store!NoVersion, Store!NoSession, Session, Spoilt

LEMMA MappedCreate == ASSUME Inv, CreateFile PROVE Store!Create
<1>1. /\ obj = "none" /\ ~exists /\ obj' = "open" /\ Entries' = Entries
      /\ UNCHANGED <<disk, flushed, m_variables, Header, m_open_file_end>>
  BY EntriesSame DEF CreateFile, endVars
<1>2. flushed \in Nat /\ Len(disk) = 0
  BY <1>1 DEF Inv, Types, TypeOK, SessionInv
<1>3. History' = History
  BY <1>1, <1>2, HistorySame
<1>4. Names = {}
  BY <1>2 DEF Names
<1>5. QED
  BY <1>1, <1>3, <1>4, HistoryFacts DEF Store!Create, Store!NoVersion, Session, Spoilt

\* A store that is read becomes the session's copy.
LEMMA MappedTake ==
    ASSUME Inv, NEW end \in 0..Len(disk), ReadStore(end), UNCHANGED <<exists, disk>>,
           flushed' = Len(disk), TableFor(end) # <<>>, ~disk[end].has => Header = Nothing
    PROVE  end \in DOMAIN History /\ Store!Take(end)
<1>1. /\ obj' = "open" /\ m_open_file_end' = end
      /\ m_header_start' = disk[end].header /\ m_has_header' = disk[end].has
      /\ m_lookup' = TableFor(end)
      /\ Header' = IF m_has_header' THEN MapAt(m_header_start') ELSE Header
      /\ m_variables' = MapAt(m_lookup'[1])
  BY DEF ReadStore
<1>2. Len(disk) \in Nat /\ flushed \in Nat /\ flushed <= Len(disk)
  BY DEF Inv, Types, TypeOK
<1>3. History' = History
  BY <1>2, HistorySame
<1>4. end \in Names /\ TableFor(end) \in Seq(Nat)
  BY <1>2, TableForType DEF Names, Inv, Types
<1>5. History[end] = Version(end) /\ end \in DOMAIN History
  BY <1>4, HistoryFacts
<1>6. Entries' = EntriesOf(TableFor(end))
  BY <1>1 DEF Entries, EntriesOf, MapAt, IsBlock
<1>7. /\ EntriesOf(TableFor(end)) # <<>>
      /\ EntriesOf(TableFor(end))[1] = MapAt(TableFor(end)[1])
  <2>1. 1 \in 1..Len(TableFor(end))
    BY <1>4, EmptyFacts
  <2>2. QED
    BY <1>4, <2>1, EntriesFacts DEF Inv
<1>8. /\ Version(end).entries = EntriesOf(TableFor(end))
      /\ Version(end).header = IF disk[end].has THEN MapAt(disk[end].header) ELSE Nothing
  BY DEF Version
<1>9. Header' = Version(end).header
  BY <1>1, <1>8
<1>10. m_variables' = Entries'[1]
  BY <1>1, <1>6, <1>7
<1>11. Session' = "open" /\ Spoilt' = FALSE
  BY <1>1 DEF Session, Spoilt
<1>12. QED
  BY <1>1, <1>3, <1>5, <1>6, <1>7, <1>8, <1>9, <1>10, <1>11 DEF Store!Take

\* One that is not a store, or has no entries, is the loss of the session.
LEMMA MappedLoss ==
    ASSUME Inv, Gone("broken"), UNCHANGED <<exists, disk>>, flushed' \in Nat, flushed <= flushed'
    PROVE  /\ Session' = "lost" /\ Spoilt' = FALSE /\ History' = History
           /\ Store!Drop
<1>1. History' = History
  BY HistorySame
<1>2. QED
  BY <1>1, NoEntries DEF Session, Spoilt, Store!Drop

LEMMA EmptyVersion ==
    ASSUME Inv, NEW end \in Names, TableFor(end) = <<>>
    PROVE  end \in DOMAIN History /\ History[end].entries = <<>>
<1>1. EntriesOf(<<>>) = <<>>
  <2>1. <<>> \in Seq(Nat)
    OBVIOUS
  <2>2. QED
    BY <2>1, EntriesFacts DEF Inv
<1>2. QED
  BY <1>1, HistoryFacts DEF Version

LEMMA MappedOpen == ASSUME Inv, OpenFile PROVE Store!StoreNext
<1>1. /\ obj = "none" /\ exists /\ UNCHANGED <<exists, disk>> /\ flushed' = Len(disk)
      /\ Entries = <<>> /\ Header = Nothing /\ m_variables = Nothing /\ m_open_file_end = 0
  BY NothingShown DEF OpenFile
<1>2. PICK end \in 0..Len(disk) : (end = Len(disk) \/ EndsInFlags(end)) /\ ReadStore(end)
  BY DEF OpenFile
<1>3. Len(disk) \in Nat /\ flushed \in Nat /\ flushed <= Len(disk) /\ Session = "shut"
  BY <1>1 DEF Inv, Types, TypeOK, Session
<1>4. CASE TableFor(end) # <<>>
  <2>1. end \in DOMAIN History /\ Store!Take(end)
    BY <1>1, <1>2, <1>4, MappedTake
  <2>2. QED
    BY <1>3, <2>1 DEF Store!StoreNext, Store!Open
<1>5. CASE TableFor(end) = <<>>
  <2>1. /\ Session' = "lost" /\ Spoilt' = FALSE /\ History' = History /\ Store!Drop
    BY <1>1, <1>2, <1>3, <1>5, MappedLoss DEF ReadStore
  <2>2. Spoilt \/ \E v \in DOMAIN History : History[v].entries = <<>>
    <3>1. CASE EndsInFlags(end)
      <4>1. end \in Names
        BY <1>3, <3>1 DEF Names, EndsInFlags
      <4>2. QED
        BY <1>5, <4>1, EmptyVersion
    <3>2. CASE ~EndsInFlags(end)
      BY <1>1, <1>2, <3>2 DEF Spoilt
    <3>3. QED
      BY <3>1, <3>2
  <2>3. QED
    BY <1>1, <1>3, <2>1, <2>2 DEF Store!StoreNext, Store!OpenLost, Store!Drop
<1>6. QED
  BY <1>4, <1>5

\* The store that Rollback reads is the one the session's store was made from.
LEMMA MappedRollback == ASSUME Inv, Rollback PROVE Store!Rollback
<1> DEFINE end == m_previous_file_end
<1>1. /\ obj = "open" /\ end # 0 /\ ReadStore(end) /\ UNCHANGED <<exists, disk>>
      /\ flushed' = Len(disk) /\ OpenInv /\ WorkInv /\ end \in 0..Len(disk)
  BY DEF Rollback, Inv, SessionInv, Types, TypeOK
<1>2. Len(disk) \in Nat /\ flushed \in Nat /\ flushed <= Len(disk) /\ Session = "open"
  BY <1>1 DEF Inv, Types, TypeOK, Session
<1>3. m_open_file_end # 0 /\ m_open_file_end \in Names
  BY <1>1 DEF OpenInv, WorkInv, Inv, Types, TypeOK, Names
<1>4. /\ disk[m_open_file_end].previous = end /\ disk[end].has = m_has_header
      /\ EndsInFlags(end)
  <2>1. FlagsInv(m_open_file_end)
    BY <1>3 DEF Names, Inv, FileInv
  <2>2. QED
    BY <1>1, <1>3, <2>1 DEF OpenInv, WorkInv, FlagsInv, WellFormed
<1>5. m_open_file_end > 0 /\ end > 0 /\ History[m_open_file_end].parent = end
  BY <1>1, <1>2, <1>3, <1>4, HistoryFacts DEF Version, Names
<1>6. end \in Names
  BY <1>1, <1>2, <1>4 DEF Names, EndsInFlags
<1> HIDE DEF end
<1>7. CASE TableFor(end) # <<>>
  <2>1. Store!Take(end)
    BY <1>1, <1>4, <1>7, MappedTake DEF OpenInv
  <2>2. QED
    BY <1>2, <1>5, <2>1 DEF Store!Rollback
<1>8. CASE TableFor(end) = <<>>
  <2>1. /\ Session' = "lost" /\ Spoilt' = FALSE /\ History' = History /\ Store!Drop
    BY <1>1, <1>2, <1>8, MappedLoss DEF ReadStore
  <2>2. History[end].entries = <<>>
    BY <1>6, <1>8, EmptyVersion
  <2>3. Spoilt = FALSE
    BY <1>1 DEF Spoilt
  <2>4. QED
    BY <1>2, <1>5, <2>1, <2>2, <2>3 DEF Store!Rollback
<1>9. QED
  BY <1>7, <1>8

\* Work on an open store changes its copy only.
LEMMA MappedWork ==
    ASSUME obj = "open", obj' = "open", History' = History, m_open_file_end' = m_open_file_end,
           Store!Set \/ Store!SetHeader \/ Store!Put \/ Store!Fetch \/ Store!Remove
    PROVE  Store!StoreNext
<1>1. Session = "open" /\ Session' = "open" /\ Spoilt = FALSE /\ Spoilt' = FALSE
  BY DEF Session, Spoilt
<1>2. QED
  BY <1>1 DEF Store!StoreNext, Store!Work

\* A step that leaves the file alone, for what it shows.
LEMMA FileSame ==
    ASSUME Inv, UNCHANGED fileVars
    PROVE  History' = History /\ (m_lookup' = m_lookup => Entries' = Entries)
<1>1. disk' = disk /\ flushed' \in Nat /\ flushed <= flushed'
  BY DEF fileVars, Inv, Types, TypeOK
<1>2. QED
  BY <1>1, HistorySame, EntriesSame

LEMMA MappedSet == ASSUME Inv, SetVariables \/ SetHeader PROVE Store!StoreNext
<1>1. /\ obj = "open" /\ obj' = "open" /\ m_open_file_end' = m_open_file_end
      /\ UNCHANGED <<fileVars, m_lookup>>
  BY DEF SetVariables, SetHeader, endVars
<1>2. History' = History /\ Entries' = Entries
  BY <1>1, FileSame
<1>3. Store!Set \/ Store!SetHeader
  BY <1>2 DEF SetVariables, SetHeader, Store!Set, Store!SetHeader
<1>4. QED
  BY <1>1, <1>2, <1>3, MappedWork

\* A block is written after the file that is no flags: no store is added.
LEMMA HistoryGrows ==
    ASSUME Inv, Kept(Len(disk)), flushed' = flushed,
           \A i \in 1..Len(disk') : i > Len(disk) => disk'[i].kind # "flags"
    PROVE  History' = History
<1>1. Len(disk) \in Nat /\ flushed \in Nat /\ flushed <= Len(disk)
  BY DEF Inv, Types, TypeOK
<1>2. \A end \in 1..Len(disk') : end > Len(disk) => ~EndsInFlags(end)'
  BY DEF EndsInFlags
<1>3. QED
  BY <1>1, <1>2, HistoryStays

LEMMA MappedSave ==
    ASSUME ~EditsOld, Inv, NEW entry \in 0..Len(m_lookup), Save(entry)
    PROVE  Store!StoreNext
<1> DEFINE b == MapBlock(m_variables)
<1>1. /\ obj = "open" /\ obj' = "open" /\ disk' = disk \o <<b>>
      /\ UNCHANGED <<flushed, m_variables, Header, m_open_file_end>>
  BY DEF Save, Written
<1>2. /\ m_file_end = Len(disk) /\ Len(disk) \in Nat /\ m_lookup \in Seq(Nat)
      /\ Len(m_lookup) \in Nat /\ disk \in Seq(Blocks) /\ m_variables \in Contents
  BY AtTheEnd DEF Save, Inv, Types, TypeOK
<1>3. b \in Blocks /\ b.kind = "map" /\ b.value = m_variables
  BY <1>2, MadeBlocks DEF MapBlock
<1> HIDE DEF b
<1>4. /\ Len(disk') = Len(disk) + 1 /\ disk'[Len(disk) + 1] = b /\ Kept(Len(disk))
  BY <1>1, <1>2, <1>3 DEF Kept
<1>5. History' = History
  BY <1>1, <1>2, <1>3, <1>4, HistoryGrows
<1>6. \A p \in Nat : p = Len(disk) => MapAt(p)' = m_variables
  BY <1>2, <1>3, <1>4 DEF MapAt, IsBlock
<1>7. /\ Entries \in Seq(Contents) /\ Len(Entries) = Len(m_lookup)
  BY <1>2, EntriesFacts DEF Entries, Inv
<1>8. Store!Put
  <2>1. ASSUME entry < Len(m_lookup) PROVE Store!Put
    <3> DEFINE k == entry + 1
    <3>1. m_lookup' = [m_lookup EXCEPT ![k] = m_file_end]
      BY <2>1 DEF Save
    <3>2. k \in 1..Len(m_lookup)
      BY <1>2, <2>1
    <3> HIDE DEF k
    <3>3. /\ Len(m_lookup') = Len(m_lookup)
          /\ \A i \in 1..Len(m_lookup) :
                m_lookup'[i] = IF i = k THEN m_file_end ELSE m_lookup[i]
      BY <1>2, <3>1, <3>2, ReplaceFacts
    <3>4. ASSUME NEW i \in 1..Len(m_lookup)
          PROVE  \A p : p = m_lookup'[i] =>
                    MapAt(p)' = IF i = k THEN m_variables ELSE Entries[i]
      BY <1>1, <1>2, <1>4, <1>6, <3>3, EntryKept
    <3>5. Entries' = [i \in 1..Len(m_lookup) |-> IF i = k THEN m_variables ELSE Entries[i]]
      BY <3>3, <3>4 DEF Entries, EntriesOf
    <3>6. Entries' = [Entries EXCEPT ![k] = m_variables]
      BY <1>7, <3>2, <3>5
    <3>7. QED
      BY <1>1, <1>7, <3>2, <3>6 DEF Store!Put
  <2>2. ASSUME ~(entry < Len(m_lookup)) PROVE Store!Put
    <3>1. m_lookup' = Append(m_lookup, m_file_end)
      BY <2>2 DEF Save
    <3>2. /\ Len(m_lookup') = Len(m_lookup) + 1
          /\ \A i \in 1..Len(m_lookup) : m_lookup'[i] = m_lookup[i]
          /\ m_lookup'[Len(m_lookup) + 1] = m_file_end
      BY <1>2, <3>1, AppendFacts
    <3> DEFINE S == Append(Entries, m_variables)
    <3>3. /\ S \in Seq(Contents) /\ Len(S) = Len(m_lookup) + 1
          /\ \A i \in 1..Len(m_lookup) : S[i] = Entries[i]
          /\ S[Len(m_lookup) + 1] = m_variables
      BY <1>2, <1>7, AppendFacts
    <3> HIDE DEF S
    <3>4. ASSUME NEW i \in 1..(Len(m_lookup) + 1)
          PROVE  \A p : p = m_lookup'[i] => MapAt(p)' = S[i]
      <4>1. CASE i \in 1..Len(m_lookup)
        BY <1>1, <1>2, <1>4, <3>2, <3>3, <4>1, EntryKept
      <4>2. CASE i = Len(m_lookup) + 1
        BY <1>2, <1>6, <3>2, <3>3, <4>2
      <4>3. QED
        BY <1>2, <4>1, <4>2
    <3>5. Entries' = [i \in 1..(Len(m_lookup) + 1) |-> S[i]]
      BY <3>2, <3>4 DEF Entries, EntriesOf
    <3>6. Entries' = S
      BY <1>2, <3>3, <3>5
    <3>7. QED
      BY <1>1, <3>6 DEF Store!Put, S
  <2>3. QED
    BY <2>1, <2>2
<1>9. QED
  BY <1>1, <1>5, <1>8, MappedWork

LEMMA MappedGet ==
    ASSUME Inv, NEW entry \in 0..Len(m_lookup), GetEntry(entry)
    PROVE  Store!StoreNext
<1>1. obj = "open" /\ UNCHANGED fileVars /\ History' = History
  BY FileSame DEF GetEntry
<1>2. m_lookup \in Seq(Nat) /\ Len(m_lookup) \in Nat
  BY DEF Inv, Types, TypeOK
<1>3. CASE m_lookup = <<>>
  <2>1. /\ Session' = "lost" /\ Spoilt' = FALSE /\ Store!Drop
    <3>1. Gone("broken")
      BY <1>3 DEF GetEntry
    <3>2. UNCHANGED <<exists, disk>> /\ flushed' \in Nat /\ flushed <= flushed'
      BY <1>1 DEF fileVars, Inv, Types, TypeOK
    <3>3. QED
      BY <3>1, <3>2, MappedLoss
  <2>2. Entries = <<>>
    BY <1>2, <1>3, EntriesFacts DEF Entries, Inv
  <2>3. QED
    BY <1>1, <2>1, <2>2 DEF Store!StoreNext, Store!FetchLost, Session, Spoilt
<1>4. CASE m_lookup # <<>>
  <2>1. /\ entry < Len(m_lookup) /\ m_variables' = MapAt(m_lookup[entry + 1])
        /\ UNCHANGED <<obj, Header, m_lookup, m_open_file_end>>
    BY <1>4 DEF GetEntry, endVars
  <2>2. entry + 1 \in 1..Len(m_lookup) /\ Entries' = Entries
    BY <1>1, <1>2, <2>1, FileSame
  <2>3. Len(Entries) = Len(m_lookup) /\ Entries[entry + 1] = MapAt(m_lookup[entry + 1])
    BY <1>2, <2>2, EntriesFacts DEF Entries, Inv
  <2>4. Store!Fetch
    BY <2>1, <2>2, <2>3 DEF Store!Fetch
  <2>5. QED
    BY <1>1, <2>1, <2>4, MappedWork
<1>5. QED
  BY <1>3, <1>4

LEMMA MappedDelete ==
    ASSUME Inv, NEW entry \in 0..Len(m_lookup), DeleteEntry(entry)
    PROVE  Store!StoreNext
<1> DEFINE p == entry + 1
<1>1. /\ obj = "open" /\ UNCHANGED fileVars /\ m_lookup' = RemoveAt(m_lookup, p)
      /\ UNCHANGED <<obj, m_variables, Header, m_open_file_end>> /\ entry < Len(m_lookup)
  BY DEF DeleteEntry, endVars
<1>2. /\ m_lookup \in Seq(Nat) /\ Len(m_lookup) \in Nat /\ p \in 1..Len(m_lookup)
  BY <1>1 DEF Inv, Types, TypeOK
<1> HIDE DEF p
<1>3. /\ Entries \in Seq(Contents) /\ Len(Entries) = Len(m_lookup)
      /\ \A k \in 1..Len(m_lookup) : Entries[k] = MapAt(m_lookup[k])
  BY <1>2, EntriesFacts DEF Entries, Inv
<1>4. PICK table \in Seq(Nat) :
         /\ table = m_lookup' /\ Len(table) = Len(m_lookup) - 1
         /\ \A k \in 1..(Len(m_lookup) - 1) :
               table[k] = IF k < p THEN m_lookup[k] ELSE m_lookup[k + 1]
  <2>1. /\ RemoveAt(m_lookup, p) \in Seq(Nat) /\ Len(RemoveAt(m_lookup, p)) = Len(m_lookup) - 1
        /\ \A k \in 1..(Len(m_lookup) - 1) :
              RemoveAt(m_lookup, p)[k] = IF k < p THEN m_lookup[k] ELSE m_lookup[k + 1]
    BY <1>2, RemoveFacts
  <2>2. QED
    BY <1>1, <2>1
<1>5. Entries' = EntriesOf(table)
  BY <1>1, <1>4 DEF fileVars, Entries, EntriesOf, MapAt, IsBlock
<1>6. /\ EntriesOf(table) \in Seq(Contents) /\ Len(EntriesOf(table)) = Len(m_lookup) - 1
      /\ \A k \in 1..(Len(m_lookup) - 1) : EntriesOf(table)[k] = MapAt(table[k])
  BY <1>4, EntriesFacts DEF Inv
<1>7. /\ RemoveAt(Entries, p) \in Seq(Contents)
      /\ Len(RemoveAt(Entries, p)) = Len(m_lookup) - 1
      /\ \A k \in 1..(Len(m_lookup) - 1) :
            RemoveAt(Entries, p)[k] = IF k < p THEN Entries[k] ELSE Entries[k + 1]
  BY <1>2, <1>3, RemoveFacts
<1>8. \A k \in 1..(Len(m_lookup) - 1) : EntriesOf(table)[k] = RemoveAt(Entries, p)[k]
  <2>1. SUFFICES ASSUME NEW k \in 1..(Len(m_lookup) - 1)
                 PROVE  EntriesOf(table)[k] = RemoveAt(Entries, p)[k]
    OBVIOUS
  <2>2. k \in 1..Len(m_lookup) /\ k + 1 \in 1..Len(m_lookup)
    BY <1>2
  <2>3. QED
    BY <1>3, <1>4, <1>6, <1>7, <2>2
<1>9. EntriesOf(table) = RemoveAt(Entries, p)
  BY <1>6, <1>7, <1>8, SameSequence
<1>10. Store!Remove
  BY <1>1, <1>2, <1>3, <1>5, <1>9 DEF Store!Remove, RemoveAt
<1>11. History' = History
  BY <1>1, FileSame
<1>12. QED
  BY <1>1, <1>10, <1>11, MappedWork

\* A session that ends without Close, or without a change to be closed.
LEMMA MappedLeave == ASSUME Inv, CloseUnchanged \/ Stop PROVE Store!Leave
<1>1. obj # "none" /\ Gone("none")
  BY DEF CloseUnchanged, Stop
<1>2. History' = History
  <2>1. CASE CloseUnchanged
    BY <2>1, FileSame DEF CloseUnchanged
  <2>2. CASE Stop
    <3>1. PICK n \in flushed..Len(disk) : disk' = SubSeq(disk, 1, n)
      BY <2>2 DEF Stop
    <3>2. /\ n \in 0..Len(disk) /\ n \in Nat /\ disk \in Seq(Blocks) /\ flushed <= n
          /\ flushed \in Nat /\ flushed' = flushed
      BY <2>2, <3>1 DEF Inv, Types, TypeOK, Stop
    <3>3. Len(disk') = n /\ Kept(n)
      BY <3>1, <3>2, PrefixFacts DEF Kept
    <3>4. QED
      BY <3>2, <3>3, HistoryStays
  <2>3. QED
    BY <2>1, <2>2
<1>3. Session # "shut"
  BY <1>1 DEF Session, Inv, Types, TypeOK
<1>4. Session' = "shut" /\ Store!Drop /\ Spoilt' \in BOOLEAN
  BY <1>1, NoEntries DEF Session, Store!Drop, Spoilt
<1>5. QED
  BY <1>2, <1>3, <1>4 DEF Store!Leave

\* The header and the lookup table that Close writes before the flags show nothing yet.
LEMMA MappedCloseTables ==
    ASSUME ~EditsOld, Inv, CloseTables
    PROVE  UNCHANGED Store!storeVars
<1>1. /\ obj = "open" /\ obj' = "closing" /\ flushed' = flushed
      /\ UNCHANGED <<m_variables, Header, m_lookup, m_open_file_end>>
  BY DEF CloseTables
<1>2. /\ Len(disk') = IF m_has_header THEN Len(disk) + 2 ELSE Len(disk) + 1
      /\ \A i \in 1..Len(disk) : disk'[i] = disk[i]
      /\ m_has_header => disk'[Len(disk) + 1] = MapBlock(Header)
      /\ disk'[Len(disk')] = LookupBlock(m_lookup)
      /\ Len(disk) \in Nat /\ m_has_header \in BOOLEAN
  BY TablesWritten DEF Inv, Types, TypeOK
<1>3. Kept(Len(disk))
  BY <1>2 DEF Kept
<1>4. ASSUME NEW i \in 1..Len(disk'), i > Len(disk) PROVE disk'[i].kind # "flags"
  BY <1>2, <1>4 DEF MapBlock, LookupBlock
<1>5. History' = History /\ Entries' = Entries
  BY <1>1, <1>3, <1>4, HistoryGrows, EntriesKept
<1>6. QED
  BY <1>1, <1>5 DEF Store!storeVars, Session, Spoilt

\* The flags make what the session shows the newest version.
LEMMA MappedCloseFlags == ASSUME Inv, CloseFlags PROVE Store!Commit
<1> DEFINE b == FlagsBlock(m_header_start, m_has_header, m_lookup_start, m_previous_file_end)
           new == [entries |-> Entries, header |-> Header, parent |-> m_open_file_end]
<1>1. /\ obj = "closing" /\ OpenInv /\ ClosingInv
      /\ disk' = disk \o <<b>> /\ flushed' = Len(disk') /\ Gone("none")
  BY DEF CloseFlags, Written, Inv, SessionInv
<1>2. /\ Len(disk) \in Nat /\ flushed \in Nat /\ flushed <= Len(disk) /\ disk \in Seq(Blocks)
      /\ m_lookup \in Seq(Nat) /\ Len(m_lookup) \in Nat /\ m_has_header \in BOOLEAN
      /\ m_header_start \in Nat /\ m_lookup_start \in Nat /\ m_open_file_end \in Nat
  BY DEF Inv, Types, TypeOK, Offsets
<1>3. /\ b \in Blocks /\ b.kind = "flags" /\ b.header = m_header_start
      /\ b.has = m_has_header /\ b.lookup = m_lookup_start /\ b.previous = m_open_file_end
  BY <1>1, MadeBlocks DEF FlagsBlock, ClosingInv, Inv, Types, TypeOK, Offsets
<1> HIDE DEF b
<1> PICK v \in Nat : v = Len(disk) + 1
  BY <1>2
<1>4. /\ Len(disk') = v /\ disk'[v] = b /\ Kept(Len(disk)) /\ flushed' \in Nat
      /\ flushed <= flushed' /\ v > 0
  BY <1>1, <1>2, <1>3 DEF Kept
<1>5. \A end \in 1..Len(disk) : /\ EndsInFlags(end)' <=> EndsInFlags(end)
                                /\ EndsInFlags(end) => Version(end)' = Version(end)
  BY <1>2, <1>4, StoresKept DEF Inv
<1>6. EndsInFlags(v)'
  BY <1>3, <1>4 DEF EndsInFlags
<1>7. Names' = Names \cup {v} /\ \A u \in Names : u < v /\ u # v
  BY <1>2, <1>4, <1>5, <1>6 DEF Names
<1>8. Version(v)' = new
  <2>1. PICK header \in Nat, lookup \in Nat : header = m_header_start /\ lookup = m_lookup_start
    BY <1>2
  <2>2. /\ lookup + 1 = Len(disk) /\ disk[Len(disk)] = LookupBlock(m_lookup)
        /\ header <= lookup
        /\ m_has_header => header + 1 = lookup /\ disk[header + 1] = MapBlock(Header)
    BY <1>1, <2>1 DEF ClosingInv
  <2>3. /\ lookup < Len(disk') /\ disk'[lookup + 1] = LookupBlock(m_lookup)
        /\ m_has_header => header < Len(disk') /\ disk'[header + 1] = MapBlock(Header)
    <3>1. lookup + 1 \in 1..Len(disk) /\ Len(disk) < Len(disk')
      BY <1>2, <1>4, <2>2
    <3>2. m_has_header => header + 1 \in 1..Len(disk)
      BY <1>2, <2>2
    <3>3. QED
      BY <1>2, <1>4, <2>2, <3>1, <3>2 DEF Kept
  <2>4. TableAt(lookup)' = m_lookup
    BY <2>3 DEF TableAt, IsBlock, LookupBlock
  <2>5. disk'[v].lookup = lookup /\ disk'[v].header = header /\ disk'[v].has = m_has_header
        /\ disk'[v].previous = m_open_file_end
    BY <1>3, <1>4, <2>1
  <2>6. TableFor(v)' = m_lookup
    BY <1>6, <2>4, <2>5 DEF TableFor, EndsInFlags, TableAt, IsBlock
  <2>7. ASSUME NEW k \in 1..Len(m_lookup)
        PROVE  \A q : q = m_lookup[k] => MapAt(q)' = Entries[k]
    BY <1>1, <1>2, <1>4, EntryKept
  <2>8. Entries = [k \in 1..Len(m_lookup) |-> Entries[k]]
    BY <1>2, EntriesFacts DEF Entries, EntriesOf
  <2>9. Version(v)'.entries = Entries
    BY <2>6, <2>7, <2>8 DEF Version, EntriesOf
  <2>10. Version(v)'.header = Header
    <3>1. m_has_header => MapAt(header)' = Header
      BY <2>3 DEF MapAt, IsBlock, MapBlock
    <3>2. ~m_has_header => Header = Nothing
      BY <1>1 DEF OpenInv
    <3>3. Version(v)'.header = IF disk'[v].has THEN MapAt(header)' ELSE Nothing
      BY <2>5 DEF Version, MapAt, IsBlock
    <3>4. QED
      BY <1>2, <2>5, <3>1, <3>2, <3>3
  <2>11. Version(v)'.parent = m_open_file_end
    BY <2>5 DEF Version
  <2>12. QED
    BY <2>9, <2>10, <2>11 DEF Version
<1>9. \A u \in Names' : History'[u] = IF u = v THEN new ELSE History[u]
  BY <1>5, <1>7, <1>8, HistoryFacts DEF Names
<1>10. History' = [u \in Names \cup {v} |-> IF u = v THEN new ELSE History[u]]
  <2>1. History' = [u \in Names' |-> History'[u]]
    BY DEF History
  <2>2. QED
    BY <1>7, <1>9, <2>1
<1>11. Store!Added(v, new) /\ v \in DOMAIN History'
  BY <1>4, <1>7, <1>10, HistoryFacts DEF Store!Added
<1>12. Session = "open" /\ Session' = "shut" /\ Store!Drop
  BY <1>1, NoEntries DEF Session, Store!Drop
<1>13. Spoilt' = FALSE
  BY <1>4, <1>6 DEF Spoilt, EndsInFlags
<1>14. QED
  BY <1>11, <1>12, <1>13 DEF Store!Commit

LEMMA MappedStep ==
    ASSUME ~EditsOld, Inv, [Next]_vars
    PROVE  [Store!StoreNext]_(Store!storeVars)
<1>1. CASE UNCHANGED vars
  <2>1. /\ UNCHANGED <<fileVars, obj, m_variables, Header, m_lookup, m_open_file_end, exists, disk>>
    BY <1>1 DEF vars, fileVars, objVars, endVars
  <2>2. History' = History /\ Entries' = Entries
    BY <2>1, FileSame
  <2>3. QED
    BY <2>1, <2>2 DEF Store!storeVars, Session, Spoilt, EndsInFlags
<1>2. CASE CreateFile \/ Rollback \/ CloseUnchanged \/ Stop \/ CloseFlags
  BY <1>2, MappedCreate, MappedRollback, MappedLeave, MappedCloseFlags DEF Store!StoreNext
<1>3. CASE OpenFile \/ SetVariables \/ SetHeader
  BY <1>3, MappedOpen, MappedSet
<1>4. CASE CloseTables
  BY <1>4, MappedCloseTables
<1>5. ASSUME NEW entry \in 0..Len(m_lookup), Save(entry) \/ GetEntry(entry) \/ DeleteEntry(entry)
      PROVE  Store!StoreNext
  BY <1>5, MappedSave, MappedGet, MappedDelete
<1>6. QED
  BY <1>1, <1>2, <1>3, <1>4, <1>5 DEF Next

\* The sessions of a program that changes no older store are those of a store without a
\* file: what a session opens or rolls back to is a version that was closed, whole; its
\* changes are its own until Close makes them the newest version, in one step although
\* it writes three times; a crash anywhere, in the middle of Close too, or a session that
\* is forgotten, takes no version away (Initnew, Save, GetEntry, DeleteEntry, Rollback,
\* Close, WriteHeader, WriteLookup, WriteFlags).
THEOREM SessionsAreVersions == ASSUME EditsOld = FALSE PROVE Spec => ImplementsEntryStore
<1>1. Init => Store!StoreInit
  BY MappedInit
<1>2. Types /\ FileInv /\ SessionInv /\ [Next]_vars => [Store!StoreNext]_(Store!storeVars)
  BY MappedStep DEF Inv
<1>3. QED
  BY <1>1, <1>2, StoreInvariant, PTL DEF Spec, ImplementsEntryStore, Store!StoreSpec
=============================================================================
