--------------------------- MODULE BStoreProperties ---------------------------
(***************************************************************************)
(* What a file of entries holds, whatever its programs do and wherever     *)
(* they stop.                                                              *)
(***************************************************************************)
EXTENDS BStore

Offsets  == Nat
Contents == Values \cup {Junk}
Blocks ==
    [kind : {"map"}, value : Contents]
    \cup [kind : {"lookup"}, table : Seq(Offsets)]
    \cup [kind : {"flags"}, header : Offsets, has : BOOLEAN, lookup : Offsets, previous : Offsets]

\* Type invariant of the file and of the object, whose offsets lie in the file.
TypeOK ==
    /\ exists \in BOOLEAN /\ disk \in Seq(Blocks) /\ flushed \in 0..Len(disk)
    /\ obj \in {"none", "open", "closing", "broken"}
    /\ m_variables \in Contents /\ Header \in Contents /\ m_has_header \in BOOLEAN
    /\ m_lookup \in Seq(0..(Len(disk) - 1)) /\ m_update \in BOOLEAN
    /\ m_file_end \in 0..Len(disk) /\ m_open_file_end \in 0..m_file_end
    /\ m_previous_file_end \in 0..m_open_file_end
    /\ m_header_start \in Offsets /\ m_lookup_start \in Offsets

-----------------------------------------------------------------------------
(* The file *)

\* "BStore Binary file schematic" (BStore.h): flags, wherever they are in the file,
\* name a lookup table that lies before them, a header before the table, entries
\* before the header, and the end of an earlier store or none.
WellFormed(end) ==
    LET f == disk[end] IN
    /\ f.lookup + 2 = end /\ IsBlock(f.lookup, "lookup")
    /\ f.has => f.header + 1 = f.lookup /\ IsBlock(f.header, "map")
    /\ \A k \in 1..Len(TableAt(f.lookup)) :
          TableAt(f.lookup)[k] < f.header /\ IsBlock(TableAt(f.lookup)[k], "map")
    /\ f.previous < end /\ (f.previous = 0 \/ EndsInFlags(f.previous))

\* In whatever order sessions save, delete, roll back, close and crash.
FileIsWellFormed == \A end \in 1..Len(disk) : EndsInFlags(end) => WellFormed(end)

\* An entry that has been saved is in the lookup table: "overlad with entry number so
\* as to overwrite in lookup table" (BStore.cpp:352).
SavedEntryIsFound ==
    [][obj = "open" /\ obj' = "open" /\ Len(disk') > Len(disk)
          => \E k \in 1..Len(m_lookup') : m_lookup'[k] = Len(disk)]_vars

-----------------------------------------------------------------------------
(* The store as a history of versions *)

EntriesOf(table) == [k \in 1..Len(table) |-> MapAt(table[k])]

\* The store whose flags end at end.
Version(end) ==
    [entries |-> EntriesOf(TableFor(end)),
     header  |-> IF disk[end].has THEN MapAt(disk[end].header) ELSE Nothing,
     parent  |-> disk[end].previous]

\* A version is known by the end of its flags, the file_end given to Initnew.
Names   == {end \in 1..Len(disk) : EndsInFlags(end)}
History == [end \in Names |-> Version(end)]
Session == IF obj = "none" THEN "shut" ELSE IF obj = "broken" THEN "lost" ELSE "open"
Entries == EntriesOf(m_lookup)
Spoilt  == obj = "none" /\ exists /\ ~EndsInFlags(Len(disk))

Store == INSTANCE EntryStore WITH
    versions <- History,
    session  <- Session,
    base     <- m_open_file_end,
    entries  <- Entries,
    header   <- Header,
    loaded   <- m_variables,
    spoilt   <- Spoilt

\* A session sees the entries and the header of the version it opened or rolled back
\* to, with its own changes; Close makes them the newest version; no session, whether
\* it closes, crashes in the middle of Close or forgets to, changes an older one.
ImplementsEntryStore == Store!StoreSpec
=============================================================================
