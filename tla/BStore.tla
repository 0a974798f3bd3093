-------------------------------- MODULE BStore --------------------------------
(***************************************************************************)
(* A multi-event BStore over an uncompressed BinaryStream: the file, the   *)
(* object that writes it, and the sessions of programs that may end at any *)
(* point.                                                                  *)
(*                                                                         *)
(* The file is a sequence of blocks: the entries saved, and at each Close  *)
(* the header, the lookup table and the flags.  An offset is the number of *)
(* blocks before it, 0 for the start of the file.  An entry and a header   *)
(* are maps in one format, so one can be read where the other is; what is  *)
(* read where no map is, is Junk.  The type info that may follow an entry  *)
(* is part of its block.                                                   *)
(* Operators that no action uses (NotWritten, LastWritten, KeepFileEnd)    *)
(* are faulty variants, used as mutants.                                   *)
(***************************************************************************)
EXTENDS Naturals, Sequences, FiniteSets, SequencesExt

CONSTANTS
    Values,        \* contents of m_variables and of the header's
    Nothing,       \* ... with no variable set
    Junk,          \* what comes out of reading the wrong place
    EditsOld,      \* does the program change a store opened or rolled back to an
                   \* earlier end of its file?
    MaxBlocks,     \* bound: length of the file at which saving and deleting stop
    MaxSaves       \* bound: number of saves in a session

ASSUME StoreAssumption ==
    /\ Nothing \in Values /\ Junk \notin Values
    /\ EditsOld \in BOOLEAN /\ MaxBlocks \in Nat /\ MaxSaves \in Nat

VARIABLES
    exists, disk,          \* the file
    flushed,               \* how much of it a crash cannot take back
    obj,                   \* "none", "open", "closing" or "broken"
    m_variables, Header, m_has_header,
    m_lookup, m_update,
    m_file_end, m_open_file_end, m_previous_file_end,
    m_header_start, m_lookup_start

fileVars  == <<exists, disk, flushed>>
endVars   == <<m_file_end, m_open_file_end, m_previous_file_end>>
startVars == <<m_header_start, m_lookup_start>>
objVars   == <<obj, m_variables, Header, m_has_header, m_lookup, m_update, endVars, startVars>>
vars      == <<fileVars, objVars>>

\* The values the constructor gives.
Init ==
    /\ exists = FALSE /\ disk = <<>> /\ flushed = 0
    /\ obj = "none" /\ m_variables = Nothing /\ Header = Nothing /\ m_has_header = FALSE
    /\ m_lookup = <<>> /\ m_update = FALSE
    /\ m_file_end = 0 /\ m_open_file_end = 0 /\ m_previous_file_end = 0
    /\ m_header_start = 0 /\ m_lookup_start = 0

\* The object is destroyed (or has lost its meaning); the next is a new one.
Gone(fate) ==
    /\ obj' = fate /\ m_variables' = Nothing /\ Header' = Nothing /\ m_has_header' = FALSE
    /\ m_lookup' = <<>> /\ m_update' = FALSE
    /\ m_file_end' = 0 /\ m_open_file_end' = 0 /\ m_previous_file_end' = 0
    /\ m_header_start' = 0 /\ m_lookup_start' = 0

-----------------------------------------------------------------------------
(* The file *)

MapBlock(value)    == [kind |-> "map", value |-> value]
LookupBlock(table) == [kind |-> "lookup", table |-> table]
FlagsBlock(header, has, lookup, previous) ==
    [kind |-> "flags", header |-> header, has |-> has, lookup |-> lookup, previous |-> previous]

IsBlock(pos, kind) == pos < Len(disk) /\ disk[pos + 1].kind = kind

MapAt(pos) == IF IsBlock(pos, "map") THEN disk[pos + 1].value ELSE Junk

\* Bwrite: the file is open for appending, wherever it was told to seek.
NotWritten(blocks) == disk
Written(blocks)    == disk \o blocks

\* Btell, after these have been written at the position m_file_end.
LastWritten(blocks) == Len(disk)
Btell(blocks) == IF blocks = <<>> THEN m_file_end ELSE Len(disk) + Len(blocks)

-----------------------------------------------------------------------------
(* Initnew *)

\* A file that does not exist.  The program chooses whether there is a header.
CreateFile ==
    /\ obj = "none" /\ ~exists
    /\ exists' = TRUE
    /\ obj' = "open" /\ m_has_header' \in BOOLEAN /\ m_update' = FALSE
    /\ UNCHANGED <<disk, flushed, m_variables, Header, m_lookup, endVars, startVars>>

EndsInFlags(end) == end > 0 /\ disk[end].kind = "flags"

\* The lookup table that the flags before end name; <<>> if there is none there.
TableAt(pos)  == IF IsBlock(pos, "lookup") THEN disk[pos + 1].table ELSE <<>>
TableFor(end) == IF EndsInFlags(end) THEN TableAt(disk[end].lookup) ELSE <<>>

\* Reading flags, lookup table, header and entry 0 of the store that ends at end.
\* If no flags end there, or the table is empty, the outcome is undefined.
ReadStore(end) ==
    IF TableFor(end) = <<>> THEN Gone("broken")
    ELSE /\ obj' = "open" /\ m_update' = FALSE
         /\ m_file_end' = end /\ m_open_file_end' = end
         /\ m_header_start' = disk[end].header /\ m_has_header' = disk[end].has
         /\ m_lookup_start' = disk[end].lookup /\ m_previous_file_end' = disk[end].previous
         /\ m_lookup' = TableFor(end)
         /\ Header' = IF m_has_header' THEN MapAt(m_header_start') ELSE Header
         /\ m_variables' = MapAt(m_lookup'[1])

\* file_end: by default the end of the file, else an end the program knows, that
\* of an earlier Close.
OpenFile ==
    /\ obj = "none" /\ exists
    /\ \E end \in 0..Len(disk) :
          /\ end = Len(disk) \/ EndsInFlags(end)
          /\ ReadStore(end)
    /\ flushed' = Len(disk)
    /\ UNCHANGED <<exists, disk>>

-----------------------------------------------------------------------------
(* Work on an open store *)

\* Set, Remove, Delete and operator[] on the store, and on its Header
SetVariables ==
    /\ obj = "open"
    /\ m_variables' \in Values
    /\ UNCHANGED <<fileVars, obj, Header, m_has_header, m_lookup, m_update, endVars, startVars>>

SetHeader ==
    /\ obj = "open" /\ m_has_header
    /\ Header' \in Values
    /\ UNCHANGED <<fileVars, obj, m_variables, m_has_header, m_lookup, m_update, endVars, startVars>>

\* Whether the program may change the store now.
MayChange == EditsOld \/ m_file_end = Len(disk)

\* The bounds.
Room == Len(disk) < MaxBlocks /\ Len(disk) < flushed + MaxSaves

KeepFileEnd == m_file_end' = m_file_end
MoveFileEnd == m_file_end' = Len(disk')

\* An entry that exists is replaced in the lookup table, any other is appended.
Save(entry) ==
    /\ obj = "open" /\ MayChange /\ Room
    /\ m_update' = TRUE
    /\ m_lookup' = IF entry < Len(m_lookup) THEN [m_lookup EXCEPT ![entry + 1] = m_file_end]
                                            ELSE Append(m_lookup, m_file_end)
    /\ disk' = Written(<<MapBlock(m_variables)>>)
    /\ MoveFileEnd
    /\ UNCHANGED <<exists, flushed, obj, m_variables, Header, m_has_header, m_open_file_end,
                   m_previous_file_end, startVars>>

\* m_lookup.size() - 1 < entry_request does not hold for an empty table.
GetEntry(entry) ==
    /\ obj = "open"
    /\ IF m_lookup = <<>> THEN Gone("broken")
       ELSE /\ entry < Len(m_lookup)
            /\ m_variables' = MapAt(m_lookup[entry + 1])
            /\ UNCHANGED <<obj, Header, m_has_header, m_lookup, m_update, endVars, startVars>>
    /\ UNCHANGED fileVars

DeleteEntry(entry) ==
    /\ obj = "open" /\ MayChange /\ Len(disk) < MaxBlocks
    /\ entry < Len(m_lookup)
    /\ m_lookup' = RemoveAt(m_lookup, entry + 1)
    /\ m_update' = TRUE
    /\ UNCHANGED <<fileVars, obj, m_variables, Header, m_has_header, endVars, startVars>>

\* The file is closed and opened again at the end it had when its version was opened.
Rollback ==
    /\ obj = "open" /\ m_previous_file_end # 0
    /\ ReadStore(m_previous_file_end)
    /\ flushed' = Len(disk)
    /\ UNCHANGED <<exists, disk>>

-----------------------------------------------------------------------------
(* Close, and the other ends of a session *)

CloseUnchanged ==
    /\ obj = "open" /\ ~m_update
    /\ Gone("none")
    /\ UNCHANGED fileVars

HeaderBlocks == IF m_has_header THEN <<MapBlock(Header)>> ELSE <<>>

\* WriteHeader and WriteLookup, at the position m_file_end
CloseTables ==
    /\ obj = "open" /\ m_update
    /\ m_header_start' = m_file_end
    /\ m_lookup_start' = Btell(HeaderBlocks)
    /\ m_previous_file_end' = m_open_file_end
    /\ disk' = Written(HeaderBlocks \o <<LookupBlock(m_lookup)>>)
    /\ m_file_end' = Len(disk')
    /\ obj' = "closing"
    /\ UNCHANGED <<exists, flushed, m_variables, Header, m_has_header, m_lookup, m_update,
                   m_open_file_end>>

\* WriteFlags, at the end of the file, which is then closed
CloseFlags ==
    /\ obj = "closing"
    /\ disk' = Written(<<FlagsBlock(m_header_start, m_has_header, m_lookup_start, m_previous_file_end)>>)
    /\ flushed' = Len(disk')
    /\ Gone("none")
    /\ UNCHANGED exists

\* The program crashes, or destroys the store without closing it: some of what the
\* session wrote is in the file, up to all of it.
Stop ==
    /\ obj # "none"
    /\ \E n \in flushed..Len(disk) : disk' = SubSeq(disk, 1, n)
    /\ Gone("none")
    /\ UNCHANGED <<exists, flushed>>

Next ==
    \/ CreateFile \/ OpenFile
    \/ SetVariables \/ SetHeader
    \/ \E entry \in 0..Len(m_lookup) : Save(entry) \/ GetEntry(entry) \/ DeleteEntry(entry)
    \/ Rollback
    \/ CloseUnchanged \/ CloseTables \/ CloseFlags \/ Stop

Spec == Init /\ [][Next]_vars
=============================================================================
