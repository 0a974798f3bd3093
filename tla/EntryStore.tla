------------------------------ MODULE EntryStore ------------------------------
(***************************************************************************)
(* What a multi-event store promises, without a file: a history of         *)
(* versions, each a list of entries with a header, and known by a number.  *)
(* A session works on a copy of one version and either commits it as a new *)
(* version, with a number above all others, or leaves the history as it    *)
(* was.                                                                    *)
(***************************************************************************)
EXTENDS Naturals, Sequences

CONSTANTS Values,   \* the contents an entry or a header may have
          Nothing   \* the empty content

VARIABLES versions, \* the committed versions by number: [entries, header, parent]
          session,  \* "shut", "open", or "lost": what was opened is not a version
          base,     \* the number of the version the session started from, 0 for none
          entries, header, loaded,    \* the session's copy, and the entry at hand
          spoilt    \* the latest version is not the end of the file

storeVars == <<versions, session, base, entries, header, loaded, spoilt>>

\* What a session is before it has opened anything.
NoSession == base = 0 /\ entries = <<>> /\ header = Nothing /\ loaded = Nothing

NoVersion == DOMAIN versions = {}

StoreInit == NoVersion /\ session = "shut" /\ NoSession /\ spoilt = FALSE

Drop == base' = 0 /\ entries' = <<>> /\ header' = Nothing /\ loaded' = Nothing

Create ==
    /\ session = "shut" /\ NoVersion
    /\ session' = "open" /\ UNCHANGED <<versions, base, entries, header, loaded, spoilt>>

\* Take version v, whose first entry is at hand.
Take(v) ==
    /\ session' = "open" /\ base' = v
    /\ versions[v].entries # <<>>
    /\ entries' = versions[v].entries /\ header' = versions[v].header
    /\ loaded' = entries'[1]
    /\ spoilt' = FALSE /\ UNCHANGED versions

Open == session = "shut" /\ \E v \in DOMAIN versions : Take(v)

\* Nothing is known of a session that opens a version without entries, or the end
\* of a spoilt file.
OpenLost ==
    /\ session = "shut"
    /\ spoilt \/ \E v \in DOMAIN versions : versions[v].entries = <<>>
    /\ session' = "lost" /\ spoilt' = FALSE /\ UNCHANGED <<versions, base, entries, header, loaded>>

Set       == loaded' \in Values /\ UNCHANGED <<entries, header>>
SetHeader == header' \in Values /\ UNCHANGED <<entries, loaded>>

Put ==
    /\ \/ entries' = Append(entries, loaded)
       \/ \E k \in 1..Len(entries) : entries' = [entries EXCEPT ![k] = loaded]
    /\ UNCHANGED <<header, loaded>>

Fetch == \E k \in 1..Len(entries) : loaded' = entries[k] /\ UNCHANGED <<entries, header>>

Remove ==
    /\ \E k \in 1..Len(entries) :
          entries' = SubSeq(entries, 1, k - 1) \o SubSeq(entries, k + 1, Len(entries))
    /\ UNCHANGED <<header, loaded>>

Work ==
    /\ session = "open" /\ UNCHANGED session
    /\ Set \/ SetHeader \/ Put \/ Fetch \/ Remove
    /\ UNCHANGED <<versions, base, spoilt>>

\* Back to the version the base was made from: it, or the loss of an empty one.
Rollback ==
    /\ session = "open" /\ base > 0 /\ versions[base].parent > 0
    /\ \/ Take(versions[base].parent)
       \/ /\ versions[versions[base].parent].entries = <<>>
          /\ session' = "lost" /\ Drop /\ UNCHANGED <<versions, spoilt>>

\* No entry of an empty store can be fetched.
FetchLost ==
    /\ session = "open" /\ entries = <<>>
    /\ session' = "lost" /\ Drop /\ UNCHANGED <<versions, spoilt>>

\* Version v is added, after all there are.
Added(v, version) ==
    /\ v > 0 /\ \A u \in DOMAIN versions : u < v
    /\ versions' = [u \in DOMAIN versions \cup {v} |->
                       IF u = v THEN version ELSE versions[u]]

Commit ==
    /\ session = "open" /\ session' = "shut"
    /\ \E v \in DOMAIN versions' :
          Added(v, [entries |-> entries, header |-> header, parent |-> base])
    /\ Drop /\ spoilt' = FALSE

Leave ==
    /\ session # "shut"
    /\ session' = "shut" /\ Drop /\ spoilt' \in BOOLEAN /\ UNCHANGED versions

StoreNext == Create \/ Open \/ OpenLost \/ Work \/ Rollback \/ FetchLost \/ Commit \/ Leave

StoreSpec == StoreInit /\ [][StoreNext]_storeVars
=============================================================================
