---------------------------- MODULE Logging_proofs ----------------------------
(***************************************************************************)
(* Proofs about the log, for any number of threads that log and lines of   *)
(* any length: the state stays well typed, records are whole wherever      *)
(* something protects them, and the log implements LineLog.                                  *)
(***************************************************************************)
EXTENDS LoggingProperties, TLAPS

-----------------------------------------------------------------------------
(* The inductive invariant *)

Holding == {"head", "text", "clear"}

\* Who holds lock1 is in sync or on the way to it; an open line keeps lock2.
LockInv ==
    /\ \A t \in Writers : pc[t] \in Holding <=> lock1 = t
    /\ pc[Streamer] # "wait" /\ \A t \in Loggers : pc[t] # "line"
    /\ pc[Streamer] = "line" => lock2 /\ lock1 = NoThread
    /\ \A t \in Reporters : pc[t] # "wait"

\* The streaming thread's verbosity, or what the log is made with.
StreamVerbosity(level, verbose) ==
    verbose = Verbosity[Streamer] \/ (level = 1 /\ verbose = 1)

\* A line or message of t, with its end.
Whole(text, t) ==
    /\ Len(text) >= 1 /\ text[Len(text)] = End(t)
    /\ \A k \in 1..(Len(text) - 1) : text[k] = <<t, k>>

\* What the buffer holds, and at which level it is printed.
BufferInv ==
    /\ lock1 = NoThread => /\ Len(str) = pieces
                           /\ \A k \in 1..pieces : str[k] = <<Streamer, k>>
                           /\ pieces > 0 => pc[Streamer] = "line"
    /\ lock1 # NoThread => pieces = 0
    /\ lock1 \notin Loggers => /\ m_messagelevel = messagelevel[Streamer]
                               /\ StreamVerbosity(m_messagelevel, m_verbose)
    /\ lock1 \in Loggers => /\ previous[1] = messagelevel[Streamer]
                            /\ StreamVerbosity(previous[1], previous[2])
                            /\ m_messagelevel = messagelevel[lock1]
                            /\ m_verbose = Verbosity[lock1]
    /\ \A t \in Writers : /\ pc[t] \in {"head", "text"} => Whole(str, t)
                          /\ pc[t] = "text" => m_messagelevel <= m_verbose

\* What was written last to a file.
EndsInHead(f, t) == file[f] = <<"head", t>>
EndsInText(f)    == file[f] = <<>> \/ file[f][1] = "text"
FromLog(f)       == split \/ file[f] = <<>> \/ file[f][2] \in Writers

\* The file of the log, as far as the threads that use the log write to it.
FileInv ==
    FromLog("o") =>
      /\ \A t \in Writers : pc[t] = "text" => EndsInHead("o", t)
      /\ (\A t \in Writers : pc[t] # "text") => EndsInText("o")

\* What the buffer of std::clog holds while t alone reports
ReportOf(t) == IF pc[t] = "line" THEN <<<<t, 1>>>> ELSE <<<<t, 1>>, End(t)>>

\* A record of a report whose text is still missing has its reporter on the way to it.
OpenHead == EndsInText("e") \/ \E t \in Reporters : pc[t] = "text" /\ EndsInHead("e", t)

\* A report that no other one overlaps has the buffer of std::clog for itself, and the
\* file of its own if there is one; when the last one ends it leaves both in order.
ReportInv ==
    /\ \A t \in Reporters \ disturbed :
          pc[t] # "idle" => /\ Others(t) = {} /\ errstr = ReportOf(t)
                            /\ split /\ pc[t] = "text" => EndsInHead("e", t)
    /\ (\A t \in Reporters : pc[t] = "idle") => errstr = <<>>
    /\ split => OpenHead

IInv == TypeOK /\ LockInv /\ BufferInv /\ FileInv /\ ReportInv

-----------------------------------------------------------------------------
(* Sequences *)

LEMMA AppendFacts ==
    ASSUME NEW S, NEW s \in Seq(S), NEW x \in S
    PROVE  /\ Append(s, x) \in Seq(S) /\ Len(Append(s, x)) = Len(s) + 1 /\ Len(s) \in Nat
           /\ \A k \in 1..Len(s) : Append(s, x)[k] = s[k]
           /\ Append(s, x)[Len(s) + 1] = x
  OBVIOUS

LEMMA AppendTwo == ASSUME NEW x, NEW y PROVE Append(<<x>>, y) = <<x, y>>
<1> DEFINE S == {x, y}
           a == Append(<<x>>, y)
           b == <<x, y>>
<1>1. <<x>> \in Seq(S) /\ Len(<<x>>) = 1 /\ <<x>>[1] = x /\ x \in S /\ y \in S
  OBVIOUS
<1>2. a \in Seq(S) /\ Len(a) = 2 /\ a[1] = x /\ a[2] = y
  BY <1>1, AppendFacts
<1>3. b \in Seq(S) /\ Len(b) = 2 /\ b[1] = x /\ b[2] = y
  OBVIOUS
<1>4. /\ a = [k \in 1..2 |-> a[k]] /\ b = [k \in 1..2 |-> b[k]]
      /\ \A k \in 1..2 : a[k] = b[k]
  BY <1>2, <1>3
<1> HIDE DEF a, b
<1>5. a = b
  BY <1>4, Zenon
<1>6. QED
  BY <1>5 DEF a, b

LEMMA EmptyFacts ==
    ASSUME NEW S, NEW s \in Seq(S)
    PROVE  (s = <<>> <=> Len(s) = 0) /\ Len(s) \in Nat
           /\ (s # <<>> => Last(s) \in S /\ Last(s) = s[Len(s)])
  BY DEF Last

LEMMA WriteFacts ==
    ASSUME TypeOK, NEW f \in {"o", "e"}, NEW kind \in {"head", "text"}, NEW t \in AllThreads,
           Write(f, kind, t)
    PROVE  /\ file' \in [{"o", "e"} -> Writes \cup {<<>>}]
           /\ file'[f] = <<kind, t>> /\ file'[f] # <<>>
           /\ file'[f][1] = kind /\ file'[f][2] = t
           /\ \A g \in {"o", "e"} : g # f => file'[g] = file[g]
<1>1. file \in [{"o", "e"} -> Writes \cup {<<>>}] /\ <<kind, t>> \in Writes
  BY DEF TypeOK, Writes
<1>2. QED
  BY <1>1 DEF Write

-----------------------------------------------------------------------------
(* The invariant holds *)

Places == {"idle", "line", "wait", "head", "text", "clear"}

LEMMA GotoFacts ==
    ASSUME TypeOK, NEW t \in AllThreads, NEW where \in Places, Goto(t, where)
    PROVE  /\ pc' \in [AllThreads -> Places]
           /\ \A u \in AllThreads : pc'[u] = IF u = t THEN where ELSE pc[u]
  BY DEF TypeOK, Goto, Places

LEMMA ThreadFacts ==
    /\ Streamer \in Writers /\ Loggers \subseteq Writers /\ Streamer \notin Loggers
    /\ Writers \subseteq AllThreads /\ Reporters \subseteq AllThreads
    /\ Reporters \cap Writers = {} /\ \A t \in AllThreads : t \in Writers \/ t \in Reporters
    /\ NoThread \notin Writers /\ \A t \in Writers : t = Streamer \/ t \in Loggers
    /\ \A t \in Writers : Verbosity[t] \in Levels
    /\ 0 \in Levels /\ 1 \in Levels /\ Levels \subseteq Nat /\ MaxPieces \in Nat \ {0}
  BY LoggingAssumption DEF LoggingAssumption, Writers, AllThreads

LEMMA InitIInv == ASSUME Init PROVE IInv
<1>1. TypeOK
  <2>1. /\ 0 \in 0..MaxPieces /\ Len(<<>>) = 0 /\ <<>> \in Seq(Pieces) /\ <<>> \in Seq(Reports)
        /\ 0 <= MaxPieces + 1 /\ split \in BOOLEAN
    BY ThreadFacts, LoggingAssumption DEF LoggingAssumption, Init
  <2>2. /\ pc \in [AllThreads -> Places] /\ file \in [{"o", "e"} -> Writes \cup {<<>>}]
        /\ messagelevel \in [Writers -> Levels] /\ previous \in Levels \X Levels
    BY <2>1, ThreadFacts DEF Init, AllThreads, Places
  <2>3. QED
    BY <2>1, <2>2, ThreadFacts DEF Init, TypeOK, Places
<1>2. LockInv
  BY ThreadFacts DEF Init, LockInv, Holding, AllThreads
<1>3. BufferInv
  <2>1. lock1 \notin Loggers /\ lock1 = NoThread /\ pieces = 0 /\ Len(str) = 0
    BY ThreadFacts DEF Init
  <2>2. \A t \in Writers : pc[t] = "idle"
    BY DEF Init
  <2>3. QED
    BY <2>1, <2>2, ThreadFacts DEF Init, BufferInv, StreamVerbosity
<1>4. FileInv /\ ReportInv
  <2>1. \A t \in AllThreads : pc[t] = "idle"
    BY DEF Init, AllThreads
  <2>2. file["o"] = <<>> /\ file["e"] = <<>> /\ errstr = <<>>
    BY DEF Init
  <2>3. QED
    BY <2>1, <2>2, ThreadFacts DEF FileInv, ReportInv, OpenHead, EndsInText
<1>5. QED
  BY <1>1, <1>2, <1>3, <1>4 DEF IInv

\* Steps of the threads that use the log
LEMMA ReportKept ==
    ASSUME ReportInv, UNCHANGED <<split, reportVars>>, file'["e"] = file["e"],
           \A t \in Reporters : pc'[t] = pc[t]
    PROVE  ReportInv'
  BY DEF ReportInv, OpenHead, ReportOf, Others, EndsInHead, EndsInText, reportVars, End

\* Steps that write to no file.
LEMMA FileKept ==
    ASSUME FileInv, UNCHANGED <<split, file>>,
           \A t \in Writers : pc'[t] = "text" <=> pc[t] = "text"
    PROVE  FileInv'
  BY ThreadFacts DEF FileInv, FromLog, EndsInHead, EndsInText

LEMMA InvStreaming == ASSUME IInv, Streaming PROVE IInv'
<1>0. /\ TypeOK /\ LockInv /\ BufferInv /\ FileInv /\ ReportInv /\ lock1 = NoThread
      /\ pc[Streamer] \in {"idle", "line"}
      /\ UNCHANGED <<split, previous, fileVars, reportVars>>
  BY DEF IInv, Streaming, SetLevel, Stream, EndLine
<1>1. /\ \A t \in Writers : pc[t] \notin Holding
      /\ Len(str) = pieces /\ str \in Seq(Pieces) /\ pieces \in 0..MaxPieces
      /\ \A k \in 1..pieces : str[k] = <<Streamer, k>>
      /\ pieces > 0 => pc[Streamer] = "line"
      /\ m_messagelevel = messagelevel[Streamer] /\ StreamVerbosity(m_messagelevel, m_verbose)
  BY <1>0, ThreadFacts DEF LockInv, BufferInv, TypeOK
<1>2. ASSUME NEW level \in Levels, SetLevel(level) PROVE IInv'
  <2>1. /\ pc[Streamer] = "idle" /\ lock1' = NoThread /\ lock2' = FALSE
        /\ m_messagelevel' = level /\ m_verbose' = Verbosity[Streamer]
        /\ UNCHANGED <<str, pc, pieces>>
        /\ messagelevel' = [messagelevel EXCEPT ![Streamer] = level]
    BY <1>0, <1>2 DEF SetLevel
  <2>2. messagelevel' \in [Writers -> Levels] /\ messagelevel'[Streamer] = level
    BY <1>0, <2>1, ThreadFacts DEF TypeOK
  <2>3. TypeOK'
    BY <1>0, <2>1, <2>2, ThreadFacts DEF TypeOK, fileVars, reportVars
  <2>4. LockInv' /\ FileInv' /\ ReportInv'
    BY <1>0, <2>1, FileKept, ReportKept DEF LockInv, fileVars
  <2>5. BufferInv'
    BY <1>1, <2>1, <2>2, ThreadFacts DEF BufferInv, StreamVerbosity, Holding
  <2>6. QED
    BY <2>3, <2>4, <2>5 DEF IInv
<1>3. CASE Stream \/ EndLine
  <2> DEFINE x == IF Stream THEN <<Streamer, pieces + 1>> ELSE End(Streamer)
             where == IF Stream THEN "line" ELSE "head"
  <2>1. /\ lock2' = TRUE /\ str' = Append(str, x) /\ Goto(Streamer, where)
        /\ UNCHANGED <<m_messagelevel, m_verbose, messagelevel>>
        /\ \/ /\ Stream /\ pieces < MaxPieces /\ lock1' = NoThread /\ pieces' = pieces + 1
           \/ /\ EndLine /\ ~Stream /\ lock1' = Streamer /\ pieces' = 0
              /\ pc[Streamer] = "line"
    BY <1>0, <1>3 DEF Stream, EndLine
  <2>2. x \in Pieces
    <3>1. Stream => pieces + 1 \in 0..MaxPieces
      BY <1>1, <2>1, ThreadFacts
    <3>2. QED
      BY <3>1, ThreadFacts DEF Pieces, End
  <2>3. /\ str' \in Seq(Pieces) /\ Len(str') = Len(str) + 1 /\ str'[Len(str) + 1] = x
        /\ \A k \in 1..Len(str) : str'[k] = str[k]
    BY <1>1, <2>1, <2>2, AppendFacts
  <2>4. /\ pc' \in [AllThreads -> Places] /\ where \in {"line", "head"}
        /\ \A u \in AllThreads : pc'[u] = IF u = Streamer THEN where ELSE pc[u]
    BY <1>0, <2>1, ThreadFacts, GotoFacts DEF Places
  <2>5. TypeOK'
    <3>1. Len(str') <= MaxPieces + 1 /\ pieces' \in 0..MaxPieces
      BY <1>1, <2>1, <2>3, ThreadFacts
    <3>2. QED
      BY <1>0, <2>1, <2>3, <2>4, <3>1, ThreadFacts DEF TypeOK, fileVars, reportVars, Places
  <2>6. LockInv'
    BY <1>0, <1>1, <2>1, <2>4, ThreadFacts DEF LockInv, Holding
  <2>7. FileInv' /\ ReportInv'
    BY <1>0, <1>1, <2>4, ThreadFacts, FileKept, ReportKept DEF fileVars, Holding
  <2>8. BufferInv'
    <3>1. CASE Stream
      <4>1. /\ lock1' = NoThread /\ where = "line" /\ pieces' = pieces + 1
            /\ x = <<Streamer, pieces + 1>> /\ pc'[Streamer] = "line"
        BY <2>1, <2>4, <3>1, ThreadFacts
      <4>2. \A k \in 1..pieces' : str'[k] = <<Streamer, k>>
        <5>1. \A k \in 1..(pieces + 1) : k \in 1..pieces \/ k = pieces + 1
          BY <1>1
        <5>2. QED
          BY <1>1, <2>3, <4>1, <5>1
      <4>3. \A t \in Writers : pc'[t] \notin Holding
        BY <1>1, <2>4, <4>1, ThreadFacts DEF Holding
      <4>4. QED
        BY <1>1, <2>1, <2>3, <4>1, <4>2, <4>3, ThreadFacts DEF BufferInv, Holding
    <3>2. CASE ~Stream
      <4>1. /\ lock1' = Streamer /\ where = "head" /\ pieces' = 0 /\ x = End(Streamer)
        BY <2>1, <3>2
      <4>2. Whole(str', Streamer)
        BY <1>1, <2>3, <4>1 DEF Whole
      <4>3. \A t \in Writers : IF t = Streamer THEN pc'[t] = "head" ELSE pc'[t] \notin Holding
        BY <1>1, <2>4, <4>1, ThreadFacts
      <4>4. QED
        BY <1>1, <2>1, <4>1, <4>2, <4>3, ThreadFacts DEF BufferInv, Holding
    <3>3. QED
      BY <3>1, <3>2
  <2>9. QED
    BY <2>5, <2>6, <2>7, <2>8 DEF IInv
<1>4. QED
  BY <1>2, <1>3 DEF Streaming

LEMMA InvCallLog ==
    ASSUME IInv, NEW t \in Loggers, NEW level \in Levels, CallLog(t, level)
    PROVE  IInv'
<1>0. /\ TypeOK /\ LockInv /\ BufferInv /\ FileInv /\ ReportInv
      /\ pc[t] = "idle" /\ t \in Writers /\ t # Streamer
      /\ UNCHANGED <<split, bufferVars, lockVars, pieces, previous, fileVars, reportVars>>
      /\ messagelevel' = [messagelevel EXCEPT ![t] = level] /\ Goto(t, "wait")
  BY ThreadFacts DEF IInv, CallLog
<1>1. /\ pc' \in [AllThreads -> Places]
      /\ \A u \in AllThreads : pc'[u] = IF u = t THEN "wait" ELSE pc[u]
  BY <1>0, ThreadFacts, GotoFacts DEF Places
<1>2. /\ messagelevel' \in [Writers -> Levels]
      /\ \A u \in Writers : u # t => messagelevel'[u] = messagelevel[u]
  BY <1>0 DEF TypeOK
<1>3. TypeOK'
  BY <1>0, <1>1, <1>2 DEF TypeOK, Places, bufferVars, lockVars, fileVars, reportVars
<1>4. LockInv' /\ lock1 # t
  BY <1>0, <1>1, ThreadFacts DEF LockInv, Holding, lockVars
<1>5. FileInv' /\ ReportInv'
  BY <1>0, <1>1, ThreadFacts, FileKept, ReportKept DEF fileVars
<1>6. BufferInv'
  BY <1>0, <1>1, <1>2, <1>4, ThreadFacts DEF BufferInv, bufferVars, lockVars, StreamVerbosity
<1>7. QED
  BY <1>3, <1>4, <1>5, <1>6 DEF IInv

LEMMA InvLog == ASSUME IInv, NEW t \in Loggers, Log(t) PROVE IInv'
<1>0. /\ TypeOK /\ LockInv /\ BufferInv /\ FileInv /\ ReportInv
      /\ pc[t] = "wait" /\ t \in Writers /\ t # Streamer
      /\ lock1 = NoThread /\ ~lock2 /\ lock1' = t /\ lock2' = TRUE
      /\ previous' = <<m_messagelevel, m_verbose>>
      /\ m_messagelevel' = messagelevel[t] /\ m_verbose' = Verbosity[t]
      /\ str' = Append(str, End(t)) /\ Goto(t, "head")
      /\ UNCHANGED <<split, pieces, messagelevel, fileVars, reportVars>>
  BY ThreadFacts DEF IInv, Log, LocksFree
<1>1. /\ pc' \in [AllThreads -> Places]
      /\ \A u \in AllThreads : pc'[u] = IF u = t THEN "head" ELSE pc[u]
  BY <1>0, ThreadFacts, GotoFacts DEF Places
<1>2. /\ \A u \in Writers : pc[u] \notin Holding
      /\ pieces = 0 /\ Len(str) = 0 /\ str \in Seq(Pieces)
      /\ m_messagelevel = messagelevel[Streamer] /\ StreamVerbosity(m_messagelevel, m_verbose)
  BY <1>0, ThreadFacts DEF LockInv, BufferInv, TypeOK
<1>3. str' \in Seq(Pieces) /\ Len(str') = 1 /\ str'[1] = End(t)
  <2>1. End(t) \in Pieces
    BY <1>0, ThreadFacts DEF End, Pieces
  <2>2. QED
    BY <1>0, <1>2, <2>1, AppendFacts
<1>4. TypeOK'
  <2>1. messagelevel[t] \in Levels /\ Verbosity[t] \in Levels /\ Len(str') <= MaxPieces + 1
    BY <1>0, <1>3, ThreadFacts DEF TypeOK
  <2>2. QED
    BY <1>0, <1>1, <1>3, <2>1 DEF TypeOK, Places, fileVars, reportVars
<1>5. LockInv'
  BY <1>0, <1>1, <1>2, ThreadFacts DEF LockInv, Holding
<1>6. FileInv' /\ ReportInv'
  BY <1>0, <1>1, ThreadFacts, FileKept, ReportKept DEF fileVars
<1>7. BufferInv'
  <2>1. Whole(str', t)
    BY <1>3 DEF Whole
  <2>2. \A u \in Writers : IF u = t THEN pc'[u] = "head" ELSE pc'[u] \notin Holding
    BY <1>1, <1>2, ThreadFacts
  <2>3. previous'[1] = m_messagelevel /\ previous'[2] = m_verbose
    BY <1>0
  <2>4. QED
    BY <1>0, <1>2, <2>1, <2>2, <2>3, ThreadFacts DEF BufferInv, Holding
<1>8. QED
  BY <1>4, <1>5, <1>6, <1>7 DEF IInv

\* The holder of lock1 is the only thread in sync.
LEMMA HolderFacts ==
    ASSUME IInv, NEW t \in Writers, pc[t] \in Holding
    PROVE  lock1 = t /\ lock1 # NoThread /\ \A u \in Writers : u # t => pc[u] \notin Holding
  BY ThreadFacts DEF IInv, LockInv

LEMMA InvSyncHead == ASSUME IInv, NEW t \in Writers, SyncHead(t) PROVE IInv'
<1>0. /\ TypeOK /\ LockInv /\ BufferInv /\ FileInv /\ ReportInv
      /\ pc[t] = "head" /\ t \in AllThreads
      /\ UNCHANGED <<split, bufferVars, lockVars, pieces, messagelevel, previous, shown>>
      /\ UNCHANGED reportVars
  BY ThreadFacts DEF IInv, SyncHead, logVars
<1>1. lock1 = t /\ lock1 # NoThread /\ \A u \in Writers : u # t => pc[u] \notin Holding
  BY <1>0, HolderFacts DEF Holding
<1>2. PICK where \in {"text", "clear"} :
         /\ Goto(t, where)
         /\ IF where = "text" THEN m_messagelevel <= m_verbose /\ Write("o", "head", t)
            ELSE UNCHANGED file
  BY DEF SyncHead
<1>3. /\ pc' \in [AllThreads -> Places]
      /\ \A u \in AllThreads : pc'[u] = IF u = t THEN where ELSE pc[u]
  BY <1>0, <1>2, GotoFacts DEF Places
<1>4. LockInv'
  BY <1>0, <1>1, <1>3, ThreadFacts DEF LockInv, Holding, lockVars
<1>5. BufferInv'
  BY <1>0, <1>1, <1>2, <1>3, ThreadFacts DEF BufferInv, Holding, bufferVars, lockVars
<1>6. TypeOK' /\ FileInv' /\ ReportInv'
  <2>1. CASE where = "clear"
    <3>1. FileInv' /\ ReportInv'
      BY <1>0, <1>2, <1>3, <2>1, ThreadFacts, FileKept, ReportKept
    <3>2. QED
      BY <1>0, <1>2, <1>3, <2>1, <3>1 DEF TypeOK, Places, bufferVars, lockVars, reportVars
  <2>2. CASE where = "text"
    <3>1. /\ file' \in [{"o", "e"} -> Writes \cup {<<>>}] /\ file'["e"] = file["e"]
          /\ file'["o"] = <<"head", t>>
      BY <1>0, <1>2, <2>2, WriteFacts
    <3>2. \A u \in Writers : pc'[u] = "text" <=> u = t
      BY <1>1, <1>3, <2>2, ThreadFacts DEF Holding
    <3>3. FileInv'
      BY <3>1, <3>2 DEF FileInv, EndsInHead
    <3>4. ReportInv'
      BY <1>0, <1>3, <3>1, ThreadFacts, ReportKept
    <3>5. QED
      BY <1>0, <1>3, <3>1, <3>3, <3>4 DEF TypeOK, Places, bufferVars, lockVars, reportVars
  <2>3. QED
    BY <2>1, <2>2
<1>7. QED
  BY <1>4, <1>5, <1>6 DEF IInv

LEMMA InvSyncText == ASSUME IInv, NEW t \in Writers, SyncText(t) PROVE IInv'
<1>0. /\ TypeOK /\ LockInv /\ BufferInv /\ FileInv /\ ReportInv
      /\ pc[t] = "text" /\ t \in AllThreads
      /\ Write("o", "text", t) /\ shown' = <<str, m_messagelevel>> /\ Goto(t, "clear")
      /\ UNCHANGED <<split, bufferVars, lockVars, pieces, messagelevel, previous, reportVars>>
  BY ThreadFacts DEF IInv, SyncText
<1>1. lock1 = t /\ lock1 # NoThread /\ \A u \in Writers : u # t => pc[u] \notin Holding
  BY <1>0, HolderFacts DEF Holding
<1>2. /\ pc' \in [AllThreads -> Places]
      /\ \A u \in AllThreads : pc'[u] = IF u = t THEN "clear" ELSE pc[u]
  BY <1>0, GotoFacts DEF Places
<1>3. LockInv'
  BY <1>0, <1>1, <1>2, ThreadFacts DEF LockInv, Holding, lockVars
<1>4. BufferInv'
  BY <1>0, <1>1, <1>2, ThreadFacts DEF BufferInv, Holding, bufferVars, lockVars
<1>5. /\ file' \in [{"o", "e"} -> Writes \cup {<<>>}] /\ file'["e"] = file["e"]
      /\ file'["o"] = <<"text", t>> /\ file'["o"][1] = "text"
  BY <1>0, WriteFacts
<1>6. FileInv' /\ ReportInv'
  <2>1. EndsInText("o")' /\ \A u \in Writers : pc'[u] # "text"
    BY <1>1, <1>2, <1>5, ThreadFacts DEF EndsInText, Holding
  <2>2. FileInv'
    BY <2>1 DEF FileInv
  <2>3. ReportInv'
    BY <1>0, <1>2, <1>5, ThreadFacts, ReportKept
  <2>4. QED
    BY <2>2, <2>3
<1>7. TypeOK'
  <2>1. shown' \in Seq(Pieces) \X Levels
    BY <1>0 DEF TypeOK
  <2>2. QED
    BY <1>0, <1>2, <1>5, <2>1 DEF TypeOK, Places, bufferVars, lockVars, reportVars
<1>8. QED
  BY <1>3, <1>4, <1>6, <1>7 DEF IInv

LEMMA InvSyncEnd == ASSUME IInv, NEW t \in Writers, SyncEnd(t) PROVE IInv'
<1>0. /\ TypeOK /\ LockInv /\ BufferInv /\ FileInv /\ ReportInv
      /\ pc[t] = "clear" /\ t \in AllThreads
      /\ str' = <<>> /\ lock1' = NoThread /\ lock2' = FALSE /\ Goto(t, "idle")
      /\ IF t = Streamer THEN UNCHANGED <<m_messagelevel, m_verbose>>
         ELSE m_messagelevel' = previous[1] /\ m_verbose' = previous[2]
      /\ messagelevel' = IF t = Streamer THEN messagelevel
                         ELSE [messagelevel EXCEPT ![t] = 1]
      /\ previous' = <<0, 0>> /\ shown' = <<>>
      /\ UNCHANGED <<split, pieces, file, reportVars>>
  BY ThreadFacts DEF IInv, SyncEnd, Empty, Opened, Restored, Forgotten
<1>1. lock1 = t /\ lock1 # NoThread /\ \A u \in Writers : u # t => pc[u] \notin Holding
  BY <1>0, HolderFacts DEF Holding
<1>2. /\ pc' \in [AllThreads -> Places]
      /\ \A u \in AllThreads : pc'[u] = IF u = t THEN "idle" ELSE pc[u]
  BY <1>0, GotoFacts DEF Places
<1>3. pc'[Streamer] # "line"
  BY <1>0, <1>1, <1>2, ThreadFacts DEF LockInv, BufferInv
<1>4. LockInv'
  BY <1>0, <1>1, <1>2, <1>3, ThreadFacts DEF LockInv, Holding
<1>5. FileInv' /\ ReportInv'
  BY <1>0, <1>2, ThreadFacts, FileKept, ReportKept
<1>6. /\ m_messagelevel' \in Levels /\ m_verbose' \in Levels
      /\ m_messagelevel' = messagelevel[Streamer]
      /\ StreamVerbosity(m_messagelevel', m_verbose')
  BY <1>0, <1>1, ThreadFacts DEF BufferInv, TypeOK
<1>7. pieces' = 0 /\ Len(str') = 0 /\ str' \in Seq(Pieces)
  BY <1>0, <1>1 DEF BufferInv
<1>8. TypeOK'
  <2>1. Len(str') <= MaxPieces + 1 /\ pieces' \in 0..MaxPieces
    BY <1>7, ThreadFacts
  <2>2. messagelevel' \in [Writers -> Levels] /\ previous' \in Levels \X Levels
    BY <1>0, ThreadFacts DEF TypeOK
  <2>3. QED
    BY <1>0, <1>2, <1>6, <1>7, <2>1, <2>2 DEF TypeOK, Places, reportVars
<1>9. BufferInv'
  <2>1. /\ \A u \in Writers : pc'[u] \notin Holding
        /\ messagelevel'[Streamer] = messagelevel[Streamer]
    BY <1>0, <1>1, <1>2, ThreadFacts DEF Holding, TypeOK
  <2>2. QED
    BY <1>0, <1>6, <1>7, <2>1, ThreadFacts DEF BufferInv, Holding
<1>10. QED
  BY <1>4, <1>5, <1>8, <1>9 DEF IInv

\* A step of a report leaves the log's own threads and buffer alone.
LEMMA ReportStep ==
    ASSUME IInv, NEW t \in Reporters, NEW where \in Places \ {"wait"}, Goto(t, where),
           UNCHANGED logVars, errstr' \in Seq(Reports), disturbed' \subseteq Reporters,
           file' \in [{"o", "e"} -> Writes \cup {<<>>}], FileInv'
    PROVE  /\ TypeOK' /\ LockInv' /\ BufferInv'
           /\ \A u \in AllThreads : pc'[u] = IF u = t THEN where ELSE pc[u]
<1>1. /\ pc' \in [AllThreads -> Places] /\ t \in AllThreads
      /\ \A u \in AllThreads : pc'[u] = IF u = t THEN where ELSE pc[u]
      /\ TypeOK /\ LockInv /\ BufferInv
  BY ThreadFacts, GotoFacts DEF IInv
<1>2. \A u \in Writers : pc'[u] = pc[u]
  BY <1>1, ThreadFacts
<1>3. LockInv'
  BY <1>1, <1>2, ThreadFacts DEF LockInv, Holding, logVars, lockVars
<1>4. BufferInv'
  BY <1>1, <1>2, ThreadFacts DEF BufferInv, logVars, bufferVars, lockVars
<1>5. TypeOK'
  BY <1>1 DEF TypeOK, Places, logVars, bufferVars, lockVars
<1>6. QED
  BY <1>1, <1>3, <1>4, <1>5

\* What a write of a report leaves of the log's file.
LEMMA ReportWrite ==
    ASSUME IInv, NEW t \in Reporters, NEW kind \in {"head", "text"},
           Write(ErrorFile, kind, t), UNCHANGED split,
           \A u \in Writers : pc'[u] = pc[u]
    PROVE  /\ file' \in [{"o", "e"} -> Writes \cup {<<>>}] /\ FileInv'
           /\ split => file'["e"] = <<kind, t>> /\ file'["e"][1] = kind
<1>1. ErrorFile \in {"o", "e"} /\ t \in AllThreads /\ TypeOK /\ FileInv /\ t \notin Writers
  BY ThreadFacts DEF IInv, ErrorFile
<1>2. /\ file' \in [{"o", "e"} -> Writes \cup {<<>>}]
      /\ file'[ErrorFile] = <<kind, t>> /\ file'[ErrorFile] # <<>>
      /\ file'[ErrorFile][1] = kind /\ file'[ErrorFile][2] = t
      /\ \A g \in {"o", "e"} : g # ErrorFile => file'[g] = file[g]
  BY <1>1, WriteFacts
<1>3. CASE split
  <2>1. ErrorFile = "e" /\ file'["o"] = file["o"]
    BY <1>2, <1>3 DEF ErrorFile
  <2>2. FileInv'
    BY <1>1, <1>3, <2>1 DEF FileInv, FromLog, EndsInHead, EndsInText
  <2>3. QED
    BY <1>2, <2>1, <2>2
<1>4. CASE ~split
  <2>1. ~FromLog("o")'
    BY <1>1, <1>2, <1>4 DEF ErrorFile, FromLog
  <2>2. QED
    BY <1>2, <1>4, <2>1 DEF FileInv
<1>5. QED
  BY <1>3, <1>4

LEMMA InvReport == ASSUME IInv, NEW t \in Reporters, Report(t) PROVE IInv'
<1>0. /\ pc[t] = "idle" /\ errstr' = Append(errstr, <<t, 1>>) /\ Goto(t, "line")
      /\ disturbed' = IF Others(t) = {} THEN disturbed ELSE disturbed \cup Others(t) \cup {t}
      /\ UNCHANGED <<logVars, file>> /\ TypeOK /\ FileInv /\ ReportInv /\ t \in AllThreads
      /\ UNCHANGED split
  BY ThreadFacts DEF IInv, Report, logVars
<1>1. /\ pc' \in [AllThreads -> Places]
      /\ \A u \in AllThreads : pc'[u] = IF u = t THEN "line" ELSE pc[u]
  BY <1>0, GotoFacts DEF Places
<1>2. FileInv'
  BY <1>0, <1>1, ThreadFacts, FileKept
<1>3. errstr' \in Seq(Reports) /\ disturbed' \subseteq Reporters
  <2>1. <<t, 1>> \in Reports /\ errstr \in Seq(Reports) /\ disturbed \subseteq Reporters
    BY <1>0 DEF TypeOK, Reports
  <2>2. QED
    BY <1>0, <2>1 DEF Others
<1>4. TypeOK' /\ LockInv' /\ BufferInv'
  BY <1>0, <1>2, <1>3, ReportStep DEF Places, TypeOK
<1>5. ReportInv'
  <2>1. CASE Others(t) = {}
    <3>1. \A u \in Reporters : pc[u] = "idle"
      BY <1>0, <2>1 DEF Others
    <3>2. errstr' = <<<<t, 1>>>> /\ disturbed' = disturbed
      <4>1. errstr = <<>>
        BY <1>0, <3>1 DEF ReportInv
      <4>2. QED
        BY <1>0, <2>1, <4>1
    <3>3. \A u \in Reporters : pc'[u] = IF u = t THEN "line" ELSE "idle"
      BY <1>1, <3>1, ThreadFacts
    <3>4. Others(t)' = {} /\ ReportOf(t)' = <<<<t, 1>>>>
      BY <3>3 DEF Others, ReportOf
    <3>5. split => EndsInText("e")
      BY <1>0, <3>1 DEF ReportInv, OpenHead
    <3>6. QED
      BY <1>0, <3>2, <3>3, <3>4, <3>5 DEF ReportInv, OpenHead, EndsInText
  <2>2. CASE Others(t) # {}
    <3>1. \A u \in Reporters \ disturbed' : pc'[u] = "idle"
      BY <1>0, <1>1, <2>2, ThreadFacts DEF Others
    <3>2. pc'[t] # "idle"
      BY <1>0, <1>1
    <3>3. \A u \in Reporters : pc[u] = "text" => pc'[u] = "text"
      BY <1>0, <1>1, ThreadFacts
    <3>4. split => OpenHead'
      BY <1>0, <3>3 DEF ReportInv, OpenHead, EndsInText, EndsInHead
    <3>5. QED
      BY <1>0, <3>1, <3>2, <3>4 DEF ReportInv
  <2>3. QED
    BY <2>1, <2>2
<1>6. QED
  BY <1>2, <1>4, <1>5 DEF IInv

\* When t reports, nobody else does or everybody who does is disturbed.
LEMMA DisturbedFacts ==
    ASSUME IInv, NEW t \in Reporters, pc[t] # "idle"
    PROVE  /\ \A u \in Reporters \ disturbed : u # t => pc[u] = "idle"
           /\ t \notin disturbed => /\ \A u \in Reporters : u # t => pc[u] = "idle"
                                    /\ errstr = ReportOf(t)
                                    /\ split /\ pc[t] = "text" => EndsInHead("e", t)
                                    /\ split /\ pc[t] # "text" => EndsInText("e")
<1>1. ReportInv
  BY DEF IInv
<1>2. ASSUME NEW u \in Reporters \ disturbed, u # t, pc[u] # "idle" PROVE FALSE
  BY <1>1, <1>2 DEF ReportInv, Others
<1>3. CASE t \notin disturbed
  <2>1. /\ Others(t) = {} /\ errstr = ReportOf(t)
        /\ split /\ pc[t] = "text" => EndsInHead("e", t)
    BY <1>1, <1>3 DEF ReportInv
  <2>2. \A u \in Reporters : u # t => pc[u] = "idle"
    BY <2>1 DEF Others
  <2>3. split /\ pc[t] # "text" => EndsInText("e")
    BY <1>1, <2>2 DEF ReportInv, OpenHead
  <2>4. QED
    BY <1>2, <2>1, <2>2, <2>3
<1>4. QED
  BY <1>2, <1>3

LEMMA InvReportEnd == ASSUME IInv, NEW t \in Reporters, ReportEnd(t) PROVE IInv'
<1>0. /\ pc[t] = "line" /\ errstr' = Append(errstr, End(t)) /\ Goto(t, "head")
      /\ UNCHANGED <<logVars, file, disturbed>> /\ UNCHANGED split
      /\ TypeOK /\ FileInv /\ ReportInv /\ t \in AllThreads
  BY ThreadFacts DEF IInv, ReportEnd, logVars
<1>1. /\ pc' \in [AllThreads -> Places]
      /\ \A u \in AllThreads : pc'[u] = IF u = t THEN "head" ELSE pc[u]
  BY <1>0, GotoFacts DEF Places
<1>2. FileInv'
  BY <1>0, <1>1, ThreadFacts, FileKept
<1>3. errstr' \in Seq(Reports) /\ disturbed' \subseteq Reporters
  <2>1. End(t) \in Reports /\ errstr \in Seq(Reports) /\ disturbed \subseteq Reporters
    BY <1>0 DEF TypeOK, Reports, End
  <2>2. QED
    BY <1>0, <2>1
<1>4. TypeOK' /\ LockInv' /\ BufferInv'
  BY <1>0, <1>2, <1>3, ReportStep DEF Places, TypeOK
<1>5. ReportInv'
  <2>1. t \notin disturbed =>
           Others(t)' = {} /\ errstr' = ReportOf(t)'
    <3>1. SUFFICES ASSUME t \notin disturbed PROVE Others(t)' = {} /\ errstr' = ReportOf(t)'
      OBVIOUS
    <3>2. errstr = <<<<t, 1>>>> /\ \A u \in Reporters : u # t => pc'[u] = "idle"
      <4>0. pc[t] # "idle"
        BY <1>0
      <4>1. errstr = ReportOf(t) /\ \A u \in Reporters : u # t => pc[u] = "idle"
        BY <3>1, <4>0, DisturbedFacts, Zenon
      <4>2. QED
        BY <1>0, <1>1, <4>1, ThreadFacts DEF ReportOf
    <3>3. errstr' = <<<<t, 1>>, End(t)>> /\ pc'[t] = "head"
      BY <1>0, <1>1, <3>2, AppendTwo
    <3>4. QED
      BY <3>2, <3>3 DEF Others, ReportOf, End
  <2>2. \A u \in Reporters \ disturbed : u # t => pc'[u] = "idle"
    BY <1>0, <1>1, DisturbedFacts, ThreadFacts
  <2>3. \A u \in Reporters : pc[u] = "text" => pc'[u] = "text"
    BY <1>0, <1>1, ThreadFacts
  <2>4. split => OpenHead'
    BY <1>0, <2>3 DEF ReportInv, OpenHead, EndsInText, EndsInHead
  <2>5. QED
    BY <1>0, <1>1, <2>1, <2>2, <2>4 DEF ReportInv
<1>6. QED
  BY <1>2, <1>4, <1>5 DEF IInv

LEMMA InvReportSync ==
    ASSUME IInv, NEW t \in Reporters, ReportHead(t) \/ ReportText(t)
    PROVE  IInv'
<1>0. PICK where \in {"text", "clear"} :
         /\ Goto(t, where) /\ UNCHANGED <<logVars, reportVars>> /\ UNCHANGED split
         /\ pc[t] = "head" \/ (pc[t] = "text" /\ where = "clear")
         /\ \/ where = "text" /\ Write(ErrorFile, "head", t)
            \/ where = "clear" /\ pc[t] = "text" /\ Write(ErrorFile, "text", t)
            \/ where = "clear" /\ pc[t] = "head" /\ errstr = <<>> /\ UNCHANGED file
  BY DEF ReportHead, ReportText, logVars
<1>1. /\ pc' \in [AllThreads -> Places] /\ TypeOK /\ FileInv /\ ReportInv /\ t \in AllThreads
      /\ \A u \in AllThreads : pc'[u] = IF u = t THEN where ELSE pc[u]
      /\ errstr' = errstr /\ disturbed' = disturbed
  BY <1>0, GotoFacts, ThreadFacts DEF Places, IInv, reportVars
<1>2. \A u \in Writers : pc'[u] = pc[u]
  BY <1>1, ThreadFacts
<1>3. /\ file' \in [{"o", "e"} -> Writes \cup {<<>>}] /\ FileInv'
      /\ split => \/ file'["e"] = <<"head", t>> /\ where = "text"
                  \/ file'["e"][1] = "text" /\ where = "clear"
                  \/ /\ file'["e"] = file["e"] /\ where = "clear" /\ errstr = <<>>
                     /\ pc[t] = "head"
  <2>1. CASE UNCHANGED file
    BY <1>0, <1>1, <1>2, <2>1, FileKept, WriteFacts, ReportWrite DEF TypeOK
  <2>2. CASE Write(ErrorFile, "head", t) /\ where = "text"
    BY <1>0, <1>2, <2>2, ReportWrite
  <2>3. CASE Write(ErrorFile, "text", t) /\ where = "clear"
    BY <1>0, <1>2, <2>3, ReportWrite
  <2>4. QED
    BY <1>0, <2>1, <2>2, <2>3
<1>4. TypeOK' /\ LockInv' /\ BufferInv'
  BY <1>0, <1>1, <1>3, ReportStep DEF Places, TypeOK
<1>5. ReportInv'
  <2>1. t \notin disturbed =>
           /\ Others(t)' = {} /\ errstr' = ReportOf(t)'
           /\ split /\ pc'[t] = "text" => EndsInHead("e", t)'
    <3>1. SUFFICES ASSUME t \notin disturbed
                   PROVE  /\ Others(t)' = {} /\ errstr' = ReportOf(t)'
                          /\ split /\ pc'[t] = "text" => EndsInHead("e", t)'
      OBVIOUS
    <3>2. /\ errstr = <<<<t, 1>>, End(t)>> /\ errstr # <<>>
          /\ \A u \in Reporters : u # t => pc'[u] = "idle"
      <4>0. pc[t] # "idle"
        BY <1>0
      <4>1. errstr = ReportOf(t) /\ \A u \in Reporters : u # t => pc[u] = "idle"
        BY <3>1, <4>0, DisturbedFacts, Zenon
      <4>2. errstr = <<<<t, 1>>, End(t)>>
        BY <1>0, <4>1 DEF ReportOf
      <4>3. Len(errstr) = 2 /\ Len(<<>>) = 0
        BY <4>2
      <4>4. QED
        BY <1>1, <4>1, <4>2, <4>3, ThreadFacts
    <3>3. ReportOf(t)' = <<<<t, 1>>, End(t)>>
      BY <1>0, <1>1 DEF ReportOf, End
    <3>4. QED
      BY <1>0, <1>1, <1>3, <3>2, <3>3 DEF Others, EndsInHead
  <2>2. \A u \in Reporters \ disturbed : u # t => pc'[u] = "idle"
    BY <1>0, <1>1, DisturbedFacts, ThreadFacts
  <2>3. split => OpenHead'
    <3>1. CASE file'["e"] = <<"head", t>> /\ where = "text"
      BY <1>1, <3>1 DEF OpenHead, EndsInHead
    <3>2. CASE file'["e"][1] = "text"
      BY <3>2 DEF OpenHead, EndsInText
    <3>3. CASE file'["e"] = file["e"] /\ pc[t] = "head"
      <4>1. \A u \in Reporters : pc[u] = "text" => pc'[u] = "text"
        BY <1>1, <3>3, ThreadFacts
      <4>2. QED
        BY <1>0, <1>1, <3>3, <4>1 DEF ReportInv, OpenHead, EndsInText, EndsInHead
    <3>4. QED
      BY <1>3, <3>1, <3>2, <3>3, <1>0
  <2>4. pc'[t] # "idle"
    BY <1>0, <1>1
  <2>5. QED
    BY <1>0, <1>1, <2>1, <2>2, <2>3, <2>4 DEF ReportInv
<1>6. QED
  BY <1>3, <1>4, <1>5 DEF IInv

LEMMA InvReportClear == ASSUME IInv, NEW t \in Reporters, ReportClear(t) PROVE IInv'
<1>0. /\ pc[t] = "clear" /\ errstr' = <<>> /\ disturbed' = disturbed \ {t} /\ Goto(t, "idle")
      /\ UNCHANGED <<logVars, file>> /\ UNCHANGED split
      /\ TypeOK /\ FileInv /\ ReportInv /\ t \in AllThreads
  BY ThreadFacts DEF IInv, ReportClear, logVars
<1>1. /\ pc' \in [AllThreads -> Places]
      /\ \A u \in AllThreads : pc'[u] = IF u = t THEN "idle" ELSE pc[u]
  BY <1>0, GotoFacts DEF Places
<1>2. FileInv'
  BY <1>0, <1>1, ThreadFacts, FileKept
<1>3. errstr' \in Seq(Reports) /\ disturbed' \subseteq Reporters
  BY <1>0 DEF TypeOK
<1>4. TypeOK' /\ LockInv' /\ BufferInv'
  BY <1>0, <1>2, <1>3, ReportStep DEF Places, TypeOK
<1>5. ReportInv'
  <2>1. \A u \in Reporters \ disturbed' : pc'[u] = "idle"
    BY <1>0, <1>1, DisturbedFacts, ThreadFacts
  <2>2. \A u \in Reporters : pc[u] = "text" => pc'[u] = "text"
    BY <1>0, <1>1, ThreadFacts
  <2>3. split => OpenHead'
    BY <1>0, <2>2 DEF ReportInv, OpenHead, EndsInText, EndsInHead
  <2>4. QED
    BY <1>0, <2>1, <2>3 DEF ReportInv
<1>6. QED
  BY <1>2, <1>4, <1>5 DEF IInv

LEMMA InvReporting == ASSUME IInv, Reporting PROVE IInv'
  BY InvReport, InvReportEnd, InvReportSync, InvReportClear DEF Reporting

LEMMA Invariance == Spec => []IInv
<1>1. IInv /\ [Next]_vars => IInv'
  <2>1. SUFFICES ASSUME IInv, [Next]_vars PROVE IInv'
    OBVIOUS
  <2>2. CASE UNCHANGED vars
    BY <2>1, <2>2 DEF IInv, TypeOK, LockInv, BufferInv, FileInv, FromLog, ReportInv, OpenHead,
       ReportOf, Others, EndsInHead, EndsInText, vars, bufferVars, lockVars, threadVars,
       fileVars, reportVars
  <2>3. ASSUME NEW t \in Writers, Sync(t) PROVE IInv'
    BY <2>1, <2>3, InvSyncHead, InvSyncText, InvSyncEnd DEF Sync
  <2>4. ASSUME NEW t \in Loggers, Log(t) \/ \E level \in Levels : CallLog(t, level) PROVE IInv'
    BY <2>1, <2>4, InvLog, InvCallLog
  <2>5. QED
    BY <2>1, <2>2, <2>3, <2>4, InvStreaming, InvReporting DEF Next
<1>2. QED
  BY <1>1, InitIInv, PTL DEF Spec

\* Type correctness of the log, its buffer and its threads.
THEOREM TypeCorrect == Spec => []TypeOK
<1>1. IInv => TypeOK
  BY DEF IInv
<1>2. QED
  BY <1>1, Invariance, PTL

\* What a step of a thread that uses the log writes is in order, unless the file is
\* shared and the last write to it was a report's.
LEMMA LogWrites ==
    ASSUME IInv, NEW t \in Writers, SyncHead(t) \/ SyncText(t), file' # file
    PROVE  /\ file'["e"] = file["e"] /\ file'["o"][2] = t
           /\ InOrder("o") \/ (~split /\ file["o"] # <<>> /\ file["o"][2] \in Reporters)
<1>1. /\ TypeOK /\ FileInv /\ t \in AllThreads /\ pc[t] \in {"head", "text"}
      /\ \A u \in Writers : u # t => pc[u] \notin Holding
  BY ThreadFacts, HolderFacts DEF IInv, SyncHead, SyncText, Holding
<1>2. Write("o", pc[t], t)
  BY DEF SyncHead, SyncText
<1>3. /\ file'["e"] = file["e"] /\ file'["o"] = <<pc[t], t>>
      /\ file'["o"][1] = pc[t] /\ file'["o"][2] = t
  BY <1>1, <1>2, WriteFacts
<1>4. FromLog("o") => InOrder("o")
  BY <1>1, <1>3 DEF FileInv, InOrder, EndsInHead, EndsInText, Holding
<1>5. ~FromLog("o") => ~split /\ file["o"] # <<>> /\ file["o"][2] \in Reporters
  <2>1. file["o"] # <<>> => file["o"][2] \in AllThreads
    BY <1>1 DEF TypeOK, Writes
  <2>2. QED
    BY <2>1, ThreadFacts DEF FromLog
<1>6. QED
  BY <1>3, <1>4, <1>5

\* So is what a report writes to a file of its own, unless another one overlaps it.
LEMMA ReportWrites ==
    ASSUME IInv, NEW t \in Reporters, ReportHead(t) \/ ReportText(t), file' # file
    PROVE  /\ \A f \in {"o", "e"} : f # ErrorFile => file'[f] = file[f]
           /\ file'[ErrorFile] = <<pc[t], t>> /\ file'[ErrorFile][2] = t
           /\ t \notin disturbed => /\ split => InOrder("e")
                                    /\ errstr = <<<<t, 1>>, End(t)>>
<1>1. /\ TypeOK /\ t \in AllThreads /\ ErrorFile \in {"o", "e"} /\ pc[t] \in {"head", "text"}
      /\ Write(ErrorFile, pc[t], t)
  BY ThreadFacts DEF IInv, ReportHead, ReportText, ErrorFile
<1>2. /\ file'[ErrorFile] = <<pc[t], t>>
      /\ file'[ErrorFile][1] = pc[t] /\ file'[ErrorFile][2] = t
      /\ \A f \in {"o", "e"} : f # ErrorFile => file'[f] = file[f]
  BY <1>1, WriteFacts
<1>3. ASSUME t \notin disturbed
      PROVE  (split => InOrder("e")) /\ errstr = <<<<t, 1>>, End(t)>>
  <2> pc[t] # "idle"
    BY <1>1
  <2>0. /\ errstr = ReportOf(t)
        /\ split /\ pc[t] = "text" => EndsInHead("e", t)
        /\ split /\ pc[t] # "text" => EndsInText("e")
    BY <1>3, DisturbedFacts, Zenon
  <2>1. errstr = <<<<t, 1>>, End(t)>>
    BY <1>1, <2>0 DEF ReportOf
  <2>2. split => InOrder("e")
    BY <1>1, <1>2, <2>0 DEF InOrder, EndsInHead, EndsInText, ErrorFile
  <2>3. QED
    BY <2>1, <2>2
<1>4. QED
  BY <1>2, <1>3

\* Whatever threads log and report: a record of the log is broken up only by a report
\* into the same file, since lock1 keeps the threads that use the log apart; and a report
\* is broken up or mixed only by one that overlaps it, or by the log in a shared file,
\* since std::clog takes no lock but empties its buffer (TFStreamBuf::sync).
THEOREM RecordsStayWhole == Spec => RecordsAreWhole
<1> DEFINE Whole_(f) ==
             file'[f] # file[f] =>
               /\ InOrder(f) \/ Unprotected(f)
               /\ \A t \in Reporters \ disturbed :
                     file'[f] = <<"text", t>> => errstr = <<<<t, 1>>, End(t)>>
<1>1. IInv /\ [Next]_vars => [\A f \in {"o", "e"} : Whole_(f)]_vars
  <2>1. SUFFICES ASSUME IInv, Next, NEW f \in {"o", "e"}, file'[f] # file[f]
                 PROVE  Whole_(f)
    BY DEF vars, fileVars
  <2>2. \/ \E t \in Writers : SyncHead(t) \/ SyncText(t)
        \/ \E t \in Reporters : ReportHead(t) \/ ReportText(t)
    BY <2>1 DEF Next, Streaming, SetLevel, Stream, EndLine, CallLog, Log, Sync, SyncEnd,
       Reporting, Report, ReportEnd, ReportClear, fileVars
  <2>3. ASSUME NEW t \in Writers, SyncHead(t) \/ SyncText(t) PROVE Whole_(f)
    <3>1. /\ f = "o" /\ file'["o"][2] = t
          /\ InOrder("o") \/ (~split /\ file["o"] # <<>> /\ file["o"][2] \in Reporters)
      BY <2>1, <2>3, LogWrites
    <3>2. \A u \in Reporters : file'[f] # <<"text", u>>
      BY <3>1, ThreadFacts
    <3>3. QED
      BY <3>1, <3>2 DEF Unprotected
  <2>4. ASSUME NEW t \in Reporters, ReportHead(t) \/ ReportText(t) PROVE Whole_(f)
    <3>1. /\ f = ErrorFile /\ file'[f] = <<pc[t], t>> /\ file'[f][2] = t
          /\ t \notin disturbed => /\ split => InOrder("e")
                                   /\ errstr = <<<<t, 1>>, End(t)>>
      BY <2>1, <2>4, ReportWrites
    <3>2. InOrder(f) \/ Unprotected(f)
      BY <3>1 DEF Unprotected, ErrorFile
    <3>3. \A u \in Reporters : file'[f] = <<"text", u>> => u = t
      BY <3>1
    <3>4. QED
      BY <3>1, <3>2, <3>3
  <2>5. QED
    BY <2>2, <2>3, <2>4
<1>2. QED
  BY <1>1, Invariance, PTL DEF Spec, RecordsAreWhole

-----------------------------------------------------------------------------
(* The log implements LineLog *)

LEMMA WholeHasWriter ==
    ASSUME NEW t \in Writers, NEW text \in Seq(Pieces), Whole(text, t)
    PROVE  WriterOf(text) = t
<1>1. Last(text) = <<t, 0>> /\ Last(text)[1] = t
  BY DEF Whole, Last, End
<1>2. QED
  BY <1>1 DEF WriterOf, Whole

\* The level of what t has given and not yet seen printed or suppressed.
GivenBy(t) == IF pc[t] \in {"line", "wait", "head", "text"} THEN messagelevel[t] ELSE -1
Given      == [t \in Writers |-> GivenBy(t)]
Shown      == IF shown = <<>> THEN <<>> ELSE <<WriterOf(shown[1]), shown[2]>>

LEMMA MappedInit == ASSUME Init PROVE Abstract!LogInit
  BY ThreadFacts DEF Init, Abstract!LogInit, Abstract!None, AllThreads

\* A step of which nothing is seen in the abstract log.
LEMMA MappedStutter ==
    ASSUME UNCHANGED shown, \A t \in Writers : GivenBy(t)' = GivenBy(t)
    PROVE  UNCHANGED Abstract!logVars
<1>1. Given' = Given /\ Shown' = Shown
  BY DEF Given, Shown, WriterOf, End
<1>2. QED
  BY <1>1 DEF Abstract!logVars, Given, GivenBy, Shown

\* A step that changes what only t has given.
LEMMA MappedChange ==
    ASSUME NEW t \in Writers, NEW level, GivenBy(t)' = level,
           \A u \in Writers : u # t => GivenBy(u)' = GivenBy(u)
    PROVE  Given' = [Given EXCEPT ![t] = level]
  BY DEF Given

\* The level at which the holder of lock1 prints is that of its message, and whether it
\* prints is decided by its own verbosity.
LEMMA LevelFacts ==
    ASSUME Verbosity[Streamer] >= 1, IInv, NEW t \in Writers, pc[t] \in {"head", "text"}
    PROVE  /\ m_messagelevel = messagelevel[t] /\ messagelevel[t] \in Nat
           /\ Verbosity[t] \in Nat /\ Whole(str, t) /\ str \in Seq(Pieces)
           /\ m_messagelevel <= m_verbose => messagelevel[t] <= Verbosity[t]
           /\ ~(m_messagelevel <= m_verbose) => messagelevel[t] > Verbosity[t]
<1>1. lock1 = t
  BY HolderFacts DEF Holding
<1>2. /\ m_messagelevel = messagelevel[t] /\ messagelevel[t] \in Nat /\ Verbosity[t] \in Nat
      /\ m_verbose \in Nat /\ Whole(str, t) /\ str \in Seq(Pieces)
  BY <1>1, ThreadFacts DEF IInv, BufferInv, TypeOK
<1>3. m_verbose = Verbosity[t] \/ (t = Streamer /\ m_messagelevel = 1 /\ m_verbose = 1)
  BY <1>1, ThreadFacts DEF IInv, BufferInv, StreamVerbosity
<1>4. QED
  BY <1>2, <1>3

LEMMA MappedStep ==
    ASSUME Verbosity[Streamer] >= 1, IInv, [Next]_vars
    PROVE  [Abstract!LogNext]_(Abstract!logVars)
<1>0. TypeOK
  BY DEF IInv
<1>1. ASSUME UNCHANGED <<messagelevel, shown>>,
             \A t \in Writers : pc'[t] \in {"line", "wait", "head", "text"} <=>
                                pc[t] \in {"line", "wait", "head", "text"}
      PROVE  UNCHANGED Abstract!logVars
  <2>1. \A t \in Writers : GivenBy(t)' = GivenBy(t)
    BY <1>1 DEF GivenBy
  <2>2. QED
    BY <1>1, <2>1, MappedStutter
<1>2. ASSUME NEW t \in AllThreads, NEW where \in Places, Goto(t, where), UNCHANGED messagelevel
      PROVE  \A u \in Writers : u # t => GivenBy(u)' = GivenBy(u)
  BY <1>0, <1>2, ThreadFacts, GotoFacts DEF GivenBy
<1>3. ASSUME NEW level \in Levels, SetLevel(level) PROVE UNCHANGED Abstract!logVars
  <2>1. /\ pc[Streamer] = "idle" /\ UNCHANGED <<pc, shown>>
        /\ messagelevel' = [messagelevel EXCEPT ![Streamer] = level]
    BY <1>3 DEF SetLevel, fileVars
  <2>2. \A t \in Writers : GivenBy(t)' = GivenBy(t)
    BY <1>0, <2>1 DEF GivenBy, TypeOK
  <2>3. QED
    BY <2>1, <2>2, MappedStutter
<1>4. CASE Stream
  <2>1. /\ pc[Streamer] \in {"idle", "line"} /\ Goto(Streamer, "line")
        /\ UNCHANGED <<messagelevel, shown>>
    BY <1>4 DEF Stream, fileVars
  <2>2. \A u \in AllThreads : pc'[u] = IF u = Streamer THEN "line" ELSE pc[u]
    BY <1>0, <2>1, ThreadFacts, GotoFacts DEF Places
  <2>3. CASE pc[Streamer] = "line"
    BY <1>1, <2>1, <2>2, <2>3, ThreadFacts
  <2>4. CASE pc[Streamer] = "idle"
    <3>1. GivenBy(Streamer) = -1 /\ GivenBy(Streamer)' = messagelevel[Streamer]
      BY <2>1, <2>2, <2>4, ThreadFacts DEF GivenBy
    <3>2. Given' = [Given EXCEPT ![Streamer] = messagelevel[Streamer]]
      BY <1>2, <2>1, <3>1, ThreadFacts, MappedChange DEF Places
    <3>3. Given[Streamer] = -1 /\ messagelevel[Streamer] \in Levels /\ Shown' = Shown
      BY <1>0, <2>1, <3>1, ThreadFacts DEF Given, Shown, WriterOf, End, TypeOK
    <3>4. PICK level \in Levels : level = messagelevel[Streamer]
      BY <3>3
    <3>5. Abstract!Give(Streamer, level)
      BY <3>2, <3>3, <3>4 DEF Abstract!Give, Abstract!None, Given, GivenBy, Shown
    <3>6. QED
      BY <3>5, ThreadFacts DEF Abstract!LogNext
  <2>5. QED
    BY <2>1, <2>3, <2>4
<1>5. ASSUME NEW t \in Loggers, NEW level \in Levels, CallLog(t, level)
      PROVE  Abstract!LogNext
  <2>1. /\ pc[t] = "idle" /\ Goto(t, "wait") /\ UNCHANGED shown /\ t \in Writers
        /\ messagelevel' = [messagelevel EXCEPT ![t] = level]
    BY <1>5, ThreadFacts DEF CallLog, fileVars
  <2>2. /\ \A u \in AllThreads : pc'[u] = IF u = t THEN "wait" ELSE pc[u]
        /\ \A u \in Writers : messagelevel'[u] = IF u = t THEN level ELSE messagelevel[u]
    BY <1>0, <2>1, ThreadFacts, GotoFacts DEF Places, TypeOK
  <2>3. GivenBy(t) = -1 /\ GivenBy(t)' = level
    BY <2>1, <2>2, ThreadFacts DEF GivenBy
  <2>4. \A u \in Writers : u # t => GivenBy(u)' = GivenBy(u)
    BY <2>2, ThreadFacts DEF GivenBy
  <2>5. Given' = [Given EXCEPT ![t] = level] /\ Given[t] = -1 /\ Shown' = Shown
    BY <2>1, <2>3, <2>4, MappedChange DEF Given, Shown, WriterOf, End
  <2>6. Abstract!Give(t, level)
    BY <2>5 DEF Abstract!Give, Abstract!None, Given, GivenBy, Shown
  <2>7. QED
    BY <2>1, <2>6 DEF Abstract!LogNext
<1>6. ASSUME NEW t \in Writers, (EndLine /\ t = Streamer) \/ (t \in Loggers /\ Log(t))
      PROVE  UNCHANGED Abstract!logVars
  <2>1. /\ Goto(t, "head") /\ UNCHANGED <<messagelevel, shown>>
        /\ pc[t] \in {"line", "wait"}
    BY <1>6 DEF EndLine, Log, fileVars
  <2>2. \A u \in AllThreads : pc'[u] = IF u = t THEN "head" ELSE pc[u]
    BY <1>0, <2>1, ThreadFacts, GotoFacts DEF Places
  <2>3. QED
    BY <1>1, <2>1, <2>2, ThreadFacts
<1>7. ASSUME NEW t \in Writers, SyncHead(t)
      PROVE  Abstract!LogNext \/ UNCHANGED Abstract!logVars
  <2>1. pc[t] = "head" /\ UNCHANGED <<messagelevel, shown>> /\ t \in AllThreads
    BY <1>7, ThreadFacts DEF SyncHead, logVars
  <2>2. /\ messagelevel[t] \in Nat /\ Verbosity[t] \in Nat /\ str # <<>>
        /\ ~(m_messagelevel <= m_verbose) => messagelevel[t] > Verbosity[t]
    BY <2>1, LevelFacts, EmptyFacts DEF Whole
  <2>3. CASE m_messagelevel <= m_verbose
    <3>1. \A u \in AllThreads : pc'[u] = IF u = t THEN "text" ELSE pc[u]
      BY <1>0, <1>7, <2>1, <2>2, <2>3, GotoFacts DEF SyncHead, Places
    <3>2. QED
      BY <1>1, <2>1, <3>1, ThreadFacts
  <2>4. CASE ~(m_messagelevel <= m_verbose)
    <3>1. Goto(t, "clear")
      BY <1>7, <2>4 DEF SyncHead
    <3>2. pc'[t] = "clear"
      BY <1>0, <2>1, <3>1, GotoFacts DEF Places
    <3>3. GivenBy(t) = messagelevel[t] /\ GivenBy(t)' = -1
      BY <2>1, <3>2 DEF GivenBy
    <3>4. \A u \in Writers : u # t => GivenBy(u)' = GivenBy(u)
      BY <1>2, <2>1, <3>1 DEF Places
    <3>5. Given' = [Given EXCEPT ![t] = -1] /\ Given[t] = messagelevel[t] /\ Shown' = Shown
      BY <2>1, <3>3, <3>4, MappedChange DEF Given, Shown, WriterOf, End
    <3>6. Abstract!Suppress(t)
      BY <2>2, <2>4, <3>5 DEF Abstract!Suppress, Abstract!None, Given, GivenBy, Shown
    <3>7. QED
      BY <3>6 DEF Abstract!LogNext
  <2>5. QED
    BY <2>3, <2>4
<1>8. ASSUME NEW t \in Writers, SyncText(t) PROVE Abstract!LogNext
  <2>1. /\ pc[t] = "text" /\ UNCHANGED messagelevel /\ t \in AllThreads /\ Goto(t, "clear")
        /\ shown' = <<str, m_messagelevel>>
    BY <1>8, ThreadFacts DEF SyncText
  <2>2. /\ messagelevel[t] \in Nat /\ Verbosity[t] \in Nat /\ messagelevel[t] <= Verbosity[t]
        /\ m_messagelevel = messagelevel[t] /\ WriterOf(str) = t
    BY <2>1, LevelFacts, WholeHasWriter DEF IInv, BufferInv
  <2>3. pc'[t] = "clear"
    BY <1>0, <2>1, GotoFacts DEF Places
  <2>4. GivenBy(t) = messagelevel[t] /\ GivenBy(t)' = -1
    BY <2>1, <2>3 DEF GivenBy
  <2>5. \A u \in Writers : u # t => GivenBy(u)' = GivenBy(u)
    BY <1>2, <2>1 DEF Places
  <2>6. Given' = [Given EXCEPT ![t] = -1] /\ Given[t] = messagelevel[t]
    BY <2>4, <2>5, MappedChange DEF Given
  <2>7. shown' # <<>> /\ shown'[1] = str /\ shown'[2] = messagelevel[t]
    BY <2>1, <2>2
  <2>8. Shown' = <<t, Given[t]>>
    BY <2>2, <2>6, <2>7 DEF Shown, WriterOf, End
  <2>9. Abstract!Show(t)
    BY <2>2, <2>6, <2>8 DEF Abstract!Show, Abstract!None, Given, GivenBy, Shown
  <2>10. QED
    BY <2>9 DEF Abstract!LogNext
<1>9. CASE Reporting
  <2>1. PICK t \in Reporters, where \in Places :
           UNCHANGED <<messagelevel, shown>> /\ Goto(t, where)
    BY <1>9 DEF Reporting, Report, ReportEnd, ReportHead, ReportText, ReportClear, logVars,
       Places
  <2>2. \A u \in Writers : pc'[u] = pc[u]
    BY <1>0, <2>1, ThreadFacts, GotoFacts
  <2>3. QED
    BY <1>1, <2>1, <2>2
<1>10. CASE UNCHANGED vars
  BY <1>1, <1>10 DEF vars, threadVars, fileVars
<1>11. ASSUME NEW t \in Writers, SyncEnd(t) PROVE Abstract!LogNext
  <2>1. /\ pc[t] = "clear" /\ Goto(t, "idle") /\ shown' = <<>> /\ t \in AllThreads
        /\ messagelevel' = IF t = Streamer THEN messagelevel
                         ELSE [messagelevel EXCEPT ![t] = 1]
    BY <1>11, ThreadFacts DEF SyncEnd, Forgotten
  <2>2. /\ \A u \in AllThreads : pc'[u] = IF u = t THEN "idle" ELSE pc[u]
        /\ \A u \in Writers : u # t => messagelevel'[u] = messagelevel[u]
    BY <1>0, <2>1, GotoFacts DEF Places, TypeOK
  <2>3. \A u \in Writers : GivenBy(u)' = GivenBy(u)
    BY <2>1, <2>2, ThreadFacts DEF GivenBy
  <2>4. Given' = Given /\ Shown' = <<>>
    BY <2>1, <2>3 DEF Given, Shown
  <2>5. Abstract!Passed
    BY <2>4 DEF Abstract!Passed, Given, GivenBy, Shown
  <2>6. QED
    BY <2>5 DEF Abstract!LogNext
<1>12. QED
  BY <1>3, <1>4, <1>5, <1>6, <1>7, <1>8, <1>9, <1>10, <1>11, ThreadFacts
     DEF Next, Streaming, Sync

\* The log implements LineLog for any number of threads and lines of any length: a
\* message appears whole, once and at its own level, or not at all if that level is
\* above its writer's verbosity.  The streaming thread's verbosity must let level 1
\* through, because its lines go out at that level until it chooses one (Logging::Log,
\* operator<<, TFStreamBuf::sync).
THEOREM MessagesAreWhole == ASSUME Verbosity[Streamer] >= 1 PROVE Spec => ImplementsLineLog
<1>1. Init => Abstract!LogInit
  BY MappedInit
<1>2. IInv /\ [Next]_vars => [Abstract!LogNext]_(Abstract!logVars)
  BY MappedStep
<1>3. QED
  BY <1>1, <1>2, Invariance, PTL DEF Spec, ImplementsLineLog, Abstract!LogSpec
=============================================================================
