------------------------------- MODULE Logging -------------------------------
(***************************************************************************)
(* The log: one stream buffer that a thread streams lines into piece by    *)
(* piece, in which other threads print whole messages with Log, and its    *)
(* twin for std::cerr and std::clog, which share a file unless the         *)
(* configuration splits them.                                              *)
(*                                                                         *)
(* lock1 covers one operation.  lock2 is taken by the first piece of a     *)
(* line and released by std::endl or by a MsgL, through a try_lock that    *)
(* may fail and an unlock all the same; glibc's unlock opens the mutex     *)
(* whoever holds it, which is why a Boolean is enough.  The threads are    *)
(* used as the repository uses them: one of them, Streamer, streams, sets  *)
(* its level before a line, and ends each line; the others call Log.       *)
(* Reporters are the threads that write to std::clog, as Utilities::Thread *)
(* and the pool's workers do when a function has thrown.  They all stream  *)
(* into errbuffer, and no lock covers that.  Its accesses are a data race; *)
(* the model explores the orders of whole accesses.                        *)
(*                                                                         *)
(* A record goes to a file in two writes, its head with the level and its  *)
(* text.  Of a file only the last write is kept.  Time, colours and the    *)
(* screen, which gets the same, are left out.                              *)
(* Operators that no action uses (NoWait, NotEmpty, NotRestored,           *)
(* StillOpen, OneFile) are faulty variants, used as mutants.               *)
(***************************************************************************)
EXTENDS Integers, Sequences, SequencesExt

CONSTANTS
    Streamer, Loggers, Reporters, \* the threads
    Levels, Verbosity,            \* message levels; the verbosity of each thread
    Splits,                       \* the values of split_output_files to explore
    MaxPieces                     \* bound: pieces of a line before its end

Writers  == {Streamer} \cup Loggers
NoThread == <<>>

ASSUME LoggingAssumption ==
    /\ Streamer \notin Loggers /\ Reporters \cap Writers = {}
    /\ NoThread \notin Writers
    /\ Levels \subseteq Nat /\ 0 \in Levels /\ 1 \in Levels
    /\ Verbosity \in [Writers -> Levels] /\ Splits \subseteq BOOLEAN
    /\ MaxPieces \in Nat \ {0}

VARIABLES
    split,
    str, m_messagelevel, m_verbose, \* the stream buffer
    lock1, lock2,                   \* who holds lock1; is lock2 held?
    pc,                             \* where each thread is
    pieces, messagelevel,           \* pieces of the open line; the level of each thread's line
    previous,                       \* level and verbosity that Log puts back
    errstr,                         \* the buffer of std::clog
    disturbed,                      \* history: reports that another one has overlapped
    file,                           \* last write to each of the files ".o" and ".e"
    shown                           \* history: the text and level going to a file

bufferVars == <<str, m_messagelevel, m_verbose>>
lockVars   == <<lock1, lock2>>
threadVars == <<pc, pieces, messagelevel, previous>>
fileVars   == <<file, shown>>
reportVars == <<errstr, disturbed>>
logVars    == <<split, bufferVars, lockVars, pieces, messagelevel, previous, shown>>
vars       == <<split, bufferVars, lockVars, threadVars, fileVars, reportVars>>

Init ==
    /\ split \in Splits
    /\ str = <<>> /\ m_messagelevel = 1 /\ m_verbose = 1
    /\ lock1 = NoThread /\ lock2 = FALSE
    /\ pc = [t \in Writers \cup Reporters |-> "idle"]
    /\ pieces = 0 /\ messagelevel = [t \in Writers |-> 1]
    /\ previous = <<0, 0>> /\ errstr = <<>> /\ disturbed = {}
    /\ file = [f \in {"o", "e"} |-> <<>>] /\ shown = <<>>

Goto(t, where) == pc' = [pc EXCEPT ![t] = where]

-----------------------------------------------------------------------------
(* Streaming *)

\* operator<<(MsgL), between two lines
SetLevel(level) ==
    /\ pc[Streamer] = "idle" /\ lock1 = NoThread
    /\ m_messagelevel' = level /\ m_verbose' = Verbosity[Streamer]
    /\ messagelevel' = [messagelevel EXCEPT ![Streamer] = level]
    /\ lock2' = FALSE
    /\ UNCHANGED <<split, str, lock1, pc, pieces, previous, fileVars, reportVars>>

\* operator<<(T): one piece of a line, the first of which begins it
Stream ==
    /\ lock1 = NoThread /\ pieces < MaxPieces
    /\ pc[Streamer] \in {"idle", "line"}
    /\ Goto(Streamer, "line")
    /\ lock2' = TRUE
    /\ str' = Append(str, <<Streamer, pieces + 1>>) /\ pieces' = pieces + 1
    /\ UNCHANGED <<split, m_messagelevel, m_verbose, lock1, messagelevel, previous>>
    /\ UNCHANGED <<fileVars, reportVars>>

\* The last piece of a line or message of t; the others are numbered from 1.
End(t) == <<t, 0>>

\* operator<<(std::endl), which flushes the buffer under both locks
EndLine ==
    /\ pc[Streamer] = "line" /\ lock1 = NoThread
    /\ lock1' = Streamer /\ lock2' = TRUE
    /\ str' = Append(str, End(Streamer)) /\ pieces' = 0
    /\ Goto(Streamer, "head")
    /\ UNCHANGED <<split, m_messagelevel, m_verbose, messagelevel, previous>>
    /\ UNCHANGED <<fileVars, reportVars>>

-----------------------------------------------------------------------------
(* Logging::Log *)

\* Log with a level that the caller's verbosity lets through: it waits for both locks.
CallLog(t, level) ==
    /\ pc[t] = "idle" /\ level <= Verbosity[t]
    /\ messagelevel' = [messagelevel EXCEPT ![t] = level]
    /\ Goto(t, "wait")
    /\ UNCHANGED <<split, bufferVars, lockVars, pieces, previous, fileVars, reportVars>>

NoWait     == lock1 = NoThread
LocksFree  == lock1 = NoThread /\ ~lock2

Log(t) ==
    /\ pc[t] = "wait" /\ LocksFree
    /\ lock1' = t /\ lock2' = TRUE
    /\ previous' = <<m_messagelevel, m_verbose>>
    /\ m_messagelevel' = messagelevel[t] /\ m_verbose' = Verbosity[t]
    /\ str' = Append(str, End(t))
    /\ Goto(t, "head")
    /\ UNCHANGED <<split, pieces, messagelevel, fileVars, reportVars>>

-----------------------------------------------------------------------------
(* TFStreamBuf::sync *)

\* One write to file f: a head or a text of thread t
Write(f, kind, t) == file' = [file EXCEPT ![f] = <<kind, t>>]

SyncHead(t) ==
    /\ pc[t] = "head"
    /\ IF m_messagelevel <= m_verbose /\ str # <<>>
       THEN Write("o", "head", t) /\ Goto(t, "text")
       ELSE UNCHANGED file /\ Goto(t, "clear")
    /\ UNCHANGED <<logVars, reportVars>>

SyncText(t) ==
    /\ pc[t] = "text"
    /\ Write("o", "text", t) /\ shown' = <<str, m_messagelevel>>
    /\ Goto(t, "clear")
    /\ UNCHANGED <<split, bufferVars, lockVars, pieces, messagelevel, previous, reportVars>>

NotEmpty == UNCHANGED str
Empty    == str' = <<>>

NotRestored == UNCHANGED <<m_messagelevel, m_verbose>>
Restored    == m_messagelevel' = previous[1] /\ m_verbose' = previous[2]

StillOpen == UNCHANGED lock2
Opened    == lock2' = FALSE

\* The arguments and the variables of a call of Log end with it.
Forgotten(t) ==
    /\ messagelevel' = IF t = Streamer THEN messagelevel ELSE [messagelevel EXCEPT ![t] = 1]
    /\ previous' = <<0, 0>>

\* The end of sync and of the operation that called it
SyncEnd(t) ==
    /\ pc[t] = "clear"
    /\ Empty
    /\ IF t = Streamer THEN UNCHANGED <<m_messagelevel, m_verbose>> ELSE Restored
    /\ Opened /\ lock1' = NoThread
    /\ Forgotten(t) /\ shown' = <<>>
    /\ Goto(t, "idle")
    /\ UNCHANGED <<split, pieces, file, reportVars>>

-----------------------------------------------------------------------------
(* std::clog, which a report streams a line into and flushes *)

OneFile   == "o"
ErrorFile == IF split THEN "e" ELSE "o"

Others(t) == {u \in Reporters \ {t} : pc[u] # "idle"}

\* What is streamed before std::endl
Report(t) ==
    /\ pc[t] = "idle"
    /\ errstr' = Append(errstr, <<t, 1>>)
    /\ disturbed' = IF Others(t) = {} THEN disturbed ELSE disturbed \cup Others(t) \cup {t}
    /\ Goto(t, "line")
    /\ UNCHANGED <<logVars, file>>

ReportEnd(t) ==
    /\ pc[t] = "line"
    /\ errstr' = Append(errstr, End(t))
    /\ Goto(t, "head")
    /\ UNCHANGED <<logVars, file, disturbed>>

\* sync of errbuffer, whose level and verbosity are always 0
ReportHead(t) ==
    /\ pc[t] = "head"
    /\ IF errstr # <<>>
       THEN Write(ErrorFile, "head", t) /\ Goto(t, "text")
       ELSE UNCHANGED file /\ Goto(t, "clear")
    /\ UNCHANGED <<logVars, reportVars>>

ReportText(t) ==
    /\ pc[t] = "text"
    /\ Write(ErrorFile, "text", t)
    /\ Goto(t, "clear")
    /\ UNCHANGED <<logVars, reportVars>>

ReportClear(t) ==
    /\ pc[t] = "clear"
    /\ errstr' = <<>> /\ disturbed' = disturbed \ {t}
    /\ Goto(t, "idle")
    /\ UNCHANGED <<logVars, file>>

-----------------------------------------------------------------------------
Sync(t) == SyncHead(t) \/ SyncText(t) \/ SyncEnd(t)

Streaming == (\E level \in Levels : SetLevel(level)) \/ Stream \/ EndLine
Reporting ==
    \E t \in Reporters :
        Report(t) \/ ReportEnd(t) \/ ReportHead(t) \/ ReportText(t) \/ ReportClear(t)

Next == \/ Streaming \/ Reporting
        \/ \E t \in Loggers : Log(t) \/ \E level \in Levels : CallLog(t, level)
        \/ \E t \in Writers : Sync(t)

Spec == Init /\ [][Next]_vars

\* Every operation that has begun goes on, and a line that was begun is ended.  Log
\* tries again every 100 microseconds, which in the end meets a moment between lines.
Fairness ==
    /\ \A t \in Writers : WF_vars(Sync(t))
    /\ \A t \in Loggers : SF_vars(Log(t))
    /\ WF_vars(EndLine)

FairSpec == Spec /\ Fairness
=============================================================================
