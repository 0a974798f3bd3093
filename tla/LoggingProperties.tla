--------------------------- MODULE LoggingProperties ---------------------------
(***************************************************************************)
(* What the log promises to the threads that write to it.                  *)
(***************************************************************************)
EXTENDS Logging

AllThreads == Writers \cup Reporters

Pieces == Writers \X (0..MaxPieces)
Reports == Reporters \X {0, 1}
Writes == {"head", "text"} \X AllThreads

\* Type invariant of the log, its buffer and its threads.
TypeOK ==
    /\ split \in BOOLEAN
    /\ str \in Seq(Pieces) /\ Len(str) <= MaxPieces + 1
    /\ m_messagelevel \in Levels /\ m_verbose \in Levels
    /\ lock1 \in Writers \cup {NoThread} /\ lock2 \in BOOLEAN
    /\ pc \in [AllThreads -> {"idle", "line", "wait", "head", "text", "clear"}]
    /\ pieces \in 0..MaxPieces /\ messagelevel \in [Writers -> Levels]
    /\ previous \in Levels \X Levels
    /\ errstr \in Seq(Reports) /\ disturbed \subseteq Reporters
    /\ file \in [{"o", "e"} -> Writes \cup {<<>>}]
    /\ shown = <<>> \/ shown \in Seq(Pieces) \X Levels

-----------------------------------------------------------------------------
(* The records *)

\* A write to f is in order: a text follows the head of its record, a head a text.
InOrder(f) ==
    IF file'[f][1] = "text" THEN file[f] = <<"head", file'[f][2]>>
    ELSE file[f] = <<>> \/ file[f][1] = "text"

\* What nothing keeps apart: in a shared file, a report and what was there before it or
\* comes after it; in a file of their own, reports that have overlapped.
Unprotected(f) ==
    IF split THEN file'[f][2] \in disturbed
    ELSE file'[f][2] \in Reporters \/ (file[f] # <<>> /\ file[f][2] \in Reporters)

\* The threads that use the log never break a record of each other, in whatever file,
\* and in split files nobody else does.  A report that no other one has overlapped goes
\* out complete, with nothing else in its text, whatever became of the reports before
\* it, and in split files its record is not broken up either.
RecordsAreWhole ==
    [][\A f \in {"o", "e"} : file'[f] # file[f] =>
          /\ InOrder(f) \/ Unprotected(f)
          /\ \A t \in Reporters \ disturbed :
                file'[f] = <<"text", t>> => errstr = <<<<t, 1>>, End(t)>>]_vars

\* Whose complete line or message a text is, if it is one.
WriterOf(text) ==
    LET t == Last(text)[1]
        n == Len(text)
    IN  IF text[n] = End(t) /\ \A k \in 1..(n - 1) : text[k] = <<t, k>> THEN t ELSE NoThread

Abstract == INSTANCE LineLog WITH
    given <- [t \in Writers |->
                IF pc[t] \in {"line", "wait", "head", "text"} THEN messagelevel[t] ELSE -1],
    shown <- IF shown = <<>> THEN <<>> ELSE <<WriterOf(shown[1]), shown[2]>>

\* A message appears whole and at its own level, whatever other threads log while the
\* line is open: no piece of one line gets into another, none that was suppressed
\* appears later, and Log leaves the level of the line it waited for as it was.
ImplementsLineLog == Abstract!LogSpec

-----------------------------------------------------------------------------
\* Every call of Log returns, so a thread that logs is again and again out of Log: the
\* line that is open is ended, and nobody keeps lock2.
LogReturns == \A t \in Loggers : []<>(pc[t] = "idle")
=============================================================================
