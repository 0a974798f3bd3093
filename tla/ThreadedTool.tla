----------------------------- MODULE ThreadedTool -----------------------------
(***************************************************************************)
(* The tools with threads of their own, MyToolThread ("single"),           *)
(* MyToolMultiThread ("multi") and MyToolDynamicMultiThread ("dynamic"),   *)
(* on Utilities::CreateThread and KillThread.  The thread that runs the    *)
(* tool chain hands a request to a thread of the tool by writing message   *)
(* and setting busy; the thread answers in message and clears busy.        *)
(*                                                                         *)
(* One action is one access to a field that both sides use.  busy and      *)
(* message are neither atomic nor locked; the calls between the accesses   *)
(* (std::string, sleep, the function pointer) keep the compiler from       *)
(* moving them, and x86 keeps stores in order.  The reply that a thread    *)
(* works out may throw, as the user's code in its place may.               *)
(* Operators that no action uses (CountName, LastSeen, BeforeLast,         *)
(* OnlyFree, ButLast, KillWhenIdle, TakeRequest, StillBusy) are faulty     *)
(* variants, used as mutants.                                              *)
(***************************************************************************)
EXTENDS Naturals, Sequences, SequencesExt

CONSTANTS
    Threads,        \* addresses a thread's arguments can have
    ThreadCount,    \* the "Threads" of the configuration
    Templates,      \* the tools to explore
    MaxInitialises, \* bound: calls of Initialise
    MaxExecutes     \* bound: calls of Execute

ASSUME ThreadedToolAssumption ==
    /\ Templates \subseteq {"single", "multi", "dynamic"}
    /\ {ThreadCount, MaxInitialises, MaxExecutes} \subseteq Nat

VARIABLES
    tool,                          \* which of the templates it is
    args, m_freethreads, m_threadnum,
    mpc, i, lastfree,              \* where the tool is, its loop index and lastfree
    finalising,                    \* is it in Finalise?
    initialises, executes,         \* how often it was called
    pc, ThreadName, running, kill, \* the threads and their arguments
    busy, message                  \* "empty" is the empty std::string

toolVars   == <<tool, initialises, executes>>
mainVars   == <<args, m_freethreads, m_threadnum, mpc, i, lastfree, finalising>>
flagVars   == <<running, kill>>
threadVars == <<pc, ThreadName, flagVars, busy, message>>
vars       == <<toolVars, mainVars, threadVars>>

Init ==
    /\ tool \in Templates /\ initialises = 0 /\ executes = 0
    /\ args = <<>> /\ m_freethreads = 0 /\ m_threadnum = 0
    /\ mpc = "none" /\ i = 1 /\ lastfree = 1 /\ finalising = FALSE
    /\ pc = [w \in Threads |-> "unborn"]
    /\ ThreadName = [w \in Threads |-> 0]
    /\ running = [w \in Threads |-> FALSE] /\ kill = [w \in Threads |-> FALSE]
    /\ busy = [w \in Threads |-> FALSE] /\ message = [w \in Threads |-> "empty"]

-----------------------------------------------------------------------------
(* Creating threads *)

Fresh == CHOOSE w \in Threads : pc[w] = "unborn" /\ w \notin ToSet(args)

CountName == Len(args)
NewName   == m_threadnum

\* Utilities::CreateThread makes no second thread of the same name.
NameTaken == \E v \in ToSet(args) : pc[v] # "unborn" /\ ThreadName[v] = NewName

\* New arguments at the end of args, and their thread.  (No address left: a bound.)
CreateThread ==
    /\ \E w \in Threads : pc[w] = "unborn" /\ w \notin ToSet(args)
    /\ args' = Append(args, Fresh)
    /\ busy' = [busy EXCEPT ![Fresh] = FALSE]
    /\ message' = [message EXCEPT ![Fresh] = "empty"]
    /\ m_threadnum' = m_threadnum + 1
    /\ IF NameTaken THEN UNCHANGED <<pc, ThreadName, flagVars>>
       ELSE /\ pc' = [pc EXCEPT ![Fresh] = "loop"]
            /\ ThreadName' = [ThreadName EXCEPT ![Fresh] = NewName]
            /\ running' = [running EXCEPT ![Fresh] = TRUE]
            /\ kill' = [kill EXCEPT ![Fresh] = FALSE]

Wanted == IF tool = "multi" THEN ThreadCount ELSE 1

StartInitialise ==
    /\ mpc = "none" /\ initialises < MaxInitialises
    /\ initialises' = initialises + 1
    /\ mpc' = "init" /\ m_threadnum' = 0 /\ finalising' = FALSE
    /\ UNCHANGED <<tool, executes, args, m_freethreads, i, lastfree, threadVars>>

InitialiseThread ==
    /\ mpc = "init" /\ Len(args) < Wanted
    /\ CreateThread
    /\ UNCHANGED <<toolVars, m_freethreads, mpc, i, lastfree, finalising>>

InitialiseEnd ==
    /\ mpc = "init" /\ Len(args) >= Wanted
    /\ m_freethreads' = Wanted /\ mpc' = "ready"
    /\ UNCHANGED <<toolVars, args, m_threadnum, i, lastfree, finalising, threadVars>>

-----------------------------------------------------------------------------
(* Execute *)

StartExecute ==
    /\ mpc = "ready" /\ executes < MaxExecutes
    /\ executes' = executes + 1
    /\ IF tool = "single" THEN UNCHANGED <<mpc, i>> ELSE mpc' = "find" /\ i' = 1
    /\ UNCHANGED <<tool, initialises, args, m_freethreads, m_threadnum, lastfree,
                   finalising, threadVars>>

\* The steps below are taken inside Execute; the threads' arguments stay but for
\* what a step writes.
InExecute ==
    UNCHANGED <<toolVars, args, m_threadnum, finalising, pc, ThreadName, flagVars>>

CountFrom1 == m_freethreads' = 0 /\ i' = 1 /\ lastfree' = 1

Find ==
    /\ mpc = "find"
    /\ \/ i > Len(args) /\ mpc' = "count" /\ CountFrom1
       \/ i <= Len(args) /\ busy[args[i]] /\ i' = i + 1 /\ UNCHANGED <<mpc, m_freethreads, lastfree>>
       \/ /\ i <= Len(args) /\ ~busy[args[i]]
          /\ mpc' = "reply" /\ UNCHANGED <<i, m_freethreads, lastfree>>
    /\ InExecute /\ UNCHANGED <<busy, message>>

\* The reply is read and printed.
ReadReply ==
    /\ mpc = "reply" /\ mpc' = "request"
    /\ InExecute /\ UNCHANGED <<i, m_freethreads, lastfree, busy, message>>

WriteRequest ==
    /\ mpc = "request" /\ mpc' = "give"
    /\ message' = [message EXCEPT ![args[i]] = "Hi"]
    /\ InExecute /\ UNCHANGED <<i, m_freethreads, lastfree, busy>>

Give ==
    /\ mpc = "give" /\ mpc' = "count"
    /\ busy' = [busy EXCEPT ![args[i]] = TRUE]
    /\ CountFrom1
    /\ InExecute /\ UNCHANGED message

LastSeen == lastfree' = i
BeforeLast == lastfree' = i - 1
LastFree == lastfree' = IF busy[args[i]] THEN lastfree ELSE i

CountFree ==
    /\ mpc = "count" /\ i <= Len(args)
    /\ m_freethreads' = IF busy[args[i]] THEN m_freethreads ELSE m_freethreads + 1
    /\ LastFree /\ i' = i + 1
    /\ InExecute /\ UNCHANGED <<mpc, busy, message>>

OnlyFree == m_freethreads > 0
TooMany  == m_freethreads > 1

\* The dynamic tool makes a thread when none is free and deletes one when several are.
ExecuteEnd ==
    /\ mpc = "count" /\ i > Len(args)
    /\ i' = lastfree
    /\ IF tool = "dynamic" /\ m_freethreads < 1
       THEN CreateThread /\ mpc' = "ready"
       ELSE /\ mpc' = IF tool = "dynamic" /\ TooMany THEN "kill" ELSE "ready"
            /\ UNCHANGED <<args, m_threadnum, threadVars>>
    /\ UNCHANGED <<toolVars, m_freethreads, lastfree, finalising>>

-----------------------------------------------------------------------------
(* Stopping threads: KillThread(args[i]) and what follows it *)

StartFinalise ==
    /\ mpc = "ready"
    /\ mpc' = "finalise" /\ finalising' = TRUE /\ i' = 1 /\ lastfree' = 1
    /\ UNCHANGED <<toolVars, args, m_freethreads, m_threadnum, threadVars>>

ButLast    == lastfree < Len(args)
MoreToKill == lastfree <= Len(args)

\* The loop of Finalise; its index is in lastfree, what it kills in i: the dynamic
\* tool erases what it kills and kills the first of the rest.
FinaliseNext ==
    /\ mpc = "finalise" /\ MoreToKill
    /\ i' = IF tool = "dynamic" THEN 1 ELSE lastfree
    /\ mpc' = "kill"
    /\ UNCHANGED <<toolVars, args, m_freethreads, m_threadnum, lastfree, finalising, threadVars>>

FinaliseEnd ==
    /\ mpc = "finalise" /\ ~MoreToKill
    /\ args' = <<>> /\ mpc' = "none" /\ i' = 1 /\ lastfree' = 1
    /\ UNCHANGED <<toolVars, m_freethreads, m_threadnum, finalising, threadVars>>

KillThread ==
    /\ mpc = "kill" /\ mpc' = "join"
    /\ IF pc[args[i]] = "unborn" THEN UNCHANGED flagVars
       ELSE /\ running' = [running EXCEPT ![args[i]] = FALSE]
            /\ kill' = [kill EXCEPT ![args[i]] = TRUE]
    /\ UNCHANGED <<toolVars, args, m_freethreads, m_threadnum, i, lastfree, finalising,
                   pc, ThreadName, busy, message>>

\* The thread has ended; its arguments are deleted, except by the multi-thread tool.
Joined ==
    /\ mpc = "join" /\ pc[args[i]] \in {"unborn", "exited"}
    /\ pc' = [pc EXCEPT ![args[i]] = IF tool = "multi" THEN "exited" ELSE "unborn"]
    /\ IF tool = "multi" THEN UNCHANGED args ELSE args' = RemoveAt(args, i)
    /\ IF finalising THEN mpc' = "finalise" /\ lastfree' = lastfree + 1
                     ELSE mpc' = "ready" /\ UNCHANGED lastfree
    /\ UNCHANGED <<toolVars, m_freethreads, m_threadnum, i, finalising, ThreadName,
                   flagVars, busy, message>>

Tool ==
    \/ InitialiseThread \/ InitialiseEnd
    \/ Find \/ ReadReply \/ WriteRequest \/ Give \/ CountFree \/ ExecuteEnd
    \/ FinaliseNext \/ FinaliseEnd \/ KillThread \/ Joined

-----------------------------------------------------------------------------
(* A thread *)

KillWhenIdle(w) == kill[w] /\ ~busy[w]
KillSeen(w)     == kill[w]

Loop(w) ==
    /\ pc[w] = "loop"
    /\ IF KillSeen(w) THEN pc' = [pc EXCEPT ![w] = "exited"]
       ELSE running[w] /\ tool # "single" /\ pc' = [pc EXCEPT ![w] = "test"]
    /\ UNCHANGED <<flagVars, busy, message>>

TakeRequest(w) ==
    /\ pc[w] = "test"
    /\ pc' = [pc EXCEPT ![w] = IF busy[w] THEN "answer" ELSE "loop"]
    /\ busy' = [busy EXCEPT ![w] = FALSE]
    /\ UNCHANGED <<flagVars, message>>

TestBusy(w) ==
    /\ pc[w] = "test"
    /\ pc' = [pc EXCEPT ![w] = IF busy[w] THEN "answer" ELSE "loop"]
    /\ UNCHANGED <<flagVars, busy, message>>

Answer(w) ==
    /\ pc[w] = "answer"
    /\ message' = [message EXCEPT ![w] = "Hello"]
    /\ pc' = [pc EXCEPT ![w] = "work"]
    /\ UNCHANGED <<flagVars, busy>>

StillBusy(w) == UNCHANGED busy
NotBusy(w)   == busy' = [busy EXCEPT ![w] = FALSE]

Work(w) ==
    /\ pc[w] = "work"
    /\ NotBusy(w)
    /\ pc' = [pc EXCEPT ![w] = "loop"]
    /\ UNCHANGED <<flagVars, message>>

\* The user's code throws; the thread idles with its request from then on.
Throw(w) ==
    /\ pc[w] = "work"
    /\ running' = [running EXCEPT ![w] = FALSE]
    /\ pc' = [pc EXCEPT ![w] = "loop"]
    /\ UNCHANGED <<kill, busy, message>>

Thread(w) ==
    /\ Loop(w) \/ TestBusy(w) \/ Answer(w) \/ Work(w) \/ Throw(w)
    /\ UNCHANGED <<toolVars, mainVars, ThreadName>>

-----------------------------------------------------------------------------
Next == StartInitialise \/ StartExecute \/ StartFinalise \/ Tool \/ \E w \in Threads : Thread(w)

Spec == Init /\ [][Next]_vars

\* Every thread keeps running, and an operation of the tool that has begun goes on.
Fairness == WF_vars(Tool) /\ \A w \in Threads : WF_vars(Thread(w))

FairSpec == Spec /\ Fairness
=============================================================================
