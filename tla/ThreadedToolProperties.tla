------------------------ MODULE ThreadedToolProperties ------------------------
(***************************************************************************)
(* What the tools with threads promise about their requests and threads.   *)
(***************************************************************************)
EXTENDS ThreadedTool, FiniteSets

ToolPcs == {"none", "init", "ready", "find", "reply", "request", "give", "count",
            "finalise", "kill", "join"}
ThreadPcs == {"unborn", "loop", "test", "answer", "work", "exited"}

\* Type invariant of the tool and its threads.
TypeOK ==
    /\ tool \in Templates /\ finalising \in BOOLEAN
    /\ initialises \in 0..MaxInitialises /\ executes \in 0..MaxExecutes
    /\ args \in Seq(Threads)
    /\ m_freethreads \in Nat /\ m_threadnum \in Nat
    /\ mpc \in ToolPcs /\ i \in Nat \ {0} /\ lastfree \in Nat \ {0}
    /\ pc \in [Threads -> ThreadPcs] /\ ThreadName \in [Threads -> Nat]
    /\ running \in [Threads -> BOOLEAN] /\ kill \in [Threads -> BOOLEAN]
    /\ busy \in [Threads -> BOOLEAN]
    /\ message \in [Threads -> {"empty", "Hi", "Hello"}]

-----------------------------------------------------------------------------
(* Requests *)

\* The tool is between having found thread w free and giving it a request.
Serving(w) == mpc \in {"reply", "request", "give"} /\ i \in DOMAIN args /\ args[i] = w

\* busy hands the message back and forth: while the tool reads the last reply and
\* writes a request the thread leaves the message alone, and what the tool reads
\* is the answer to the request before, never the request or half of an answer.
MessageHasOneUser ==
    \A w \in Threads :
       /\ Serving(w) => pc[w] \notin {"answer", "work"} /\ ~busy[w]
       /\ mpc = "reply" /\ Serving(w) => message[w] \in {"empty", "Hello"}

\* Until Finalise, Execute stops no thread that has a request, so no request is lost
\* with its thread; and a thread with a request is one of the tool's own.
NoRequestLost ==
    ~finalising => \A w \in ToSet(args) : kill[w] \/ pc[w] = "unborn" => ~busy[w]

-----------------------------------------------------------------------------
(* Threads *)

\* "such that there is always 1 available thread": between two calls of Execute the
\* dynamic tool has a free thread, which exists and listens, whatever the others do,
\* also when the code of every other one has thrown.
SpareThread ==
    tool = "dynamic" /\ mpc = "ready" =>
       \E w \in ToSet(args) :
          ~busy[w] /\ running[w] /\ ~kill[w] /\ pc[w] \in {"loop", "test", "answer", "work"}

\* Creating threads and deleting them in the middle keeps args and the threads in
\* step: no two entries share a thread, and each has a thread of its own.
ThreadsAreInArgs ==
    /\ IsInjective(args)
    /\ mpc = "ready" => \A w \in ToSet(args) : pc[w] \notin {"unborn", "exited"} /\ ~kill[w]

\* After Finalise of the tool with one thread, or with a fixed number of them, no
\* thread of it is left.  (The dynamic tool leaves threads behind.)
FinaliseStopsThreads ==
    mpc = "none" /\ tool # "dynamic" => \A w \in Threads : pc[w] \in {"unborn", "exited"}

-----------------------------------------------------------------------------
(* Progress *)

\* A request is answered, unless the user's code throws on it or Finalise comes first.
RequestsAreAnswered ==
    \A w \in Threads : busy[w] ~> (~busy[w] \/ ~running[w])

\* Initialise, Execute and Finalise return: stopping a thread waits for it to end
\* what it is doing, also for one whose code has thrown.
OperationsEnd == mpc \notin {"none", "ready"} ~> mpc \in {"none", "ready"}
=============================================================================
