-------------------------- MODULE ThreadedTool_proofs --------------------------
(***************************************************************************)
(* Proofs about the tools with threads, for any number of threads,         *)
(* requests and calls: the message has one user at a time, no request is   *)
(* lost, every entry of args has its thread, the dynamic tool keeps a      *)
(* thread to spare, and the other two stop all theirs.                     *)
(***************************************************************************)
EXTENDS ThreadedToolProperties, TLAPS

-----------------------------------------------------------------------------
(* The inductive invariant *)

Living   == {"loop", "test", "answer", "work"}
Stopping == {"finalise", "kill", "join"}

\* The entry k of args is one whose thread has been told to end.
Stopped(k) ==
    \/ k = i /\ mpc = "join"
    \/ finalising /\ tool = "multi" /\ mpc \in Stopping /\ k < lastfree

\* What a thread's program counter says about its flags.
ThreadInv ==
    \A w \in Threads :
       /\ pc[w] \in {"answer", "work"} => busy[w]
       /\ pc[w] = "work" => message[w] = "Hello"
       /\ pc[w] \in {"test", "answer", "work"} => running[w] \/ kill[w]
       /\ pc[w] = "loop" => running[w] \/ kill[w] \/ busy[w]
       /\ ~busy[w] /\ ~(mpc = "give" /\ Serving(w)) => message[w] \in {"empty", "Hello"}

\* What the tool's place says about its indices.
IndexInv ==
    /\ tool \in {"single", "multi", "dynamic"}
    /\ mpc \in {"reply", "request", "give"} => i <= Len(args) /\ ~busy[args[i]]
    /\ mpc \in {"kill", "join"} =>
          /\ i <= Len(args)
          /\ finalising => i = IF tool = "dynamic" THEN 1 ELSE lastfree
          /\ ~finalising => tool = "dynamic"
    /\ mpc = "finalise" => finalising
    /\ mpc \notin Stopping \cup {"none"} => ~finalising
    /\ mpc = "none" => args = <<>>
    /\ tool = "single" => Len(args) <= 1 /\ (mpc = "finalise" /\ lastfree > 1 => args = <<>>)

\* Every entry of args has a thread and a name of its own.
ArgsInv ==
    /\ \A a, b \in DOMAIN args : args[a] = args[b] => a = b
    /\ \A k \in DOMAIN args :
          /\ ThreadName[args[k]] < m_threadnum
          /\ ~Stopped(k) => pc[args[k]] \in Living /\ ~kill[args[k]]
          /\ finalising /\ tool = "multi" /\ mpc \in Stopping /\ k < lastfree
                => pc[args[k]] = "exited"

\* Only the dynamic tool leaves threads that args no longer has.
LivingInv ==
    tool # "dynamic" =>
       \A w \in Threads : pc[w] \in Living => \E k \in DOMAIN args : args[k] = w

\* What has been counted so far, and that one thread stays free.
FreeInv ==
    /\ mpc = "init" => \A k \in DOMAIN args : ~busy[args[k]]
    /\ mpc = "count" /\ m_freethreads > 0 =>
          lastfree < i /\ lastfree \in DOMAIN args /\ ~busy[args[lastfree]]
    /\ mpc = "count" /\ m_freethreads > 1 =>
          \E k \in DOMAIN args : k < lastfree /\ ~busy[args[k]]
    /\ mpc \in {"kill", "join"} /\ ~finalising =>
          ~busy[args[i]] /\ \E k \in DOMAIN args : k # i /\ ~busy[args[k]]
    /\ mpc = "ready" /\ tool = "dynamic" => \E k \in DOMAIN args : ~busy[args[k]]

IInv == TypeOK /\ ThreadInv /\ IndexInv /\ ArgsInv /\ LivingInv /\ FreeInv

-----------------------------------------------------------------------------
(* Sequences *)

\* The places of args, and what is there.
LEMMA ArgsFacts ==
    ASSUME TypeOK
    PROVE  /\ Len(args) \in Nat /\ DOMAIN args = 1..Len(args)
           /\ \A k \in DOMAIN args : args[k] \in Threads
           /\ args = <<>> <=> Len(args) = 0
           /\ \A w : w \in ToSet(args) <=> \E k \in DOMAIN args : args[k] = w
<1>1. args \in Seq(Threads)
  BY DEF TypeOK
<1>2. \A w : w \in ToSet(args) <=> \E k \in DOMAIN args : args[k] = w
  BY DEF ToSet
<1>3. QED
  BY <1>1, <1>2

\* What args holds after a push.
LEMMA AppendFacts ==
    ASSUME NEW S, NEW s \in Seq(S), NEW x \in S
    PROVE  /\ Append(s, x) \in Seq(S) /\ Len(Append(s, x)) = Len(s) + 1
           /\ DOMAIN Append(s, x) = 1..(Len(s) + 1)
           /\ \A k \in 1..Len(s) : Append(s, x)[k] = s[k]
           /\ Append(s, x)[Len(s) + 1] = x
           /\ Append(s, x) # <<>>
  OBVIOUS

\* The type and length of two sequences that are joined.
LEMMA ConcatType ==
    ASSUME NEW S, NEW s \in Seq(S), NEW t \in Seq(S)
    PROVE  s \o t \in Seq(S) /\ Len(s \o t) = Len(s) + Len(t)
  OBVIOUS

\* What args holds after an erase.
LEMMA RemoveFacts ==
    ASSUME NEW S, NEW s \in Seq(S), NEW p \in 1..Len(s)
    PROVE  /\ RemoveAt(s, p) \in Seq(S) /\ Len(RemoveAt(s, p)) = Len(s) - 1
           /\ DOMAIN RemoveAt(s, p) = 1..(Len(s) - 1)
           /\ \A k \in 1..(Len(s) - 1) :
                 RemoveAt(s, p)[k] = IF k < p THEN s[k] ELSE s[k + 1]
<1>1. \E f, b \in Seq(S) :
         /\ RemoveAt(s, p) = f \o b
         /\ Len(f) = p - 1 /\ \A k \in 1..(p - 1) : f[k] = s[k]
         /\ Len(b) = Len(s) - p /\ \A k \in 1..(Len(s) - p) : b[k] = s[k + p]
  <2>1. SubSeq(s, 1, p - 1) \in Seq(S) /\ SubSeq(s, p + 1, Len(s)) \in Seq(S)
    OBVIOUS
  <2>2. /\ Len(SubSeq(s, 1, p - 1)) = p - 1
        /\ \A k \in 1..(p - 1) : SubSeq(s, 1, p - 1)[k] = s[k]
    OBVIOUS
  <2>3. /\ Len(SubSeq(s, p + 1, Len(s))) = Len(s) - p
        /\ \A k \in 1..(Len(s) - p) : SubSeq(s, p + 1, Len(s))[k] = s[k + p]
    OBVIOUS
  <2>4. RemoveAt(s, p) = SubSeq(s, 1, p - 1) \o SubSeq(s, p + 1, Len(s))
    BY DEF RemoveAt
  <2>5. QED
    BY <2>1, <2>2, <2>3, <2>4, Zenon
<1>2. PICK f \in Seq(S), b \in Seq(S) :
         /\ RemoveAt(s, p) = f \o b
         /\ Len(f) = p - 1 /\ \A k \in 1..(p - 1) : f[k] = s[k]
         /\ Len(b) = Len(s) - p /\ \A k \in 1..(Len(s) - p) : b[k] = s[k + p]
  BY <1>1
<1>3. Len(s) \in Nat /\ p \in Nat /\ 1 <= p /\ p <= Len(s)
  OBVIOUS
<1>4. f \o b \in Seq(S) /\ Len(f \o b) = Len(s) - 1
  <2>1. f \o b \in Seq(S) /\ Len(f \o b) = Len(f) + Len(b)
    BY ConcatType, Zenon
  <2>2. QED
    BY <1>2, <1>3, <2>1
<1>5. ASSUME NEW k \in 1..(Len(s) - 1) PROVE (f \o b)[k] = IF k < p THEN s[k] ELSE s[k + 1]
  <2>1. CASE k < p
    BY <1>2, <1>3, <2>1
  <2>2. CASE k >= p
    <3>1. (f \o b)[k] = b[k - (p - 1)]
      BY <1>2, <1>3, <2>2
    <3>2. k - (p - 1) \in 1..(Len(s) - p) /\ (k - (p - 1)) + p = k + 1
      BY <1>3, <2>2
    <3>3. b[k - (p - 1)] = s[k + 1]
      BY <1>2, <3>2
    <3>4. QED
      BY <1>3, <2>2, <3>1, <3>3
  <2>3. k < p \/ k >= p
    BY <1>3
  <2>4. QED
    BY <2>1, <2>2, <2>3, Zenon
<1>6. RemoveAt(s, p) \in Seq(S) /\ Len(RemoveAt(s, p)) = Len(s) - 1
  BY <1>2, <1>4, Zenon
<1>7. QED
  BY <1>2, <1>3, <1>5, <1>6

-----------------------------------------------------------------------------
(* The invariant is inductive: one lemma per group of actions *)

\* What the constructor leaves.
LEMMA InitInvariant == ASSUME ThreadedToolAssumption, Init PROVE IInv
<1>1. TypeOK
  <2>1. args = <<>> /\ MaxInitialises \in Nat /\ MaxExecutes \in Nat
    BY DEF Init, ThreadedToolAssumption
  <2>2. args \in Seq(Threads)
    BY <2>1
  <2>3. m_threadnum = 0 /\ initialises \in 0..MaxInitialises /\ executes \in 0..MaxExecutes
    BY <2>1 DEF Init
  <2>4. mpc \in ToolPcs /\ pc \in [Threads -> ThreadPcs]
    BY DEF Init, ToolPcs, ThreadPcs
  <2>5. /\ tool \in Templates /\ finalising \in BOOLEAN /\ m_freethreads = 0 /\ i = 1 /\ lastfree = 1
    BY DEF Init
  <2>6. /\ ThreadName \in [Threads -> Nat] /\ message \in [Threads -> {"empty", "Hi", "Hello"}]
        /\ running \in [Threads -> BOOLEAN] /\ kill \in [Threads -> BOOLEAN]
        /\ busy \in [Threads -> BOOLEAN]
    BY DEF Init
  <2>7. QED
    BY <2>2, <2>3, <2>4, <2>5, <2>6 DEF TypeOK
<1>2. args = <<>> /\ DOMAIN args = {} /\ Len(args) = 0
  <2>1. args = <<>> /\ Len(args) = 0 /\ DOMAIN args = 1..Len(args)
    BY <1>1, ArgsFacts DEF Init
  <2>2. QED
    BY <2>1
<1>3. ThreadInv
  BY DEF Init, ThreadInv
<1>4. IndexInv
  BY <1>2 DEF Init, IndexInv, Stopping, ThreadedToolAssumption
<1>5. ArgsInv /\ LivingInv /\ FreeInv
  BY <1>2 DEF Init, ArgsInv, LivingInv, FreeInv, Living
<1>6. QED
  BY <1>1, <1>3, <1>4, <1>5 DEF IInv

\* A thread works on its request, and throws, while the tool does something else.
LEMMA ThreadStep ==
    ASSUME IInv, NEW w \in Threads, Thread(w)
    PROVE  IInv'
<1>1. UNCHANGED <<tool, initialises, executes, args, m_freethreads, m_threadnum, mpc, i,
                  lastfree, finalising, ThreadName>>
  BY DEF Thread, toolVars, mainVars
<1>2. /\ TypeOK /\ ThreadInv /\ IndexInv /\ ArgsInv /\ LivingInv /\ FreeInv
      /\ \A k \in DOMAIN args : args[k] \in Threads
      /\ Len(args) \in Nat /\ DOMAIN args = 1..Len(args)
  BY ArgsFacts DEF IInv
<1>3. Loop(w) \/ TestBusy(w) \/ Answer(w) \/ Work(w) \/ Throw(w)
  BY DEF Thread
<1>4. TypeOK'
  BY <1>1, <1>2, <1>3 DEF TypeOK, ThreadPcs, flagVars, Loop, TestBusy, Answer, Work, Throw, NotBusy
<1> USE DEF Loop, TestBusy, Answer, Work, Throw, NotBusy, KillSeen, flagVars
<1>5. /\ \A v \in Threads : busy'[v] => busy[v]
      /\ kill' = kill
      /\ \A v \in Threads : pc'[v] \in Living \/ (pc'[v] = "exited" /\ kill[v]) \/ pc'[v] = pc[v]
      /\ \A v \in Threads : pc'[v] \in Living => pc[v] \in Living
      /\ \A v \in Threads : pc[v] = "exited" => pc'[v] = "exited"
  BY <1>2, <1>3 DEF TypeOK, Living
<1>6. ThreadInv'
  <2>1. CASE Loop(w)
    BY <1>1, <1>2, <2>1 DEF ThreadInv, TypeOK, Serving
  <2>2. CASE TestBusy(w)
    BY <1>1, <1>2, <2>2 DEF ThreadInv, TypeOK, Serving
  <2>3. CASE Answer(w)
    BY <1>1, <1>2, <2>3 DEF ThreadInv, TypeOK, Serving
  <2>4. CASE Work(w)
    BY <1>1, <1>2, <2>4 DEF ThreadInv, TypeOK, Serving
  <2>5. CASE Throw(w)
    BY <1>1, <1>2, <2>5 DEF ThreadInv, TypeOK, Serving
  <2>6. QED
    BY <1>3, <2>1, <2>2, <2>3, <2>4, <2>5
<1> HIDE DEF Loop, TestBusy, Answer, Work, Throw, NotBusy
<1>7. IndexInv'
  <2>1. mpc \in {"reply", "request", "give"} => i \in DOMAIN args
    <3>1. i \in Nat \ {0}
      BY <1>2 DEF TypeOK
    <3>2. QED
      BY <1>2, <3>1 DEF IndexInv
  <2>2. mpc \in {"reply", "request", "give"} => ~busy'[args[i]]
    BY <1>2, <1>5, <2>1 DEF IndexInv
  <2>3. QED
    BY <1>1, <1>2, <2>2 DEF IndexInv
<1>8. ArgsInv'
  BY <1>1, <1>2, <1>5 DEF ArgsInv, Stopped
<1>9. LivingInv'
  BY <1>1, <1>2, <1>5 DEF LivingInv
<1>10. FreeInv'
  <2>1. mpc \in {"kill", "join"} => i \in DOMAIN args
    <3>1. i \in Nat \ {0}
      BY <1>2 DEF TypeOK
    <3>2. QED
      BY <1>2, <3>1 DEF IndexInv
  <2>2. \A k \in DOMAIN args : ~busy[args[k]] => ~busy'[args[k]]
    BY <1>2, <1>5
  <2>3. QED
    BY <1>1, <1>2, <2>1, <2>2 DEF FreeInv
<1>11. QED
  BY <1>4, <1>6, <1>7, <1>8, <1>9, <1>10 DEF IInv

\* What a step may use: the parts of the invariant and the shape of args.
LEMMA Parts ==
    ASSUME IInv
    PROVE  /\ TypeOK /\ ThreadInv /\ IndexInv /\ ArgsInv /\ LivingInv /\ FreeInv
           /\ \A k \in DOMAIN args : args[k] \in Threads
           /\ Len(args) \in Nat /\ DOMAIN args = 1..Len(args) /\ (args = <<>> <=> Len(args) = 0)
           /\ i \in Nat /\ i >= 1 /\ lastfree \in Nat /\ lastfree >= 1
<1>1. TypeOK
  BY DEF IInv
<1>2. i \in Nat \ {0} /\ lastfree \in Nat \ {0}
  BY <1>1 DEF TypeOK
<1>3. QED
  BY <1>1, <1>2, ArgsFacts DEF IInv

\* A call begins or ends; the threads go on as they were.
LEMMA CallStep ==
    ASSUME ThreadedToolAssumption, IInv,
           StartInitialise \/ InitialiseEnd \/ StartExecute \/ StartFinalise \/ FinaliseNext \/ FinaliseEnd
    PROVE  IInv'
<1>0. TypeOK /\ MaxInitialises \in Nat /\ MaxExecutes \in Nat
  BY Parts DEF ThreadedToolAssumption
<1>1. UNCHANGED <<tool, pc, ThreadName, running, kill, busy, message>>
  BY DEF StartInitialise, InitialiseEnd, StartExecute, StartFinalise, FinaliseNext, FinaliseEnd,
     toolVars, threadVars, flagVars
<1>2. ThreadInv'
  BY <1>1, Parts DEF ThreadInv, Serving, StartInitialise, InitialiseEnd, StartExecute, StartFinalise,
     FinaliseNext, FinaliseEnd
<1> USE DEF toolVars, threadVars, flagVars
<1>3. CASE StartInitialise
  <2>1. TypeOK'
    <3>1. initialises' \in 0..MaxInitialises
      BY <1>0, <1>3 DEF TypeOK, StartInitialise
    <3>2. QED
      BY <1>0, <1>1, <1>3, <3>1 DEF TypeOK, StartInitialise, ToolPcs
  <2>2. args = <<>> /\ Len(args) = 0 /\ DOMAIN args = {} /\ UNCHANGED args /\ mpc' = "init" /\ ~finalising'
    BY <1>3, Parts DEF IndexInv, StartInitialise
  <2>3. IndexInv' /\ ArgsInv' /\ FreeInv'
    BY <1>1, <2>2, Parts DEF IndexInv, ArgsInv, FreeInv, Stopping
  <2>4. LivingInv'
    BY <1>1, <2>2, Parts DEF LivingInv
  <2>5. QED
    BY <1>2, <2>1, <2>3, <2>4 DEF IInv
<1>4. CASE InitialiseEnd
  <2>1. TypeOK'
    BY <1>1, <1>4, Parts DEF TypeOK, InitialiseEnd, ToolPcs, Wanted, ThreadedToolAssumption
  <2>2. IndexInv' /\ ArgsInv' /\ LivingInv'
    BY <1>1, <1>4, Parts DEF InitialiseEnd, IndexInv, ArgsInv, LivingInv, Stopping, Stopped
  <2>3. FreeInv'
    BY <1>1, <1>4, Parts DEF InitialiseEnd, FreeInv, Wanted
  <2>4. QED
    BY <1>2, <2>1, <2>2, <2>3 DEF IInv
<1>5. CASE StartExecute
  <2>1. TypeOK'
    BY <1>0, <1>1, <1>5 DEF TypeOK, StartExecute, ToolPcs
  <2>2. IndexInv' /\ ArgsInv' /\ LivingInv' /\ FreeInv'
    BY <1>1, <1>5, Parts DEF StartExecute, IndexInv, ArgsInv, LivingInv, FreeInv, Stopping, Stopped
  <2>3. QED
    BY <1>2, <2>1, <2>2 DEF IInv
<1>6. CASE StartFinalise
  <2>1. TypeOK'
    BY <1>0, <1>1, <1>6 DEF TypeOK, StartFinalise, ToolPcs
  <2>2. IndexInv' /\ ArgsInv' /\ LivingInv' /\ FreeInv'
    BY <1>1, <1>6, Parts DEF StartFinalise, IndexInv, ArgsInv, LivingInv, FreeInv, Stopping, Stopped
  <2>3. QED
    BY <1>2, <2>1, <2>2 DEF IInv
<1>7. CASE FinaliseNext
  <2>1. TypeOK'
    BY <1>0, <1>1, <1>7 DEF TypeOK, FinaliseNext, ToolPcs
  <2>2. IndexInv' /\ ArgsInv' /\ LivingInv' /\ FreeInv'
    BY <1>1, <1>7, Parts DEF FinaliseNext, MoreToKill, IndexInv, ArgsInv, LivingInv, FreeInv, Stopping,
       Stopped
  <2>3. QED
    BY <1>2, <2>1, <2>2 DEF IInv
<1>8. CASE FinaliseEnd
  <2>1. args' = <<>> /\ args' \in Seq(Threads) /\ DOMAIN args' = {} /\ Len(args') = 0
    <3>1. args' = <<>>
      BY <1>8 DEF FinaliseEnd
    <3>2. args' \in Seq(Threads) /\ Len(args') = 0
      BY <3>1
    <3>3. QED
      BY <3>1, <3>2
  <2>4. TypeOK'
    BY <1>0, <1>1, <1>8, <2>1 DEF TypeOK, FinaliseEnd, ToolPcs
  <2>2. IndexInv' /\ ArgsInv' /\ FreeInv'
    BY <1>1, <1>8, <2>1, Parts DEF FinaliseEnd, IndexInv, ArgsInv, FreeInv, Stopping
  <2>3. LivingInv'
    BY <1>1, <1>8, <2>1, Parts DEF FinaliseEnd, MoreToKill, LivingInv, ArgsInv, IndexInv, Living, Stopping
  <2>5. QED
    BY <1>2, <2>2, <2>3, <2>4 DEF IInv
<1>9. QED
  BY <1>3, <1>4, <1>5, <1>6, <1>7, <1>8

\* Execute looks for a free thread, gives it a request and counts the free ones.
LEMMA ExecuteStep ==
    ASSUME IInv, Find \/ ReadReply \/ WriteRequest \/ Give \/ CountFree
    PROVE  IInv'
<1>1. /\ UNCHANGED <<toolVars, args, m_threadnum, finalising, pc, ThreadName, running, kill, tool>>
      /\ ~finalising
  BY Parts DEF Find, ReadReply, WriteRequest, Give, CountFree, InExecute, toolVars, flagVars, IndexInv,
     Stopping
<1>2. CASE Find
  <2>1. TypeOK'
    BY <1>1, <1>2, Parts DEF Find, CountFrom1, TypeOK, ToolPcs, toolVars
  <2>2. ThreadInv'
    BY <1>1, <1>2, Parts DEF Find, CountFrom1, ThreadInv, Serving
  <2>3. IndexInv' /\ ArgsInv' /\ LivingInv'
    BY <1>1, <1>2, Parts DEF Find, IndexInv, ArgsInv, LivingInv, Stopping, Stopped
  <2>4. FreeInv'
    BY <1>1, <1>2, Parts DEF Find, CountFrom1, FreeInv
  <2>5. QED
    BY <2>1, <2>2, <2>3, <2>4 DEF IInv
<1>3. CASE ReadReply
  <2>1. TypeOK'
    BY <1>1, <1>3, Parts DEF ReadReply, TypeOK, ToolPcs, toolVars
  <2>2. ThreadInv'
    BY <1>1, <1>3, Parts DEF ReadReply, ThreadInv, Serving
  <2>3. IndexInv' /\ ArgsInv' /\ LivingInv' /\ FreeInv'
    BY <1>1, <1>3, Parts DEF ReadReply, IndexInv, ArgsInv, LivingInv, FreeInv, Stopping, Stopped
  <2>4. QED
    BY <2>1, <2>2, <2>3 DEF IInv
<1>4. CASE WriteRequest
  <2>1. TypeOK'
    BY <1>1, <1>4, Parts DEF WriteRequest, TypeOK, ToolPcs, toolVars
  <2>2. ThreadInv'
    BY <1>1, <1>4, Parts DEF WriteRequest, ThreadInv, Serving, IndexInv, TypeOK
  <2>3. IndexInv' /\ ArgsInv' /\ LivingInv' /\ FreeInv'
    BY <1>1, <1>4, Parts DEF WriteRequest, IndexInv, ArgsInv, LivingInv, FreeInv, Stopping, Stopped
  <2>4. QED
    BY <2>1, <2>2, <2>3 DEF IInv
<1>5. CASE Give
  <2>1. TypeOK'
    <3>1. busy' \in [Threads -> BOOLEAN]
      BY <1>5, Parts DEF Give, TypeOK
    <3>2. QED
      BY <1>1, <1>5, <3>1, Parts DEF Give, CountFrom1, TypeOK, ToolPcs, toolVars
  <2>2. ThreadInv'
    BY <1>1, <1>5, Parts DEF Give, CountFrom1, ThreadInv, Serving, IndexInv, TypeOK
  <2>3. IndexInv' /\ ArgsInv' /\ LivingInv' /\ FreeInv'
    BY <1>1, <1>5, Parts DEF Give, CountFrom1, IndexInv, ArgsInv, LivingInv, FreeInv, Stopping, Stopped
  <2>4. QED
    BY <2>1, <2>2, <2>3 DEF IInv
<1>6. CASE CountFree
  <2>1. TypeOK'
    BY <1>1, <1>6, Parts DEF CountFree, LastFree, TypeOK, ToolPcs, toolVars
  <2>2. ThreadInv'
    BY <1>1, <1>6, Parts DEF CountFree, ThreadInv, Serving
  <2>3. IndexInv' /\ ArgsInv' /\ LivingInv'
    BY <1>1, <1>6, Parts DEF CountFree, IndexInv, ArgsInv, LivingInv, Stopping, Stopped
  <2>4. FreeInv'
    BY <1>1, <1>6, Parts DEF CountFree, LastFree, FreeInv, TypeOK
  <2>5. QED
    BY <2>1, <2>2, <2>3, <2>4 DEF IInv
<1>7. QED
  BY <1>2, <1>3, <1>4, <1>5, <1>6

\* A new thread is one that args has not, and the name it asks for is free.
LEMMA CreateFacts ==
    ASSUME IInv, CreateThread
    PROVE  /\ Fresh \in Threads /\ pc[Fresh] = "unborn" /\ \A k \in DOMAIN args : args[k] # Fresh
           /\ args' \in Seq(Threads) /\ Len(args') = Len(args) + 1 /\ DOMAIN args' = 1..(Len(args) + 1)
           /\ \A k \in DOMAIN args : args'[k] = args[k]
           /\ args'[Len(args) + 1] = Fresh
           /\ busy' = [busy EXCEPT ![Fresh] = FALSE] /\ message' = [message EXCEPT ![Fresh] = "empty"]
           /\ m_threadnum' = m_threadnum + 1
           /\ pc' = [pc EXCEPT ![Fresh] = "loop"]
           /\ ThreadName' = [ThreadName EXCEPT ![Fresh] = m_threadnum]
           /\ running' = [running EXCEPT ![Fresh] = TRUE] /\ kill' = [kill EXCEPT ![Fresh] = FALSE]
<1>1. Fresh \in Threads /\ pc[Fresh] = "unborn" /\ Fresh \notin ToSet(args)
  BY DEF CreateThread, Fresh
<1>2. ~NameTaken
  <2>1. \A w \in ToSet(args) : \E k \in DOMAIN args : args[k] = w
    BY DEF ToSet
  <2>2. \A k \in DOMAIN args : ThreadName[args[k]] < m_threadnum
    BY Parts DEF ArgsInv
  <2>3. \A k \in DOMAIN args : ThreadName[args[k]] \in Nat /\ m_threadnum \in Nat
    BY Parts DEF TypeOK
  <2>4. QED
    BY <2>1, <2>2, <2>3 DEF NameTaken, NewName
<1>3. args' = Append(args, Fresh) /\ args \in Seq(Threads)
  BY Parts DEF CreateThread, TypeOK
<1>4. /\ args' \in Seq(Threads) /\ Len(args') = Len(args) + 1 /\ DOMAIN args' = 1..(Len(args) + 1)
      /\ \A k \in 1..Len(args) : args'[k] = args[k]
      /\ args'[Len(args) + 1] = Fresh
  BY <1>1, <1>3, AppendFacts
<1>5. \A k \in DOMAIN args : args[k] # Fresh
  BY <1>1 DEF ToSet
<1>6. QED
  BY <1>1, <1>2, <1>4, <1>5, Parts DEF CreateThread, NewName

\* A thread is created while the tool is initialised, or because all are busy.
LEMMA CreateStep ==
    ASSUME IInv, CreateThread, UNCHANGED <<toolVars, finalising>>,
           \/ mpc = "init" /\ UNCHANGED <<mpc, i, lastfree, m_freethreads>> /\ Len(args) < Wanted
           \/ mpc = "count" /\ mpc' = "ready" /\ i' = lastfree /\ UNCHANGED <<lastfree, m_freethreads>>
              /\ tool = "dynamic"
    PROVE  IInv'
<1>1. ~finalising /\ ~finalising' /\ UNCHANGED <<tool, initialises, executes>>
      /\ mpc' \in {"init", "ready"}
  BY Parts DEF IndexInv, Stopping, toolVars
<1>2. PICK w \in Threads :
         /\ pc[w] = "unborn" /\ \A k \in DOMAIN args : args[k] # w
         /\ args' \in Seq(Threads) /\ Len(args') = Len(args) + 1 /\ DOMAIN args' = 1..(Len(args) + 1)
         /\ \A k \in DOMAIN args : args'[k] = args[k]
         /\ args'[Len(args) + 1] = w
         /\ busy' = [busy EXCEPT ![w] = FALSE] /\ message' = [message EXCEPT ![w] = "empty"]
         /\ m_threadnum' = m_threadnum + 1
         /\ pc' = [pc EXCEPT ![w] = "loop"]
         /\ ThreadName' = [ThreadName EXCEPT ![w] = m_threadnum]
         /\ running' = [running EXCEPT ![w] = TRUE] /\ kill' = [kill EXCEPT ![w] = FALSE]
  BY CreateFacts, Zenon
<1>3. /\ busy' \in [Threads -> BOOLEAN] /\ running' \in [Threads -> BOOLEAN]
      /\ kill' \in [Threads -> BOOLEAN] /\ pc' \in [Threads -> ThreadPcs]
      /\ ThreadName' \in [Threads -> Nat] /\ message' \in [Threads -> {"empty", "Hi", "Hello"}]
  BY <1>2, Parts DEF TypeOK, ThreadPcs
<1>4. TypeOK'
  BY <1>1, <1>2, <1>3, Parts DEF TypeOK, ToolPcs
<1>5. /\ ~busy'[w] /\ message'[w] = "empty" /\ pc'[w] = "loop" /\ running'[w] /\ ~kill'[w]
      /\ ThreadName'[w] = m_threadnum
      /\ \A v \in Threads \ {w} :
            /\ busy'[v] = busy[v] /\ message'[v] = message[v] /\ pc'[v] = pc[v]
            /\ running'[v] = running[v] /\ kill'[v] = kill[v] /\ ThreadName'[v] = ThreadName[v]
  BY <1>2, Parts DEF TypeOK
<1>6. \A k \in DOMAIN args : args[k] \in Threads \ {w} /\ args'[k] = args[k]
  BY <1>2, Parts
<1>7. DOMAIN args' = DOMAIN args \cup {Len(args) + 1} /\ Len(args) + 1 \notin DOMAIN args
  BY <1>2, Parts
<1>8. ThreadInv'
  <2>1. mpc' # "give" /\ mpc # "give"
    BY <1>1
  <2>2. QED
    BY <1>5, <2>1, Parts DEF ThreadInv
<1>9. IndexInv'
  BY <1>1, <1>2, Parts DEF IndexInv, Stopping, Wanted
<1>10. ArgsInv'
  <2>1. \A a, b \in DOMAIN args' : args'[a] = args'[b] => a = b
    BY <1>2, <1>6, <1>7, Parts DEF ArgsInv
  <2>2. \A k \in DOMAIN args : ~Stopped(k) /\ ThreadName[args[k]] \in Nat
    BY <1>1, Parts DEF Stopped, TypeOK
  <2>3. \A k \in DOMAIN args' : /\ ThreadName'[args'[k]] < m_threadnum'
                                /\ pc'[args'[k]] \in Living /\ ~kill'[args'[k]]
    <3>1. ASSUME NEW k \in DOMAIN args
          PROVE  ThreadName'[args'[k]] < m_threadnum' /\ pc'[args'[k]] \in Living /\ ~kill'[args'[k]]
      BY <1>2, <1>5, <1>6, <2>2, Parts DEF ArgsInv, TypeOK
    <3>2. m_threadnum < m_threadnum' /\ pc'[w] \in Living
      BY <1>2, <1>5, Parts DEF TypeOK, Living
    <3>3. QED
      BY <1>2, <1>5, <1>7, <3>1, <3>2
  <2>4. QED
    BY <1>1, <2>1, <2>3 DEF ArgsInv
<1>11. LivingInv'
  <2>1. Len(args) + 1 \in DOMAIN args' /\ args'[Len(args) + 1] = w
    BY <1>2, <1>7
  <2>2. ASSUME tool # "dynamic", NEW v \in Threads \ {w}, pc'[v] \in Living
        PROVE  \E k \in DOMAIN args' : args'[k] = v
    <3>1. PICK k \in DOMAIN args : args[k] = v
      BY <1>5, <2>2, Parts DEF LivingInv
    <3>2. QED
      BY <1>6, <1>7, <3>1
  <2>3. QED
    BY <1>1, <2>1, <2>2 DEF LivingInv
<1>12. FreeInv'
  <2>1. Len(args) + 1 \in DOMAIN args' /\ ~busy'[args'[Len(args) + 1]]
    BY <1>2, <1>5, <1>7
  <2>2. mpc' = "init" => \A k \in DOMAIN args : ~busy'[args'[k]]
    BY <1>1, <1>5, <1>6, Parts DEF FreeInv
  <2>3. QED
    BY <1>1, <1>7, <2>1, <2>2 DEF FreeInv
<1>13. QED
  BY <1>4, <1>8, <1>9, <1>10, <1>11, <1>12 DEF IInv

\* Execute ends: with a new thread, on the way to end one, or with the threads it had.
LEMMA ExecuteEndStep == ASSUME IInv, ExecuteEnd PROVE IInv'
<1>1. CASE tool = "dynamic" /\ m_freethreads < 1
  BY <1>1, CreateStep DEF ExecuteEnd
<1>2. CASE ~(tool = "dynamic" /\ m_freethreads < 1)
  <2>1. /\ UNCHANGED <<tool, initialises, executes, args, m_threadnum, m_freethreads, lastfree, finalising,
                       pc, ThreadName, running, kill, busy, message>>
        /\ mpc = "count" /\ i' = lastfree
        /\ mpc' = IF tool = "dynamic" /\ TooMany THEN "kill" ELSE "ready"
        /\ ~finalising
    BY <1>2, Parts DEF ExecuteEnd, toolVars, threadVars, flagVars, IndexInv, Stopping
  <2>2. TypeOK'
    BY <2>1, Parts DEF TypeOK, ToolPcs
  <2>3. ThreadInv'
    BY <2>1, Parts DEF ThreadInv, Serving
  <2>4. mpc' = "kill" => m_freethreads > 1
    BY <2>1 DEF TooMany
  <2>5. m_freethreads > 0 => lastfree \in DOMAIN args /\ ~busy[args[lastfree]]
    BY <2>1, Parts DEF FreeInv
  <2>6. m_freethreads \in Nat
    BY Parts DEF TypeOK
  <2>7. IndexInv' /\ ArgsInv' /\ LivingInv'
    BY <2>1, <2>4, <2>5, <2>6, Parts DEF IndexInv, ArgsInv, LivingInv, Stopping, Stopped
  <2>8. FreeInv'
    BY <1>2, <2>1, <2>4, <2>5, <2>6, Parts DEF FreeInv
  <2>9. QED
    BY <2>2, <2>3, <2>7, <2>8 DEF IInv
<1>3. QED
  BY <1>1, <1>2

\* A thread is told to end.
LEMMA KillStep == ASSUME IInv, KillThread PROVE IInv'
<1>1. /\ UNCHANGED <<tool, initialises, executes, args, m_threadnum, m_freethreads, i, lastfree, finalising,
                     pc, ThreadName, busy, message>>
      /\ mpc = "kill" /\ mpc' = "join"
  BY DEF KillThread, toolVars
<1>2. i \in DOMAIN args /\ args[i] \in Threads
  BY <1>1, Parts DEF IndexInv
<1>3. \/ UNCHANGED <<running, kill>> /\ pc[args[i]] = "unborn"
      \/ running' = [running EXCEPT ![args[i]] = FALSE] /\ kill' = [kill EXCEPT ![args[i]] = TRUE]
  BY DEF KillThread, flagVars
<1>4. TypeOK'
  BY <1>1, <1>2, <1>3, Parts DEF TypeOK, ToolPcs
<1>5. /\ \A v \in Threads : (running[v] \/ kill[v]) => (running'[v] \/ kill'[v])
      /\ \A v \in Threads : v # args[i] => kill'[v] = kill[v]
  BY <1>2, <1>3, Parts DEF TypeOK
<1>6. ThreadInv'
  BY <1>1, <1>5, Parts DEF ThreadInv, Serving
<1>7. IndexInv' /\ LivingInv' /\ FreeInv'
  BY <1>1, Parts DEF IndexInv, LivingInv, FreeInv, Stopping
<1>8. ArgsInv'
  BY <1>1, <1>2, <1>5, Parts DEF ArgsInv, Stopped, Stopping
<1>9. QED
  BY <1>4, <1>6, <1>7, <1>8 DEF IInv

\* A thread has ended, and the tool without args of its own for it goes on.
LEMMA JoinStep == ASSUME IInv, Joined PROVE IInv'
<1>1. /\ UNCHANGED <<tool, initialises, executes, m_threadnum, m_freethreads, i, finalising, ThreadName,
                     running, kill, busy, message>>
      /\ mpc = "join" /\ pc[args[i]] \in {"unborn", "exited"}
      /\ pc' = [pc EXCEPT ![args[i]] = IF tool = "multi" THEN "exited" ELSE "unborn"]
      /\ IF finalising THEN mpc' = "finalise" /\ lastfree' = lastfree + 1
                       ELSE mpc' = "ready" /\ lastfree' = lastfree
  BY DEF Joined, toolVars, flagVars
<1>2. i \in DOMAIN args /\ args[i] \in Threads
  BY <1>1, Parts DEF IndexInv
<1>3. /\ pc' \in [Threads -> ThreadPcs]
      /\ pc'[args[i]] \in {"unborn", "exited"} /\ (tool = "multi" => pc'[args[i]] = "exited")
      /\ \A v \in Threads : v # args[i] => pc'[v] = pc[v]
  BY <1>1, <1>2, Parts DEF TypeOK, ThreadPcs
<1>4. ThreadInv'
  BY <1>1, <1>3, Parts DEF ThreadInv, Serving
<1>5. CASE tool = "multi"
  <2>1. args' = args /\ finalising /\ i = lastfree
    BY <1>1, <1>5, Parts DEF Joined, IndexInv
  <2>2. TypeOK'
    BY <1>1, <1>3, <2>1, Parts DEF TypeOK, ToolPcs
  <2>3. IndexInv' /\ FreeInv'
    BY <1>1, <1>5, <2>1, Parts DEF IndexInv, FreeInv, Stopping
  <2>4. ArgsInv'
    BY <1>1, <1>2, <1>3, <1>5, <2>1, Parts DEF ArgsInv, Stopped, Stopping
  <2>5. LivingInv'
    BY <1>1, <1>3, <2>1, Parts DEF LivingInv, Living
  <2>6. QED
    BY <1>4, <2>2, <2>3, <2>4, <2>5 DEF IInv
<1>6. CASE tool # "multi"
  <2>1. /\ args' \in Seq(Threads) /\ Len(args') = Len(args) - 1 /\ DOMAIN args' = 1..(Len(args) - 1)
        /\ \A k \in 1..(Len(args) - 1) : args'[k] = IF k < i THEN args[k] ELSE args[k + 1]
    <3>1. args' = RemoveAt(args, i) /\ args \in Seq(Threads) /\ i \in 1..Len(args)
      BY <1>2, <1>6, Parts DEF Joined, TypeOK
    <3>2. QED
      BY <3>1, RemoveFacts
  <2>2. \A k \in DOMAIN args' : \E a \in DOMAIN args : a # i /\ args'[k] = args[a] /\ args[a] # args[i]
    <3>1. \A a, b \in DOMAIN args : args[a] = args[b] => a = b
      BY Parts DEF ArgsInv
    <3>2. ASSUME NEW k \in DOMAIN args' PROVE \E a \in DOMAIN args : a # i /\ args'[k] = args[a]
      <4>1. CASE k < i
        BY <1>2, <2>1, <4>1, Parts
      <4>2. CASE ~(k < i)
        BY <1>2, <2>1, <4>2, Parts
      <4>3. QED
        BY <4>1, <4>2
    <3>3. QED
      BY <1>2, <3>1, <3>2
  <2>3. \A a \in DOMAIN args : a # i => \E k \in DOMAIN args' : args'[k] = args[a]
    <3>1. ASSUME NEW a \in DOMAIN args, a # i PROVE \E k \in DOMAIN args' : args'[k] = args[a]
      <4>1. CASE a < i
        BY <1>2, <2>1, <4>1, Parts
      <4>2. CASE a > i
        <5>1. a - 1 \in 1..(Len(args) - 1) /\ ~(a - 1 < i) /\ (a - 1) + 1 = a
          BY <1>2, <4>2, Parts
        <5>2. QED
          BY <2>1, <5>1
      <4>3. QED
        BY <1>2, <3>1, <4>1, <4>2, Parts
    <3>2. QED
      BY <3>1
  <2>4. TypeOK'
    BY <1>1, <1>3, <2>1, Parts DEF TypeOK, ToolPcs
  <2>5. IndexInv'
    BY <1>1, <1>2, <1>6, <2>1, <2>4, Parts DEF IndexInv, Stopping, TypeOK
  <2>6. ArgsInv'
    <3>1. \A a, b \in DOMAIN args' : args'[a] = args'[b] => a = b
      <4> DEFINE Old(k) == IF k < i THEN k ELSE k + 1
      <4>1. \A k \in DOMAIN args' : Old(k) \in DOMAIN args /\ args'[k] = args[Old(k)]
        BY <1>2, <2>1, Parts
      <4>2. \A a, b \in DOMAIN args' : Old(a) = Old(b) => a = b
        BY <1>2, <2>1, Parts
      <4>3. \A a, b \in DOMAIN args : args[a] = args[b] => a = b
        BY Parts DEF ArgsInv
      <4> HIDE DEF Old
      <4>4. QED
        BY <4>1, <4>2, <4>3
    <3>2. \A k \in DOMAIN args' : ThreadName'[args'[k]] < m_threadnum'
      BY <1>1, <2>2, Parts DEF ArgsInv
    <3>3. \A k \in DOMAIN args' : pc'[args'[k]] \in Living /\ ~kill'[args'[k]]
      BY <1>1, <1>3, <1>6, <2>2, Parts DEF ArgsInv, Stopped
    <3>4. QED
      BY <1>1, <1>6, <3>1, <3>2, <3>3 DEF ArgsInv
  <2>7. LivingInv'
    BY <1>1, <1>2, <1>3, <2>3, Parts DEF LivingInv, Living
  <2>8. FreeInv'
    <3>1. ~finalising => \E k \in DOMAIN args' : ~busy[args'[k]]
      BY <1>1, <2>3, Parts DEF FreeInv
    <3>2. QED
      BY <1>1, <3>1 DEF FreeInv
  <2>9. QED
    BY <1>4, <2>4, <2>5, <2>6, <2>7, <2>8 DEF IInv
<1>7. QED
  BY <1>5, <1>6

\* Every step keeps the invariant.
LEMMA Inductive == ASSUME ThreadedToolAssumption, IInv, [Next]_vars PROVE IInv'
<1>1. CASE UNCHANGED vars
  <2>1. UNCHANGED <<tool, initialises, executes, args, m_freethreads, m_threadnum, mpc, i, lastfree,
                    finalising, pc, ThreadName, running, kill, busy, message>>
    BY <1>1 DEF vars, toolVars, mainVars, threadVars, flagVars
  <2>2. TypeOK' /\ ThreadInv' /\ IndexInv'
    BY <2>1, Parts DEF TypeOK, ThreadInv, Serving, IndexInv
  <2>3. ArgsInv' /\ LivingInv' /\ FreeInv'
    BY <2>1, Parts DEF ArgsInv, Stopped, LivingInv, FreeInv
  <2>4. QED
    BY <2>2, <2>3 DEF IInv
<1>2. ASSUME NEW w \in Threads, Thread(w) PROVE IInv'
  BY <1>2, ThreadStep
<1>3. CASE StartInitialise \/ InitialiseEnd \/ StartExecute \/ StartFinalise \/ FinaliseNext \/ FinaliseEnd
  BY <1>3, CallStep
<1>4. CASE Find \/ ReadReply \/ WriteRequest \/ Give \/ CountFree
  BY <1>4, ExecuteStep
<1>5. CASE InitialiseThread
  BY <1>5, CreateStep DEF InitialiseThread
<1>6. CASE ExecuteEnd
  BY <1>6, ExecuteEndStep
<1>7. CASE KillThread \/ Joined
  BY <1>7, KillStep, JoinStep
<1>8. QED
  BY <1>1, <1>2, <1>3, <1>4, <1>5, <1>6, <1>7 DEF Next, Tool

\* The invariant gives the properties that the runs check.
LEMMA Consequences ==
    ASSUME IInv
    PROVE  MessageHasOneUser /\ NoRequestLost /\ SpareThread /\ ThreadsAreInArgs /\ FinaliseStopsThreads
<1>1. MessageHasOneUser
  BY Parts DEF MessageHasOneUser, Serving, ThreadInv, IndexInv
<1>2. NoRequestLost
  <2>1. ASSUME ~finalising, NEW k \in DOMAIN args, kill[args[k]] \/ pc[args[k]] = "unborn"
        PROVE  ~busy[args[k]]
    BY <2>1, Parts DEF ArgsInv, Stopped, FreeInv, Living
  <2>2. \A w \in ToSet(args) : \E k \in DOMAIN args : args[k] = w
    BY DEF ToSet
  <2>3. QED
    BY <2>1, <2>2 DEF NoRequestLost
<1>3. ASSUME mpc = "ready", NEW k \in DOMAIN args
      PROVE  pc[args[k]] \in Living /\ ~kill[args[k]] /\ args[k] \in Threads
  BY <1>3, Parts DEF ArgsInv, Stopped, Stopping
<1>4. SpareThread
  <2>1. SUFFICES ASSUME tool = "dynamic", mpc = "ready"
                 PROVE  \E w \in ToSet(args) : ~busy[w] /\ running[w] /\ ~kill[w] /\ pc[w] \in Living
    BY DEF SpareThread, Living
  <2>2. PICK k \in DOMAIN args : ~busy[args[k]]
    BY <2>1, Parts DEF FreeInv
  <2>3. pc[args[k]] \in Living /\ ~kill[args[k]] /\ running[args[k]]
    BY <1>3, <2>1, <2>2, Parts DEF ThreadInv, Living
  <2>4. args[k] \in ToSet(args)
    BY DEF ToSet
  <2>5. QED
    BY <2>2, <2>3, <2>4
<1>5. ThreadsAreInArgs
  <2>1. IsInjective(args)
    BY Parts DEF ArgsInv, IsInjective
  <2>2. \A w \in ToSet(args) : \E k \in DOMAIN args : args[k] = w
    BY DEF ToSet
  <2>3. QED
    BY <1>3, <2>1, <2>2 DEF ThreadsAreInArgs, Living
<1>6. FinaliseStopsThreads
  <2>1. mpc = "none" => DOMAIN args = {}
    BY Parts DEF IndexInv
  <2>2. \A w \in Threads : pc[w] \in Living \cup {"unborn", "exited"}
    BY Parts DEF TypeOK, ThreadPcs, Living
  <2>3. QED
    BY <2>1, <2>2, Parts DEF FinaliseStopsThreads, LivingInv
<1>7. QED
  BY <1>1, <1>2, <1>4, <1>5, <1>6

-----------------------------------------------------------------------------
(* Theorems *)

LEMMA Invariant == ASSUME ThreadedToolAssumption PROVE Spec => []IInv
<1>1. Init => IInv
  BY InitInvariant
<1>2. IInv /\ [Next]_vars => IInv'
  BY Inductive
<1>3. QED
  BY <1>1, <1>2, PTL DEF Spec

\* Every reachable state of the tools and their threads is type correct.
THEOREM TypeCorrect == ASSUME ThreadedToolAssumption PROVE Spec => []TypeOK
<1>1. IInv => TypeOK
  BY DEF IInv
<1>2. QED
  BY <1>1, Invariant, PTL

\* The tool and a thread never use a message at the same time, for any number of
\* threads, although nothing but a plain bool hands it over.
THEOREM MessagesHaveOneUser == ASSUME ThreadedToolAssumption PROVE Spec => []MessageHasOneUser
<1>1. IInv => MessageHasOneUser
  BY Consequences
<1>2. QED
  BY <1>1, Invariant, PTL

\* Shrinking never stops a thread that has a request.
THEOREM RequestsAreKept == ASSUME ThreadedToolAssumption PROVE Spec => []NoRequestLost
<1>1. IInv => NoRequestLost
  BY Consequences
<1>2. QED
  BY <1>1, Invariant, PTL

\* The dynamic tool has a free and listening thread whenever Execute has returned.
THEOREM OneThreadIsSpare == ASSUME ThreadedToolAssumption PROVE Spec => []SpareThread
<1>1. IInv => SpareThread
  BY Consequences
<1>2. QED
  BY <1>1, Invariant, PTL

\* Growing and shrinking keep the entries of args and the threads in step.
THEOREM ArgsAndThreadsAgree == ASSUME ThreadedToolAssumption PROVE Spec => []ThreadsAreInArgs
<1>1. IInv => ThreadsAreInArgs
  BY Consequences
<1>2. QED
  BY <1>1, Invariant, PTL

\* The tools with one thread and with a fixed number of them leave none behind.
THEOREM ThreadsAreStopped == ASSUME ThreadedToolAssumption PROVE Spec => []FinaliseStopsThreads
<1>1. IInv => FinaliseStopsThreads
  BY Consequences
<1>2. QED
  BY <1>1, Invariant, PTL
=============================================================================
