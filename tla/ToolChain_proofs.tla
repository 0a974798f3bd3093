---------------------------- MODULE ToolChain_proofs ----------------------------
(***************************************************************************)
(* Proofs about the tool chain and its command loop, for any number of     *)
(* tools, any error levels and run modes, and any number of commands: the  *)
(* types, the life cycle of the tools, the recovery, the loop flag, and    *)
(* the order of the commands.                                              *)
(***************************************************************************)
EXTENDS ToolChainProperties, TLAPS

-----------------------------------------------------------------------------
(* The inductive invariant *)

\* A call is made in the state its operation wants, and returns to a place.
CallInv ==
    /\ call.op = "none" => call = NoCall
    /\ call.op # "none" =>
         call.tool >= 1 /\ call.then \in Places /\ at \notin {"exited", "destroyed"}
    /\ Initialised = ~Finalised
    /\ call.op = "Initialise" => ~Initialised
    /\ call.op \in {"Execute", "Finalise"} => Initialised
    /\ at = "fetch" => call.op = "none"

\* Only a chain with a number of passes, or the endless loop, executes by itself.
InlineInv ==
    at \in {"inline", "executed"} \/ call.then \in {"inline", "executed"}
       => m_inline = -1 \/ m_inline > 0

\* The tools are where the chain's thread is.
LifeInv == at \notin {"exited", "destroyed"} => Ready = ShouldBeReady

\* A recovery finalises, and no error can end it.
RecoverInv ==
    /\ call.then = "exited" => call.op = "Finalise" /\ m_errorlevel = 0
    /\ call.op = "Finalise" => \A t \in 1..(call.tool - 1) : tools[t] = "Finalise"

\* Between the two halves of Restart the chain may be looping and not initialised.
LoopPlaces == {"created", "loop", "fetch", "command", "started", "tail", "test", "wipe", "lower",
               "idle", "join"}

LoopInv ==
    /\ exeloop /\ call = NoCall /\ at \in LoopPlaces => Initialised
    /\ exeloop /\ call.op = "Finalise" => call.then \notin LoopPlaces
    /\ call = NoCall /\ at = "started" => Initialised
    /\ call.then = "started" => call.op = "Initialise"

\* Only between its fetch and its wipe may the command be the one in cmd.
HasFetched == {"command", "started", "restarting", "tail", "test", "wipe", "exited"}
NewCommand == command.word = "empty" \/ command.nr > cmd.nr

OrderInv ==
    /\ command.nr <= typed /\ cmd.nr <= typed
    /\ at \in HasFetched \/ NewCommand
    /\ call.op # "none" => call.then \in HasFetched \/ NewCommand

IInv == TypeOK /\ CallInv /\ InlineInv /\ LifeInv /\ RecoverInv /\ LoopInv /\ OrderInv

-----------------------------------------------------------------------------
(* Types of calls *)

CallType == [op : Operations \cup {"none"}, tool : 0..(NumTools + 1), left : Nat,
             result : 0..2, then : Places \cup {"none"}]

\* The fields of a call.
LEMMA Fields ==
    ASSUME IInv
    PROVE  /\ call \in CallType
           /\ call.op \in Operations \cup {"none"} /\ call.tool \in 0..(NumTools + 1)
           /\ call.left \in Nat /\ call.result \in 0..2 /\ call.then \in Places \cup {"none"}
  BY DEF IInv, TypeOK, CallType

\* The results of an operation.
LEMMA ResultType ==
    ASSUME IInv, NEW o \in Outcomes
    PROVE  ResultAfter(o) \in 0..2 /\ AsBool(ResultAfter(o)) \in 0..2
  BY Fields DEF Outcomes, ResultAfter, Code, AsBool

\* The next tool of an operation.
LEMMA NextTool ==
    ASSUME NumTools \in Nat, call \in CallType, call.tool \in 1..NumTools, NEW r \in 0..2,
           call' = [call EXCEPT !.tool = @ + 1, !.result = r]
    PROVE  /\ call' \in CallType
           /\ call'.op = call.op /\ call'.tool = call.tool + 1 /\ call'.left = call.left
           /\ call'.result = r /\ call'.then = call.then
<1>1. PICK n \in 0..(NumTools + 1) : n = call.tool + 1
  OBVIOUS
<1>2. call' = [call EXCEPT !.tool = n, !.result = r]
  BY <1>1
<1>3. call' \in CallType
  BY <1>2 DEF CallType
<1>4. /\ call'.op = call.op /\ call'.tool = n /\ call'.left = call.left
      /\ call'.result = r /\ call'.then = call.then
  BY <1>2 DEF CallType
<1>5. QED
  BY <1>1, <1>3, <1>4

\* The next pass of Execute.
LEMMA NextRound ==
    ASSUME NumTools \in Nat, call \in CallType, call.left > 0,
           call' = [call EXCEPT !.tool = 1, !.left = @ - 1]
    PROVE  /\ call' \in CallType
           /\ call'.op = call.op /\ call'.tool = 1 /\ call'.left = call.left - 1
           /\ call'.result = call.result /\ call'.then = call.then
<1>1. PICK n \in Nat : n = call.left - 1
  BY DEF CallType
<1>2. call' = [call EXCEPT !.tool = 1, !.left = n] /\ 1 \in 0..(NumTools + 1)
  BY <1>1
<1>3. call' \in CallType
  BY <1>2 DEF CallType
<1>4. /\ call'.op = call.op /\ call'.tool = 1 /\ call'.left = n
      /\ call'.result = call.result /\ call'.then = call.then
  BY <1>2 DEF CallType
<1>5. QED
  BY <1>1, <1>3, <1>4

\* No call.
LEMMA NoCallFields ==
    ASSUME NumTools \in Nat
    PROVE  /\ NoCall \in CallType
           /\ NoCall.op = "none" /\ NoCall.tool = 0 /\ NoCall.then = "none"
  BY DEF NoCall, CallType

\* A new call.
LEMMA NewCall ==
    ASSUME NumTools \in Nat, NEW o \in Operations, NEW n \in Nat, NEW p \in Places,
           NEW d, d = [op |-> o, tool |-> 1, left |-> n, result |-> 0, then |-> p]
    PROVE  d \in CallType /\ d.op = o /\ d.tool = 1 /\ d.left = n /\ d.then = p
  BY DEF CallType

-----------------------------------------------------------------------------
(* The invariant is inductive *)

\* What the constructor leaves.
LEMMA InitInvariant == ASSUME ChainAssumption, InteractiveAssumption, Init PROVE IInv
<1>1. /\ call = NoCall /\ call \in CallType /\ call.op = "none" /\ call.then = "none"
      /\ NumTools \in Nat /\ MaxTyped \in Nat
  BY NoCallFields DEF Init, ChainInit, ChainAssumption, InteractiveAssumption
<1>2. command \in Words /\ cmd \in Words /\ command.nr = 0 /\ cmd.nr = 0 /\ command.word = "empty"
  BY <1>1 DEF Init, NoCommand, Words
<1>3. TypeOK
  <2>1. /\ Initialised \in BOOLEAN /\ Finalised \in BOOLEAN /\ paused \in BOOLEAN
        /\ Skip \in BOOLEAN /\ StopLoop \in BOOLEAN
    BY DEF Init, ChainInit
  <2>9. m_recover \in BOOLEAN /\ m_inline \in Inlines
    BY DEF Init, ChainInit
  <2>10. execounter \in 0..1 /\ ret \in -1..2
    BY DEF Init, ChainInit
  <2>2. m_errorlevel \in 0..2
    BY DEF Init, ChainInit, ChainAssumption
  <2>3. tools \in [ToolSet -> Operations \cup {"added", "deleted"}]
    BY DEF Init, ChainInit
  <2>4. at \in Places
    BY DEF Init, ChainInit, Places
  <2>5. exeloop \in BOOLEAN /\ msgflag \in BOOLEAN /\ running \in BOOLEAN
    BY DEF Init
  <2>6. typed \in 0..MaxTyped
    BY <1>1 DEF Init
  <2>7. reader \in {"none", "reading", "flagging", "testing", "ended"}
    BY DEF Init
  <2>8. QED
    BY <1>1, <1>2, <2>1, <2>2, <2>3, <2>4, <2>5, <2>6, <2>7, <2>9, <2>10 DEF TypeOK, CallType
<1>4. CallInv /\ InlineInv /\ RecoverInv /\ LoopInv
  BY <1>1 DEF Init, ChainInit, CallInv, InlineInv, RecoverInv, LoopInv, LoopPlaces
<1>5. LifeInv
  BY <1>1 DEF Init, ChainInit, LifeInv, Ready, ShouldBeReady
<1>6. OrderInv
  BY <1>1, <1>2 DEF Init, ChainInit, OrderInv, NewCommand
<1>7. QED
  BY <1>3, <1>4, <1>5, <1>6 DEF IInv

\* The tool of the call is called, and its outcome does not end the program.
LEMMA ToolStep ==
    ASSUME ChainAssumption, InteractiveAssumption, IInv, NEW o \in Outcomes,
           UNCHANGED <<inputVars, commandVars, configVars>>,
           InitialiseTool(o) \/ ExecuteTool(o) \/ FinaliseTool(o)
    PROVE  IInv'
<1>0. /\ NumTools \in Nat /\ TypeOK /\ CallInv /\ InlineInv
      /\ LifeInv /\ RecoverInv /\ LoopInv /\ OrderInv
  BY DEF ChainAssumption, IInv
<1>1. /\ UNCHANGED <<statusVars, inputVars, commandVars, configVars>>
      /\ call.op \in Operations /\ call.tool \in 1..NumTools
      /\ tools' = [tools EXCEPT ![call.tool] = call.op]
      /\ Skip' \in BOOLEAN /\ StopLoop' \in BOOLEAN
      /\ m_errorlevel' = m_errorlevel \/ m_errorlevel' = 0
  BY <1>0 DEF InitialiseTool, ExecuteTool, FinaliseTool, InTool, ToolSet, Operations,
         TypeOK, IgnoreErrors
<1>2. \/ call' = NoCall /\ at' = "exited" /\ ret' = ret /\ m_errorlevel' = m_errorlevel
      \/ /\ call.op = "Execute" /\ m_errorlevel' = 0 /\ UNCHANGED <<at, ret>>
         /\ call' = [op |-> "Finalise", tool |-> 1, left |-> 1, result |-> 0, then |-> "exited"]
      \/ /\ \E r \in 0..2 : call' = [call EXCEPT !.tool = @ + 1, !.result = r]
         /\ UNCHANGED <<at, ret, m_errorlevel>>
  <2>0. ResultAfter(o) \in 0..2 /\ AsBool(ResultAfter(o)) \in 0..2
    BY ResultType
  <2>1. CASE InitialiseTool(o)
    BY <2>0, <2>1 DEF InitialiseTool, exit
  <2>2. CASE ExecuteTool(o)
    BY <2>0, <2>2 DEF ExecuteTool, exit, Begin, IgnoreErrors, InTool
  <2>3. CASE FinaliseTool(o)
    BY <2>0, <2>3 DEF FinaliseTool, exit
  <2>4. QED
    BY <2>1, <2>2, <2>3
<1> USE DEF statusVars, inputVars, commandVars, configVars
<1>3. tools' \in [ToolSet -> Operations \cup {"added", "deleted"}]
  BY <1>0, <1>1 DEF TypeOK
<1>4. CASE call' = NoCall /\ at' = "exited" /\ ret' = ret /\ m_errorlevel' = m_errorlevel
  <2>1. TypeOK'
    BY <1>0, <1>1, <1>3, <1>4, NoCallFields DEF TypeOK, CallType, Places
  <2>2. CallInv' /\ InlineInv' /\ LifeInv' /\ RecoverInv' /\ LoopInv'
    BY <1>0, <1>1, <1>4, NoCallFields DEF CallInv, InlineInv, LifeInv, RecoverInv,
       LoopInv, LoopPlaces
  <2>3. OrderInv'
    BY <1>0, <1>1, <1>4, NoCallFields DEF OrderInv, HasFetched
  <2>4. QED
    BY <2>1, <2>2, <2>3 DEF IInv
<1>5. CASE /\ call.op = "Execute" /\ m_errorlevel' = 0 /\ UNCHANGED <<at, ret>>
           /\ call' = [op |-> "Finalise", tool |-> 1, left |-> 1, result |-> 0, then |-> "exited"]
  <2>1. call' \in CallType /\ call'.op = "Finalise" /\ call'.tool = 1 /\ call'.then = "exited"
    BY <1>0, <1>5, NewCall DEF Operations, Places
  <2>2. TypeOK'
    BY <1>0, <1>1, <1>3, <1>5, <2>1 DEF TypeOK, CallType
  <2>3. CallInv' /\ InlineInv' /\ RecoverInv' /\ LoopInv'
    BY <1>0, <1>1, <1>5, <2>1, NoCallFields DEF CallInv, InlineInv, RecoverInv,
       LoopInv, LoopPlaces, Places
  <2>4. LifeInv'
    <3>1. call.op \notin {"Initialise", "Finalise"} /\ Initialised /\ at \notin {"exited", "destroyed"}
      BY <1>0, <1>5 DEF CallInv
    <3>2. Ready = ToolSet
      BY <1>0, <3>1 DEF LifeInv, ShouldBeReady
    <3>3. Ready' = ToolSet
      BY <1>0, <1>1, <1>5, <3>2 DEF Ready, TypeOK
    <3>4. ShouldBeReady' = ToolSet
      BY <2>1 DEF ShouldBeReady, ToolSet
    <3>5. QED
      BY <3>3, <3>4 DEF LifeInv
  <2>5. OrderInv'
    BY <1>0, <1>1, <1>5, <2>1 DEF OrderInv, HasFetched, NewCommand
  <2>6. QED
    BY <2>2, <2>3, <2>4, <2>5 DEF IInv
<1>6. CASE /\ \E r \in 0..2 : call' = [call EXCEPT !.tool = @ + 1, !.result = r]
           /\ UNCHANGED <<at, ret, m_errorlevel>>
  <2>1. call' \in CallType /\ call'.op = call.op /\ call'.tool = call.tool + 1 /\ call'.then = call.then
    <3>1. PICK r \in 0..2 : call' = [call EXCEPT !.tool = @ + 1, !.result = r]
      BY <1>6
    <3>2. call \in CallType
      BY Fields
    <3>3. QED
      BY <1>0, <1>1, <3>1, <3>2, NextTool
  <2>2. TypeOK'
    BY <1>0, <1>1, <1>3, <1>6, <2>1 DEF TypeOK, CallType
  <2>3. CallInv' /\ InlineInv' /\ LoopInv'
    <3>0. call # NoCall /\ call' # NoCall
      BY <1>0, <1>1, <2>1, NoCallFields DEF Operations
    <3>1. call # NoCall /\ call' # NoCall /\ call'.tool >= 1 /\ UNCHANGED at
      BY <3>0, <1>0, <1>1, <1>6, <2>1
    <3>2. CallInv'
      BY <1>0, <1>1, <2>1, <3>1 DEF CallInv, Operations
    <3>3. InlineInv'
      BY <1>0, <1>1, <2>1, <3>1 DEF InlineInv
    <3>4. LoopInv'
      BY <1>0, <1>1, <2>1, <3>1 DEF LoopInv, LoopPlaces
    <3>5. QED
      BY <3>2, <3>3, <3>4
  <2>4. LifeInv'
    <3>1. \A t \in ToolSet : tools'[t] = IF t = call.tool THEN call.op ELSE tools[t]
      BY <1>0, <1>1 DEF TypeOK
    <3>2. at' \notin {"exited", "destroyed"} => Ready = ShouldBeReady
      BY <1>0, <1>6 DEF LifeInv
    <3>3. CASE call.op = "Initialise"
      BY <1>0, <1>1, <2>1, <3>1, <3>2, <3>3 DEF LifeInv, Ready, ShouldBeReady, ToolSet
    <3>4. CASE call.op = "Finalise"
      BY <1>0, <1>1, <2>1, <3>1, <3>2, <3>4 DEF LifeInv, Ready, ShouldBeReady, ToolSet
    <3>5. CASE call.op = "Execute"
      BY <1>0, <1>1, <2>1, <3>1, <3>2, <3>5 DEF LifeInv, Ready, ShouldBeReady, ToolSet, CallInv
    <3>6. QED
      BY <1>1, <3>3, <3>4, <3>5 DEF Operations
  <2>5. RecoverInv'
    <3>1. \A t \in ToolSet : tools'[t] = IF t = call.tool THEN call.op ELSE tools[t]
      BY <1>0, <1>1 DEF TypeOK
    <3>2. QED
      BY <1>0, <1>1, <1>6, <2>1, <3>1 DEF RecoverInv, ToolSet
  <2>6. OrderInv'
    BY <1>0, <1>1, <1>6, <2>1 DEF OrderInv, NewCommand
  <2>7. QED
    BY <2>2, <2>3, <2>4, <2>5, <2>6 DEF IInv
<1>7. QED
  BY <1>2, <1>4, <1>5, <1>6

\* An operation is done, and returns.
LEMMA EndStep ==
    ASSUME ChainAssumption, IInv, UNCHANGED <<inputVars, commandVars, configVars>>,
           InitialiseEnd \/ ExecuteEnd \/ FinaliseEnd
    PROVE  IInv'
<1>0. /\ NumTools \in Nat /\ TypeOK /\ CallInv /\ InlineInv
      /\ LifeInv /\ RecoverInv /\ LoopInv /\ OrderInv
  BY DEF ChainAssumption, IInv
<1> USE DEF statusVars, inputVars, commandVars, configVars
<1>1. /\ call.op \in Operations /\ call' = NoCall /\ at' = call.then /\ ret' = call.result
      /\ UNCHANGED <<m_errorlevel, StopLoop, tools>> /\ Skip' = Skip
      /\ paused' \in BOOLEAN /\ execounter' \in 0..1
  <2>0. paused \in BOOLEAN /\ execounter \in 0..1 /\ FALSE \in BOOLEAN /\ 0 \in 0..1 /\ 1 \in 0..1
    BY <1>0 DEF TypeOK
  <2>1. CASE InitialiseEnd
    BY <2>0, <2>1 DEF InitialiseEnd, PastTools, Return, Operations
  <2>2. CASE ExecuteEnd
    BY <2>0, <2>2 DEF ExecuteEnd, Return, Operations
  <2>3. CASE FinaliseEnd
    BY <2>0, <2>3 DEF FinaliseEnd, PastTools, Return, Operations
  <2>4. QED
    BY <2>1, <2>2, <2>3
<1>2. /\ Initialised' \in BOOLEAN /\ Finalised' \in BOOLEAN /\ Initialised' = ~Finalised'
      /\ Initialised' = (call.op # "Finalise")
  BY <1>0 DEF InitialiseEnd, ExecuteEnd, FinaliseEnd, PastTools, CallInv, TypeOK
<1>3. call.then \in Places /\ at \notin {"exited", "destroyed"} /\ call.result \in -1..2
  BY <1>0, <1>1, Fields DEF CallInv, Operations
<1>4. TypeOK'
  BY <1>0, <1>1, <1>2, <1>3, NoCallFields DEF TypeOK, CallType
<1>5. CallInv' /\ InlineInv' /\ RecoverInv' /\ LoopInv'
  <2>1. CallInv' /\ InlineInv' /\ RecoverInv'
    BY <1>0, <1>1, <1>2, NoCallFields DEF CallInv, InlineInv, RecoverInv
  <2>2. LoopInv'
    BY <1>0, <1>1, <1>2, NoCallFields DEF LoopInv
  <2>3. QED
    BY <2>1, <2>2
<1>6. LifeInv'
  <2>1. Ready' = Ready /\ Ready = ShouldBeReady
    BY <1>0, <1>1, <1>3 DEF LifeInv, Ready
  <2>2. ShouldBeReady' = IF Initialised' THEN ToolSet ELSE {}
    BY <1>0, <1>1, NoCallFields DEF ShouldBeReady
  <2>3. CASE InitialiseEnd
    BY <1>0, <1>2, <2>1, <2>2, <2>3, Fields DEF LifeInv, ShouldBeReady, InitialiseEnd, PastTools, ToolSet
  <2>4. CASE FinaliseEnd
    <3>1. call.op = "Finalise" /\ call.tool > NumTools /\ call.tool \in 0..(NumTools + 1)
      BY <2>4, Fields DEF FinaliseEnd, PastTools
    <3>2. ShouldBeReady = call.tool..NumTools
      BY <3>1 DEF ShouldBeReady
    <3>3. ShouldBeReady = {}
      BY <1>0, <3>1, <3>2
    <3>4. QED
      BY <1>2, <2>1, <2>2, <3>1, <3>3 DEF LifeInv
  <2>5. CASE ExecuteEnd
    BY <1>0, <1>2, <2>1, <2>2, <2>5 DEF LifeInv, ShouldBeReady, ExecuteEnd, CallInv
  <2>6. QED
    BY <2>3, <2>4, <2>5
<1>7. OrderInv'
  BY <1>0, <1>1, NoCallFields DEF OrderInv, NewCommand, Operations
<1>8. QED
  BY <1>4, <1>5, <1>6, <1>7 DEF IInv

\* The next pass of Execute begins.
LEMMA PassStep ==
    ASSUME ChainAssumption, IInv, UNCHANGED <<inputVars, commandVars, configVars>>,
           ExecuteSkip \/ ExecutePass
    PROVE  IInv'
<1>0. /\ NumTools \in Nat /\ TypeOK /\ CallInv /\ InlineInv
      /\ LifeInv /\ RecoverInv /\ LoopInv /\ OrderInv
  BY DEF ChainAssumption, IInv
<1> USE DEF statusVars, inputVars, commandVars, configVars
<1>1. /\ call.op = "Execute" /\ call.left > 0
      /\ UNCHANGED <<statusVars, m_errorlevel, StopLoop, tools, at, ret>> /\ Skip' \in BOOLEAN
  BY <1>0 DEF ExecuteSkip, ExecutePass, PastTools, InTool, TypeOK
<1>2. /\ call' \in CallType /\ call'.op = "Execute" /\ call'.tool = 1 /\ call'.then = call.then
  <2>1. call' = [call EXCEPT !.tool = 1, !.left = @ - 1]
    BY DEF ExecuteSkip, ExecutePass, NextPass
  <2>2. QED
    BY <1>0, <1>1, <2>1, Fields, NextRound
<1>3. call # NoCall /\ call' # NoCall
  BY <1>0, <1>1, <1>2, NoCallFields
<1>4. TypeOK'
  BY <1>0, <1>1, <1>2 DEF TypeOK, CallType
<1>5. CallInv' /\ InlineInv' /\ RecoverInv'
  BY <1>0, <1>1, <1>2, <1>3 DEF CallInv, InlineInv, RecoverInv
<1>6. LifeInv'
  BY <1>0, <1>1, <1>2 DEF LifeInv, Ready, ShouldBeReady
<1>7. LoopInv' /\ OrderInv'
  BY <1>0, <1>1, <1>2, <1>3 DEF LoopInv, OrderInv, NewCommand
<1>8. QED
  BY <1>4, <1>5, <1>6, <1>7 DEF IInv

-----------------------------------------------------------------------------
(* Steps made outside the operations: they call one, or go to a place *)

Called(then) ==
    /\ call' \in CallType /\ call' # NoCall /\ at' = at /\ ret' = ret
    /\ call'.then = then /\ call'.tool = 1
    /\ \/ call'.op = "Initialise" /\ ~Initialised
       \/ call'.op \in {"Execute", "Finalise"} /\ Initialised

Returned(then) == call' = NoCall /\ at' = then /\ ret' \in -1..2

\* What a call of Initialise does.
LEMMA CallsInitialise ==
    ASSUME ChainAssumption, IInv, call = NoCall, NEW then \in Places, Initialise(then)
    PROVE  /\ Skip' \in BOOLEAN
           /\ \/ Called(then) /\ call'.op = "Initialise"
              \/ Returned(then) /\ Initialised
<1>1. NumTools \in Nat /\ Initialised = ~Finalised /\ Skip' \in BOOLEAN
  BY DEF ChainAssumption, IInv, CallInv, TypeOK, Initialise
<1>2. CASE Finalised
  <2>1. Begin("Initialise", 1, then)
    BY <1>2 DEF Initialise
  <2>2. /\ call' \in CallType /\ call'.op = "Initialise" /\ call'.tool = 1 /\ call'.then = then
        /\ UNCHANGED <<at, ret>>
    BY <1>1, <2>1, NewCall DEF Begin, Operations
  <2>3. call' # NoCall
    BY <1>1, <2>2, NoCallFields
  <2>4. QED
    BY <1>1, <1>2, <2>2, <2>3 DEF Called
<1>3. CASE ~Finalised
  <2>1. AsBool(-1) \in -1..2
    BY DEF AsBool
  <2>2. QED
    BY <1>1, <1>3, <2>1 DEF Initialise, Return, Returned
<1>4. QED
  BY <1>2, <1>3

\* What a call of Execute does.
LEMMA CallsExecute ==
    ASSUME ChainAssumption, IInv, call = NoCall, NEW then \in Places, NEW n \in Nat, Execute(n, then)
    PROVE  /\ Skip' \in BOOLEAN
           /\ \/ Called(then) /\ call'.op = "Execute"
              \/ Returned(then) /\ ~Initialised
<1>1. NumTools \in Nat /\ Initialised \in BOOLEAN /\ Skip' \in BOOLEAN
  BY DEF ChainAssumption, IInv, TypeOK, Execute
<1>2. CASE Initialised
  <2>1. Begin("Execute", n, then)
    BY <1>2 DEF Execute
  <2>2. /\ call' \in CallType /\ call'.op = "Execute" /\ call'.tool = 1 /\ call'.then = then
        /\ UNCHANGED <<at, ret>>
    BY <1>1, <2>1, NewCall DEF Begin, Operations
  <2>3. call' # NoCall
    BY <1>1, <2>2, NoCallFields
  <2>4. QED
    BY <1>1, <1>2, <2>2, <2>3 DEF Called
<1>3. CASE ~Initialised
  BY <1>1, <1>3 DEF Execute, Return, Returned
<1>4. QED
  BY <1>2, <1>3

\* What a call of Finalise does.
LEMMA CallsFinalise ==
    ASSUME ChainAssumption, IInv, call = NoCall, NEW then \in Places, Finalise(then)
    PROVE  /\ Skip' \in BOOLEAN
           /\ \/ Called(then) /\ call'.op = "Finalise"
              \/ Returned(then) /\ ~Initialised
<1>1. NumTools \in Nat /\ Initialised \in BOOLEAN /\ Skip' \in BOOLEAN
  BY DEF ChainAssumption, IInv, TypeOK, Finalise
<1>2. CASE Initialised
  <2>1. Begin("Finalise", 1, then)
    BY <1>2 DEF Finalise
  <2>2. /\ call' \in CallType /\ call'.op = "Finalise" /\ call'.tool = 1 /\ call'.then = then
        /\ UNCHANGED <<at, ret>>
    BY <1>1, <2>1, NewCall DEF Begin, Operations
  <2>3. call' # NoCall
    BY <1>1, <2>2, NoCallFields
  <2>4. QED
    BY <1>1, <1>2, <2>2, <2>3 DEF Called
<1>3. CASE ~Initialised
  BY <1>1, <1>3 DEF Finalise, Return, Returned
<1>4. QED
  BY <1>2, <1>3

\* A step that calls nothing.
LEMMA Goes ==
    ASSUME IInv, call = NoCall, NEW then \in Places, GoTo(then)
    PROVE  Returned(then) /\ Skip' \in BOOLEAN
  BY DEF GoTo, Returned, IInv, TypeOK

ChainTypes ==
    /\ Initialised \in BOOLEAN /\ Finalised \in BOOLEAN /\ paused \in BOOLEAN
    /\ execounter \in 0..1 /\ m_errorlevel \in 0..2 /\ m_recover \in BOOLEAN
    /\ m_inline \in Inlines /\ Skip \in BOOLEAN /\ StopLoop \in BOOLEAN
    /\ tools \in [ToolSet -> Operations \cup {"added", "deleted"}]
    /\ call \in CallType /\ at \in Places /\ ret \in -1..2

LoopTypes ==
    /\ exeloop \in BOOLEAN /\ command \in Words /\ msgflag \in BOOLEAN /\ cmd \in Words
    /\ running \in BOOLEAN /\ reader \in {"none", "reading", "flagging", "testing", "ended"}
    /\ typed \in 0..MaxTyped

\* The two halves of the type invariant.
LEMMA Types == TypeOK <=> ChainTypes /\ LoopTypes
  BY DEF TypeOK, ChainTypes, LoopTypes, CallType

\* Where the command loop goes on, the chain is as its places want it.
MayGoOn(then) ==
    /\ Returned(then) /\ then = "started" => Initialised
    /\ Returned(then) /\ exeloop' /\ then \in LoopPlaces => Initialised
    /\ Called(then) /\ call'.op = "Finalise" /\ exeloop' => then \notin LoopPlaces
    /\ Called(then) /\ then = "started" => call'.op = "Initialise"
    /\ Called(then) => at # "fetch"

\* The chain's part of the invariant, after a step outside the operations.
LEMMA OutsideStep ==
    ASSUME ChainAssumption, IInv, call = NoCall, at \notin {"exited", "destroyed"},
           NEW then \in Places \ {"exited", "destroyed"}, Called(then) \/ Returned(then),
           UNCHANGED <<tools, Initialised, Finalised, m_errorlevel, configVars>>,
           Skip' \in BOOLEAN, StopLoop' \in BOOLEAN, paused' \in BOOLEAN, execounter' \in 0..1,
           then \in {"inline", "executed"} => m_inline = -1 \/ m_inline > 0,
           MayGoOn(then)
    PROVE  ChainTypes' /\ CallInv' /\ InlineInv' /\ LifeInv' /\ RecoverInv' /\ LoopInv'
<1>0. /\ NumTools \in Nat /\ ChainTypes /\ CallInv /\ InlineInv /\ LifeInv
  BY Types DEF ChainAssumption, IInv
<1>1. NoCall \in CallType /\ NoCall.op = "none" /\ NoCall.then = "none" /\ call.op = "none"
  BY <1>0, NoCallFields
<1>2. at' \in {at, then} /\ at' \in Places /\ ret' \in -1..2 /\ call' \in CallType
  BY <1>0, <1>1 DEF Called, Returned, ChainTypes
<1>3. ChainTypes'
  BY <1>0, <1>2 DEF ChainTypes, configVars
<1>4. CallInv'
  BY <1>0, <1>1 DEF CallInv, Called, Returned, MayGoOn
<1>5. InlineInv'
  BY <1>0, <1>1 DEF InlineInv, Called, Returned, configVars
<1>6. LifeInv'
  <2>1. Ready' = IF Initialised THEN ToolSet ELSE {}
    BY <1>0, <1>1 DEF LifeInv, Ready, ShouldBeReady
  <2>2. CASE Returned(then)
    BY <1>1, <2>1, <2>2 DEF LifeInv, ShouldBeReady, Returned
  <2>3. CASE Called(then)
    <3>1. CASE call'.op = "Initialise"
      BY <1>0, <2>1, <2>3, <3>1 DEF LifeInv, ShouldBeReady, Called, ToolSet
    <3>2. CASE call'.op = "Finalise"
      BY <1>0, <2>1, <2>3, <3>2 DEF LifeInv, ShouldBeReady, Called, ToolSet
    <3>3. CASE call'.op = "Execute"
      BY <2>1, <2>3, <3>3 DEF LifeInv, ShouldBeReady, Called
    <3>4. QED
      BY <2>3, <3>1, <3>2, <3>3 DEF Called
  <2>4. QED
    BY <2>2, <2>3
<1>7. RecoverInv'
  BY <1>0, <1>1 DEF RecoverInv, Called, Returned
<1>8. LoopInv'
  <2>1. CASE Returned(then)
    BY <1>1, <2>1 DEF LoopInv, Returned, MayGoOn
  <2>2. CASE Called(then)
    BY <1>1, <2>2 DEF LoopInv, Called, MayGoOn
  <2>3. QED
    BY <2>1, <2>2
<1>9. QED
  BY <1>3, <1>4, <1>5, <1>6, <1>7, <1>8

\* Their order, when neither the command nor its copy changes.
LEMMA OrderKept ==
    ASSUME NumTools \in Nat, IInv, call = NoCall, NEW then, Called(then) \/ Returned(then),
           UNCHANGED <<command, cmd, typed>>, at \in HasFetched => then \in HasFetched
    PROVE  OrderInv'
  BY NoCallFields DEF IInv, OrderInv, NewCommand, Called, Returned

-----------------------------------------------------------------------------
(* The actions outside the operations *)

\* The constructor's last step.
LEMMA InlineStep ==
    ASSUME ChainAssumption, IInv, UNCHANGED <<inputVars, commandVars>>, Inline
    PROVE  IInv'
<1>0. /\ NumTools \in Nat /\ ChainTypes /\ LoopTypes /\ CallInv /\ InlineInv /\ LoopInv /\ OrderInv
  BY Types DEF ChainAssumption, IInv
<1> USE DEF At
<1>1. /\ call = NoCall /\ at \in {"constructed", "inline", "executed"}
      /\ UNCHANGED <<statusVars, m_errorlevel, configVars, tools>> /\ StopLoop' \in BOOLEAN
  BY <1>0 DEF Inline, InlineStart, InlineNothing, InlineExecute, InlineNext, ChainTypes
<1>2. \E then \in {"inline", "executed", "done"} :
         /\ Skip' \in BOOLEAN /\ (Called(then) \/ Returned(then))
         /\ then \in {"inline", "executed"} => m_inline = -1 \/ m_inline > 0
  <2> "inline" \in Places /\ "executed" \in Places /\ "done" \in Places
    BY DEF Places
  <2>1. CASE InlineStart
    BY <2>1, <1>1, CallsInitialise DEF InlineStart
  <2>2. CASE InlineNothing
    BY <2>2, <1>0, <1>1 DEF InlineNothing, Returned, ChainTypes
  <2>3. CASE InlineExecute
    <3>1. at = "inline" /\ (m_inline = -1 \/ m_inline > 0) /\ m_inline \in Int
      BY <2>3, <1>0 DEF InlineExecute, InlineInv, ChainAssumption, ChainTypes
    <3>2. PICK n \in Nat : n = IF m_inline = -1 THEN 1 ELSE m_inline
      BY <3>1
    <3>3. Execute(n, "executed")
      BY <2>3, <3>2 DEF InlineExecute
    <3>4. QED
      BY <1>1, <3>1, <3>3, CallsExecute
  <2>4. CASE InlineNext
    <3>1. m_inline = -1 \/ m_inline > 0
      BY <2>4, <1>0 DEF InlineNext, InlineInv
    <3>2. CASE EndOfLoop
      BY <2>4, <1>1, <3>2, CallsFinalise DEF InlineNext
    <3>3. CASE ~EndOfLoop
      BY <2>4, <1>0, <1>1, <3>1, <3>3 DEF InlineNext, Returned, ChainTypes
    <3>4. QED
      BY <3>2, <3>3
  <2>5. QED
    BY <2>1, <2>2, <2>3, <2>4 DEF Inline
<1>3. PICK then \in {"inline", "executed", "done"} :
         /\ Skip' \in BOOLEAN /\ (Called(then) \/ Returned(then))
         /\ then \in {"inline", "executed"} => m_inline = -1 \/ m_inline > 0
  BY <1>2
<1>4. /\ then \in Places \ {"exited", "destroyed"} /\ then \notin LoopPlaces /\ then # "started"
      /\ then \notin HasFetched /\ at \notin HasFetched /\ at \notin {"exited", "destroyed"}
  BY <1>1, <1>3 DEF Places, LoopPlaces, HasFetched
<1>5. UNCHANGED <<Initialised, Finalised>> /\ paused' \in BOOLEAN /\ execounter' \in 0..1
  BY <1>0, <1>1 DEF statusVars, ChainTypes
<1>6. ChainTypes' /\ CallInv' /\ InlineInv' /\ LifeInv' /\ RecoverInv' /\ LoopInv'
  <2>1. MayGoOn(then)
    BY <1>1, <1>4 DEF MayGoOn
  <2>2. QED
    BY <1>1, <1>3, <1>4, <1>5, <2>1, OutsideStep
<1>7. LoopTypes'
  BY <1>0 DEF LoopTypes, inputVars, commandVars
<1>8. OrderInv'
  BY <1>0, <1>1, <1>3, <1>4, OrderKept DEF inputVars, commandVars
<1>9. TypeOK'
  BY <1>6, <1>7, Types DEF TypeOK, ChainTypes, LoopTypes, CallType
<1>10. QED
  BY <1>6, <1>8, <1>9 DEF IInv

\* The destructor.
LEMMA DestroyStep ==
    ASSUME ChainAssumption, IInv, UNCHANGED <<inputVars, commandVars>>, Destroy
    PROVE  IInv'
<1>0. /\ NumTools \in Nat /\ TypeOK /\ CallInv /\ InlineInv /\ LoopInv /\ OrderInv /\ RecoverInv
  BY DEF ChainAssumption, IInv
<1>1. /\ call = NoCall /\ at = "done" /\ at' = "destroyed" /\ tools' = [t \in ToolSet |-> "deleted"]
      /\ UNCHANGED <<statusVars, m_errorlevel, configVars, Skip, StopLoop, call, ret,
                     inputVars, commandVars>>
  BY DEF Destroy, At
<1>2. TypeOK'
  BY <1>0, <1>1 DEF TypeOK, statusVars, configVars, inputVars, commandVars, Places
<1>3. CallInv' /\ InlineInv' /\ LifeInv'
  BY <1>0, <1>1, NoCallFields DEF CallInv, InlineInv, LifeInv, statusVars, configVars
<1>4. RecoverInv' /\ LoopInv'
  BY <1>0, <1>1, NoCallFields DEF RecoverInv, LoopInv, LoopPlaces, statusVars, commandVars
<1>5. OrderInv'
  BY <1>0, <1>1, NoCallFields DEF OrderInv, HasFetched, NewCommand, inputVars, commandVars
<1>6. QED
  BY <1>2, <1>3, <1>4, <1>5 DEF IInv

\* The thread that reads the commands.
LEMMA ReaderStep ==
    ASSUME InteractiveAssumption, IInv, InteractiveThread
    PROVE  IInv'
<1>0. /\ ChainTypes /\ LoopTypes /\ CallInv /\ InlineInv /\ LifeInv /\ RecoverInv /\ LoopInv /\ OrderInv
      /\ MaxTyped \in Nat
  BY Types DEF InteractiveAssumption, IInv
<1>1. UNCHANGED <<chainVars, commandVars>>
  BY DEF InteractiveThread
<1>2. CallInv' /\ InlineInv' /\ LifeInv' /\ RecoverInv' /\ LoopInv' /\ ChainTypes'
  BY <1>0, <1>1 DEF CallInv, InlineInv, LifeInv, Ready, ShouldBeReady, RecoverInv, LoopInv, ChainTypes,
                    chainVars, statusVars, configVars, commandVars
<1>3. LoopTypes' /\ OrderInv'
  <2>1. CASE \E word \in Commands : ReadCommand(word)
    <3>1. PICK word \in Commands : ReadCommand(word)
      BY <2>1
    <3>2. PICK n \in 0..MaxTyped : n = typed + 1
      BY <1>0, <3>1 DEF ReadCommand, LoopTypes
    <3>3. /\ typed' = n /\ command' = [word |-> word, nr |-> n] /\ reader' = "flagging"
          /\ UNCHANGED msgflag
      BY <3>1, <3>2 DEF ReadCommand
    <3>4. command' \in Words /\ command'.nr = n
      BY <3>3 DEF Words
    <3>5. LoopTypes'
      BY <1>0, <1>1, <3>3, <3>4 DEF LoopTypes, commandVars
    <3>6. cmd.nr <= typed /\ cmd.nr \in 0..MaxTyped /\ typed \in 0..MaxTyped
      BY <1>0 DEF OrderInv, LoopTypes, Words
    <3>7. OrderInv'
      BY <1>0, <1>1, <3>2, <3>3, <3>4, <3>6 DEF OrderInv, NewCommand, commandVars
    <3>8. QED
      BY <3>5, <3>7
  <2>2. CASE RaiseFlag \/ TestQuit
    <3>1. UNCHANGED <<command, typed>> /\ msgflag' \in BOOLEAN
          /\ reader' \in {"reading", "testing", "ended"}
      BY <1>0, <2>2 DEF RaiseFlag, TestQuit, LoopTypes
    <3>2. LoopTypes'
      BY <1>0, <1>1, <3>1 DEF LoopTypes, commandVars
    <3>3. OrderInv'
      BY <1>0, <1>1, <3>1 DEF OrderInv, NewCommand, chainVars, commandVars
    <3>4. QED
      BY <3>2, <3>3
  <2>3. QED
    BY <2>1, <2>2 DEF InteractiveThread
<1>4. TypeOK'
  BY <1>2, <1>3 DEF TypeOK, ChainTypes, LoopTypes, CallType
<1>5. QED
  BY <1>2, <1>3, <1>4 DEF IInv

\* The loop of Interactive.
LEMMA InteractiveStep ==
    ASSUME ChainAssumption, InteractiveAssumption, IInv, InteractiveLoop
    PROVE  IInv'
<1>0. /\ NumTools \in Nat /\ MaxTyped \in Nat
      /\ ChainTypes /\ LoopTypes /\ CallInv /\ InlineInv /\ LoopInv /\ OrderInv
  BY Types DEF ChainAssumption, InteractiveAssumption, IInv
<1> USE DEF At
<1>1. /\ call = NoCall /\ UNCHANGED <<statusVars, m_errorlevel, configVars, StopLoop, tools>>
      /\ at \in {"constructed", "created", "loop", "fetch", "tail", "idle", "test", "wipe",
                 "lower", "join"}
      /\ IF at = "constructed" THEN exeloop' = FALSE ELSE UNCHANGED exeloop
  BY DEF InteractiveLoop, CreateReader, ClearFlag, TestFlag, Fetch, MaybeExecute, TestCommand,
         WipeCommand, LowerFlag, Join, commandVars
<1>2. \E then \in {"created", "loop", "join", "fetch", "idle", "tail", "command", "test", "wipe",
                   "lower", "done"} :
         /\ Skip' \in BOOLEAN
         /\ (Called(then) /\ call'.op = "Execute") \/ Returned(then)
         /\ at \in {"tail", "test"} => then \in {"test", "wipe"}
         /\ at = "fetch" => then \in {"tail", "command"} /\ Returned(then)
         /\ at = "wipe" => then = "lower"
  <2>0. /\ "created" \in Places /\ "loop" \in Places /\ "join" \in Places /\ "fetch" \in Places
        /\ "idle" \in Places /\ "tail" \in Places /\ "command" \in Places /\ "test" \in Places
        /\ "wipe" \in Places /\ "lower" \in Places /\ "done" \in Places
    BY DEF Places
  <2>1. CASE CreateReader
    BY <2>0, <2>1, <1>1, Goes DEF CreateReader
  <2>2. CASE ClearFlag
    BY <2>0, <2>2, <1>1, Goes DEF ClearFlag
  <2>3. CASE TestFlag
    <3>1. GoTo("join") \/ GoTo("fetch") \/ GoTo("idle")
      BY <2>3 DEF TestFlag
    <3>2. QED
      BY <2>0, <2>3, <3>1, <1>1, Goes DEF TestFlag
  <2>4. CASE Fetch
    <3>1. GoTo("tail") \/ GoTo("command")
      BY <2>4 DEF Fetch
    <3>2. QED
      BY <2>0, <2>4, <3>1, <1>1, Goes DEF Fetch
  <2>5. CASE MaybeExecute("tail", "test")
    BY <2>0, <2>5, <1>1, Goes, CallsExecute DEF MaybeExecute
  <2>6. CASE MaybeExecute("idle", "loop")
    BY <2>0, <2>6, <1>1, Goes, CallsExecute DEF MaybeExecute
  <2>7. CASE TestCommand
    BY <2>0, <2>7, <1>1, Goes DEF TestCommand
  <2>8. CASE WipeCommand
    BY <2>0, <2>8, <1>1, Goes DEF WipeCommand
  <2>9. CASE LowerFlag
    BY <2>0, <2>9, <1>1, Goes DEF LowerFlag
  <2>10. CASE Join
    BY <2>0, <2>10, <1>1, Goes DEF Join
  <2>11. QED
    BY <2>1, <2>2, <2>3, <2>4, <2>5, <2>6, <2>7, <2>8, <2>9, <2>10 DEF InteractiveLoop
<1>3. PICK then \in {"created", "loop", "join", "fetch", "idle", "tail", "command", "test", "wipe",
                     "lower", "done"} :
         /\ Skip' \in BOOLEAN
         /\ (Called(then) /\ call'.op = "Execute") \/ Returned(then)
         /\ at \in {"tail", "test"} => then \in {"test", "wipe"}
         /\ at = "fetch" => then \in {"tail", "command"} /\ Returned(then)
         /\ at = "wipe" => then = "lower"
  BY <1>2
<1>4. /\ then \in Places \ {"exited", "destroyed"} /\ then \notin {"started", "inline", "executed"}
      /\ at \notin {"exited", "destroyed"} /\ (at # "constructed" => at \in LoopPlaces)
  BY <1>1, <1>3 DEF Places, LoopPlaces
<1>5. /\ UNCHANGED <<Initialised, Finalised>> /\ paused' \in BOOLEAN /\ execounter' \in 0..1
      /\ StopLoop' \in BOOLEAN
  BY <1>0, <1>1 DEF statusVars, ChainTypes
<1>6. MayGoOn(then)
  <2>1. Called(then) => call'.op = "Execute"
    BY <1>3 DEF Called, Returned
  <2>2. exeloop' => Initialised
    BY <1>0, <1>1, <1>4 DEF LoopInv
  <2>3. Called(then) => at # "fetch"
    BY <1>3 DEF Called, Returned
  <2>4. QED
    BY <1>4, <2>1, <2>2, <2>3 DEF MayGoOn
<1>7. ChainTypes' /\ CallInv' /\ InlineInv' /\ LifeInv' /\ RecoverInv' /\ LoopInv'
  BY <1>1, <1>3, <1>4, <1>5, <1>6, OutsideStep
<1>8. LoopTypes'
  <2>0. NoCommand \in Words /\ TRUE \in BOOLEAN /\ FALSE \in BOOLEAN
    BY <1>0 DEF NoCommand, Words
  <2>1. exeloop' \in BOOLEAN /\ running' \in BOOLEAN /\ msgflag' \in BOOLEAN
    BY <1>0, <2>0 DEF LoopTypes, InteractiveLoop, CreateReader, ClearFlag, TestFlag, Fetch, MaybeExecute,
           TestCommand, WipeCommand, LowerFlag, Join, inputVars, commandVars
  <2>2. /\ command' \in {command, NoCommand} /\ cmd' \in {cmd, command} /\ typed' = typed
        /\ reader' \in {reader, "reading"}
    BY DEF InteractiveLoop, CreateReader, ClearFlag, TestFlag, Fetch, MaybeExecute,
           TestCommand, WipeCommand, EmptyCommand, LowerFlag, Join, inputVars, commandVars
  <2>3. QED
    BY <1>0, <2>0, <2>1, <2>2 DEF LoopTypes
<1>9. OrderInv'
  <2>1. CASE at = "fetch"
    <3>1. cmd' = command /\ UNCHANGED <<command, typed>>
      BY <1>1, <2>1 DEF InteractiveLoop, CreateReader, ClearFlag, TestFlag, Fetch, MaybeExecute,
           TestCommand, WipeCommand, LowerFlag, Join, inputVars
    <3>2. then \in HasFetched
      BY <1>3, <2>1 DEF HasFetched
    <3>3. QED
      BY <1>0, <1>3, <2>1, <3>1, <3>2, NoCallFields DEF OrderInv, Returned
  <2>2. CASE at = "wipe"
    <3>1. command' = NoCommand /\ UNCHANGED <<cmd, typed>>
      BY <1>1, <2>2 DEF InteractiveLoop, CreateReader, ClearFlag, TestFlag, Fetch, MaybeExecute,
           TestCommand, WipeCommand, EmptyCommand, LowerFlag, Join, commandVars
    <3>2. command'.word = "empty" /\ command'.nr = 0 /\ typed \in Nat
      BY <1>0, <3>1 DEF NoCommand, LoopTypes
    <3>3. QED
      BY <1>0, <3>1, <3>2 DEF OrderInv, NewCommand
  <2>3. CASE at \notin {"fetch", "wipe"}
    <3>1. UNCHANGED <<command, cmd, typed>>
      BY <1>1, <2>3 DEF InteractiveLoop, CreateReader, ClearFlag, TestFlag, Fetch, MaybeExecute,
           TestCommand, WipeCommand, LowerFlag, Join, inputVars, commandVars
    <3>2. at \in HasFetched => then \in HasFetched
      BY <1>1, <1>3, <2>3 DEF HasFetched
    <3>3. QED
      BY <1>0, <1>1, <1>3, <3>1, <3>2, OrderKept
  <2>4. QED
    BY <2>1, <2>2, <2>3
<1>10. TypeOK'
  BY <1>7, <1>8 DEF TypeOK, ChainTypes, LoopTypes, CallType
<1>11. QED
  BY <1>7, <1>9, <1>10 DEF IInv

\* The commands.
LEMMA CommandStep ==
    ASSUME ChainAssumption, InteractiveAssumption, IInv, ExecuteCommand
    PROVE  IInv'
<1>0. /\ NumTools \in Nat /\ MaxTyped \in Nat
      /\ ChainTypes /\ LoopTypes /\ CallInv /\ InlineInv /\ LoopInv /\ OrderInv
  BY Types DEF ChainAssumption, InteractiveAssumption, IInv
<1> USE DEF At, Is
<1>1. /\ call = NoCall /\ at \in {"command", "started", "restarting"}
      /\ UNCHANGED <<m_errorlevel, configVars, StopLoop, tools, inputVars, cmd, running>>
      /\ UNCHANGED <<Initialised, Finalised>>
  BY DEF ExecuteCommand, CommandInitialise, CommandExecute, CommandFinalise, CommandNothing,
         CommandStart, Started, CommandPause, CommandUnpause, CommandRestart, Restarting, statusVars
<1>2. paused' \in BOOLEAN /\ execounter' \in 0..1 /\ exeloop' \in BOOLEAN
  <2>1. TRUE \in BOOLEAN /\ FALSE \in BOOLEAN /\ 0 \in 0..1
    OBVIOUS
  <2>2. paused \in BOOLEAN /\ execounter \in 0..1 /\ exeloop \in BOOLEAN
    BY <1>0 DEF ChainTypes, LoopTypes
  <2>3. QED
    BY <2>1, <2>2 DEF ExecuteCommand, CommandInitialise, CommandExecute, CommandFinalise, StopLooping,
         CommandNothing, CommandStart, Started, CommandPause, CommandUnpause, CommandRestart,
         Restarting, statusVars
<1>3. \E then \in {"tail", "started", "restarting"} :
         Skip' \in BOOLEAN /\ (Called(then) \/ Returned(then)) /\ MayGoOn(then)
  <2>0. /\ "tail" \in Places /\ "started" \in Places /\ "restarting" \in Places
        /\ "tail" \in LoopPlaces /\ "command" \in LoopPlaces /\ "restarting" \notin LoopPlaces
    BY DEF Places, LoopPlaces
  <2>1. at = "command" /\ exeloop => Initialised
    BY <1>0, <1>1, <2>0 DEF LoopInv
  <2>2. (\A then : ~(Called(then) /\ Returned(then))) /\ at # "fetch"
    BY <1>1 DEF Called, Returned
  <2>3. CASE CommandInitialise
    BY <2>0, <2>2, <2>3, <1>1, CallsInitialise DEF CommandInitialise, MayGoOn
  <2>4. CASE CommandExecute
    BY <2>0, <2>1, <2>2, <2>4, <1>1, CallsExecute DEF CommandExecute, MayGoOn
  <2>5. CASE CommandFinalise
    BY <2>0, <2>2, <2>5, <1>1, CallsFinalise DEF CommandFinalise, StopLooping, MayGoOn
  <2>6. CASE CommandNothing
    BY <2>0, <2>1, <2>2, <2>6, <1>1, Goes DEF CommandNothing, MayGoOn
  <2>7. CASE CommandStart
    BY <2>0, <2>1, <2>2, <2>7, <1>1, CallsInitialise DEF CommandStart, MayGoOn
  <2>8. CASE Started
    BY <1>0, <2>0, <2>2, <2>8, <1>1, Goes DEF Started, MayGoOn, LoopInv
  <2>9. CASE CommandPause
    BY <2>0, <2>2, <2>9, <1>1, Goes DEF CommandPause, MayGoOn
  <2>10. CASE CommandUnpause
    <3>1. CASE Initialised
      BY <2>0, <2>2, <2>10, <3>1, <1>1, Goes DEF CommandUnpause, MayGoOn
    <3>2. CASE ~Initialised
      BY <2>0, <2>1, <2>2, <2>10, <3>2, <1>1, CallsExecute DEF CommandUnpause, MayGoOn
    <3>3. QED
      BY <3>1, <3>2
  <2>11. CASE CommandRestart
    BY <2>0, <2>2, <2>11, <1>1, CallsFinalise DEF CommandRestart, MayGoOn
  <2>12. CASE Restarting
    BY <2>0, <2>2, <2>12, <1>1, CallsInitialise DEF Restarting, MayGoOn
  <2>13. QED
    BY <2>3, <2>4, <2>5, <2>6, <2>7, <2>8, <2>9, <2>10, <2>11, <2>12 DEF ExecuteCommand
<1>4. PICK then \in {"tail", "started", "restarting"} :
         Skip' \in BOOLEAN /\ (Called(then) \/ Returned(then)) /\ MayGoOn(then)
  BY <1>3
<1>5. /\ then \in Places \ {"exited", "destroyed"} /\ then \notin {"inline", "executed"}
      /\ then \in HasFetched /\ at \notin {"exited", "destroyed"}
  BY <1>1, <1>4 DEF Places, HasFetched
<1>6. ChainTypes' /\ CallInv' /\ InlineInv' /\ LifeInv' /\ RecoverInv' /\ LoopInv'
  <2>1. StopLoop' \in BOOLEAN
    BY <1>0, <1>1 DEF ChainTypes
  <2>2. QED
    BY <1>1, <1>2, <1>4, <1>5, <2>1, OutsideStep
<1>7. LoopTypes'
  BY <1>0, <1>1, <1>2 DEF LoopTypes, inputVars
<1>8. OrderInv'
  BY <1>0, <1>1, <1>4, <1>5, OrderKept DEF inputVars
<1>9. TypeOK'
  BY <1>6, <1>7 DEF TypeOK, ChainTypes, LoopTypes, CallType
<1>10. QED
  BY <1>6, <1>8, <1>9 DEF IInv

-----------------------------------------------------------------------------
(* Every step *)

LEMMA Inductive ==
    ASSUME ChainAssumption, InteractiveAssumption, IInv, [Next]_vars
    PROVE  IInv'
<1>1. CASE InCall /\ UNCHANGED <<inputVars, commandVars>>
  BY <1>1, ToolStep, EndStep, PassStep DEF InCall
<1>2. CASE Inline /\ UNCHANGED <<inputVars, commandVars>>
  BY <1>2, InlineStep
<1>3. CASE Destroy /\ UNCHANGED <<inputVars, commandVars>>
  BY <1>3, DestroyStep
<1>4. CASE InteractiveLoop
  BY <1>4, InteractiveStep
<1>5. CASE ExecuteCommand
  BY <1>5, CommandStep
<1>6. CASE InteractiveThread
  BY <1>6, ReaderStep
<1>7. CASE UNCHANGED vars
  BY <1>7 DEF IInv, TypeOK, CallInv, InlineInv, LifeInv, Ready, ShouldBeReady, RecoverInv, LoopInv,
              OrderInv, NewCommand, vars, chainVars, statusVars, configVars, inputVars, commandVars
<1>8. QED
  BY <1>1, <1>2, <1>3, <1>4, <1>5, <1>6, <1>7 DEF Next, ChainThread

-----------------------------------------------------------------------------
(* The theorems *)

\* What the steps maintain.
LEMMA Invariance == ASSUME ChainAssumption, InteractiveAssumption PROVE Spec => []IInv
<1>1. Init => IInv
  BY InitInvariant
<1>2. IInv /\ [Next]_vars => IInv'
  BY Inductive
<1>3. QED
  BY <1>1, <1>2, PTL DEF Spec

\* The variables of the chain and of its command loop keep their types: calls
\* stay within the chain's tools (ToolChain::Initialise, Execute, Finalise).
THEOREM TypeCorrect == ASSUME ChainAssumption, InteractiveAssumption PROVE Spec => []TypeOK
<1>1. IInv => TypeOK
  BY DEF IInv
<1>2. QED
  BY <1>1, Invariance, PTL

\* The chain calls its tools in their life cycle, whatever fails, throws, skips
\* or is typed (ToolChain::Initialise, Execute, Finalise).
THEOREM LifeCycle ==
    ASSUME ChainAssumption, InteractiveAssumption PROVE Spec => []ToolsFollowTheChain
<1>1. IInv => ToolsFollowTheChain
  BY DEF IInv, LifeInv, CallInv, ToolsFollowTheChain
<1>2. QED
  BY <1>1, Invariance, PTL

\* The command loop never keeps executing a chain that is not initialised
\* (ToolChain::ExecuteCommand).
THEOREM LoopNeedsInitialise ==
    ASSUME ChainAssumption, InteractiveAssumption PROVE Spec => []LoopingIsInitialised
<1>1. IInv => LoopingIsInitialised
  BY DEF IInv, LoopInv, LoopPlaces, LoopingIsInitialised
<1>2. QED
  BY <1>1, Invariance, PTL

\* With attempt_recover, an execute that ends the program does it after the
\* Finalise of every tool, even if some of them fail (ToolChain::Execute).
THEOREM Recovery ==
    ASSUME ChainAssumption, InteractiveAssumption PROVE Spec => RecoveryFinalises
<1> DEFINE Recovers ==
      /\ call.op = "Execute" /\ m_recover => at' # "exited"
      /\ call.op = "Finalise" /\ call.then = "exited" /\ at' = "exited"
             => \A t \in ToolSet : tools'[t] = "Finalise"
<1>1. IInv /\ [Next]_vars => [Recovers]_vars
  <2> SUFFICES ASSUME IInv, Next PROVE Recovers
    OBVIOUS
  <2>0. CallInv /\ RecoverInv /\ TypeOK /\ NumTools \in Nat
    BY DEF IInv, ChainAssumption
  <2>1. CASE call.op = "none" \/ call.op = "Initialise"
    BY <2>1 DEF Recovers
  <2>2. CASE call.op \in {"Execute", "Finalise"}
    <3>1. call # NoCall /\ at # "exited"
      BY <2>0, <2>2, NoCallFields DEF CallInv
    <3>2. CASE at' = at
      BY <3>1, <3>2 DEF Recovers
    <3>3. CASE at' # at
      <4>1. InCall
        BY <3>1, <3>3 DEF Next, ChainThread, Inline, InlineStart, InlineNothing, InlineExecute,
              InlineNext, Destroy, InteractiveLoop, CreateReader, ClearFlag, TestFlag, Fetch,
              MaybeExecute, TestCommand, WipeCommand, LowerFlag, Join, ExecuteCommand, Is,
              CommandInitialise, CommandExecute, CommandFinalise, CommandNothing, CommandStart,
              Started, CommandPause, CommandUnpause, CommandRestart, Restarting, At,
              InteractiveThread, chainVars
      <4>2. CASE call.op = "Execute"
        <5>1. (\E o \in Outcomes : ExecuteTool(o)) \/ ExecuteEnd
          BY <2>2, <3>3, <4>1, <4>2 DEF InCall, InitialiseTool, FinaliseTool, InTool, PastTools,
             InitialiseEnd, FinaliseEnd, ExecuteSkip, ExecutePass
        <5>2. CASE ExecuteEnd
          BY <2>0, <4>2, <5>2 DEF ExecuteEnd, Return, Recovers, RecoverInv
        <5>3. CASE \E o \in Outcomes : ExecuteTool(o)
          BY <3>3, <4>2, <5>3 DEF ExecuteTool, Begin, Recovers
        <5>4. QED
          BY <5>1, <5>2, <5>3
      <4>3. CASE call.op = "Finalise"
        <5>1. CASE call.then # "exited"
          BY <4>3, <5>1 DEF Recovers
        <5>2. CASE call.then = "exited"
          <6>1. FinaliseEnd
            <7>1. (\E o \in Outcomes : FinaliseTool(o)) \/ FinaliseEnd
              BY <4>1, <4>3 DEF InCall, InitialiseTool, ExecuteTool, InTool, PastTools,
                 InitialiseEnd, ExecuteEnd, ExecuteSkip, ExecutePass
            <7>2. \A o \in Outcomes : ~Exits(o)
              BY <2>0, <5>2 DEF Exits, RecoverInv
            <7>3. \A o \in Outcomes : ~FinaliseTool(o)
              BY <3>3, <7>2 DEF FinaliseTool
            <7>4. QED
              BY <7>1, <7>3
          <6>2. call.tool > NumTools /\ tools' = tools /\ call.tool \in 0..(NumTools + 1)
            BY <2>0, <6>1 DEF FinaliseEnd, PastTools, TypeOK
          <6>3. \A t \in ToolSet : tools'[t] = "Finalise"
            BY <2>0, <4>3, <6>2 DEF RecoverInv, ToolSet
          <6>4. QED
            BY <4>3, <6>3 DEF Recovers
        <5>3. QED
          BY <5>1, <5>2
      <4>4. QED
        BY <2>2, <4>2, <4>3
    <3>4. QED
      BY <3>2, <3>3
  <2>3. QED
    BY <2>0, <2>1, <2>2, Fields DEF Operations
<1>2. QED
  BY <1>1, Invariance, PTL DEF Spec, RecoveryFinalises

\* A command is executed once at most, and never after one typed later
\* (ToolChain::Interactive and InteractiveThread, without a lock).
THEOREM CommandOrder ==
    ASSUME ChainAssumption, InteractiveAssumption PROVE Spec => CommandsInOrder
<1> DEFINE InOrder == at = "fetch" /\ at' = "command" => cmd'.nr > cmd.nr
<1>1. IInv /\ [Next]_vars => [InOrder]_vars
  <2> SUFFICES ASSUME IInv, Next, at = "fetch", at' = "command" PROVE cmd'.nr > cmd.nr
    BY DEF InOrder
  <2>0. OrderInv /\ CallInv /\ NumTools \in Nat
    BY DEF IInv, ChainAssumption
  <2>1. Fetch
    <3>1. ~InCall
      BY <2>0 DEF CallInv, InCall, InitialiseTool, ExecuteTool, FinaliseTool, InTool, PastTools,
         InitialiseEnd, FinaliseEnd, ExecuteSkip, ExecutePass, ExecuteEnd
    <3>2. QED
      BY <3>1 DEF Next, ChainThread, Inline, InlineStart, InlineNothing, InlineExecute, InlineNext,
         Destroy, InteractiveLoop, CreateReader, ClearFlag, TestFlag, MaybeExecute, TestCommand,
         WipeCommand, LowerFlag, Join, ExecuteCommand, Is, CommandInitialise, CommandExecute,
         CommandFinalise, CommandNothing, CommandStart, Started, CommandPause, CommandUnpause,
         CommandRestart, Restarting, At, InteractiveThread, chainVars
  <2>2. QED
    BY <2>0, <2>1 DEF Fetch, At, OrderInv, NewCommand, HasFetched, GoTo
<1>2. QED
  BY <1>1, Invariance, PTL DEF Spec, CommandsInOrder
=============================================================================
