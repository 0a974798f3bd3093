------------------------------- MODULE ToolChain -------------------------------
(***************************************************************************)
(* The tool chain: Initialise, Execute and Finalise over the chain's Tools *)
(* one after the other, with the error levels, the recovery, the Skip      *)
(* variable, and the non-interactive run modes (Inline).                   *)
(*                                                                         *)
(* One action is one call into a Tool, with all that the chain does with   *)
(* its result; a Tool returns true, returns false or throws.  The chain's  *)
(* own call stack is one record: the operation, the tool it has come to,   *)
(* the repeats left, its result so far and where its caller goes on.       *)
(* Operators that no action uses (AtLastTool, SumOfResults, KeepErrorLevel,*)
(* SamePass, EndOfPasses) are faulty variants, used as mutants.            *)
(***************************************************************************)
EXTENDS Integers

CONSTANTS
    NumTools,      \* m_tools.size(), once LoadTools has added the tools
    ErrorLevels,   \* the values error_level may have: subset of 0..2
    Inlines        \* the values Inline may have: a set of integers, 0 for none

ASSUME ChainAssumption ==
    /\ NumTools \in Nat
    /\ ErrorLevels \subseteq 0..2
    /\ Inlines \subseteq Int

VARIABLES
    Initialised, Finalised, paused,
    execounter,            \* 0, or 1 for any larger number
    m_errorlevel, m_recover, m_inline,
    Skip, StopLoop,        \* m_data->vars, which the tools may set
    tools,                 \* the last of the chain's calls each tool has had
    call, at, ret          \* the chain's thread: its call, its place, a returned value

statusVars == <<Initialised, Finalised, paused, execounter>>
configVars == <<m_recover, m_inline>>
chainVars  == <<statusVars, m_errorlevel, configVars, Skip, StopLoop, tools, call, at, ret>>

ToolSet  == 1..NumTools
Outcomes == {"true", "false", "throws"}

NoCall == [op |-> "none", tool |-> 0, left |-> 0, result |-> 0, then |-> "none"]

ChainInit ==
    /\ Initialised = FALSE /\ Finalised = TRUE /\ paused = FALSE /\ execounter = 0
    /\ m_errorlevel \in ErrorLevels /\ m_recover \in BOOLEAN /\ m_inline \in Inlines
    /\ Skip = FALSE /\ StopLoop = FALSE
    /\ tools = [t \in ToolSet |-> "added"]
    /\ call = NoCall /\ at = "constructed" /\ ret = 0

-----------------------------------------------------------------------------
(* Calling and returning.  An operator (then, ...) is the call, made from a *)
(* place of the chain's thread that goes on at "then".                      *)

Begin(op, times, then) ==
    /\ call' = [op |-> op, tool |-> 1, left |-> times, result |-> 0, then |-> then]
    /\ UNCHANGED <<at, ret>>

Return(value, then) ==
    /\ call' = NoCall /\ at' = then /\ ret' = value

exit == call' = NoCall /\ at' = "exited" /\ UNCHANGED ret

\* Initialise's result is a bool: every error code becomes 1.
AsBool(code) == IF code = 0 THEN 0 ELSE 1

Initialise(then) ==
    /\ IF Finalised THEN Begin("Initialise", 1, then) ELSE Return(AsBool(-1), then)
    /\ UNCHANGED Skip

Execute(times, then) ==
    IF Initialised
    THEN Skip' = FALSE /\ Begin("Execute", times, then)
    ELSE UNCHANGED Skip /\ Return(-1, then)

Finalise(then) ==
    /\ IF Initialised THEN Begin("Finalise", 1, then) ELSE Return(-1, then)
    /\ UNCHANGED Skip

\* Does an error of this kind end the program?
Exits(outcome) ==
    \/ outcome = "false"  /\ m_errorlevel > 1
    \/ outcome = "throws" /\ m_errorlevel > 0

Code(outcome) == CASE outcome = "true" -> 0 [] outcome = "false" -> 1 [] outcome = "throws" -> 2

\* The result of an operation after a tool had this outcome: the last error counts.
SumOfResults(outcome) == call.result + Code(outcome)
ResultAfter(outcome) == IF outcome = "true" THEN call.result ELSE Code(outcome)

InTool(op)      == call.op = op /\ call.left > 0 /\ call.tool \in ToolSet
AtLastTool(op)  == call.op = op /\ call.left > 0 /\ call.tool >= NumTools
PastTools(op)   == call.op = op /\ call.left > 0 /\ call.tool > NumTools

-----------------------------------------------------------------------------
(* Initialise *)

InitialiseTool(outcome) ==
    /\ InTool("Initialise")
    /\ tools' = [tools EXCEPT ![call.tool] = "Initialise"]
    /\ IF Exits(outcome) THEN exit
       ELSE /\ call' = [call EXCEPT !.tool = @ + 1, !.result = AsBool(ResultAfter(outcome))]
            /\ UNCHANGED <<at, ret>>
    /\ StopLoop' \in {StopLoop, TRUE}
    /\ UNCHANGED <<statusVars, m_errorlevel, Skip>>

\* The chain counts as initialised also when some of its tools have failed.
InitialiseEnd ==
    /\ PastTools("Initialise")
    /\ execounter' = 0 /\ Initialised' = TRUE /\ Finalised' = FALSE
    /\ Return(call.result, call.then)
    /\ UNCHANGED <<paused, m_errorlevel, Skip, StopLoop, tools>>

-----------------------------------------------------------------------------
(* Execute.  A tool may set Skip and StopLoop. *)

\* With attempt_recover the tools are finalised before the program ends, and
\* their errors no longer matter.
KeepErrorLevel == m_errorlevel' = m_errorlevel
IgnoreErrors   == m_errorlevel' = 0

ExecuteTool(outcome) ==
    /\ InTool("Execute") /\ ~Skip
    /\ tools' = [tools EXCEPT ![call.tool] = "Execute"]
    /\ Skip' \in BOOLEAN /\ StopLoop' \in {StopLoop, TRUE}
    /\ \/ /\ Exits(outcome) /\ m_recover
          /\ IgnoreErrors
          /\ Begin("Finalise", 1, "exited")
       \/ /\ Exits(outcome) /\ ~m_recover
          /\ exit /\ UNCHANGED m_errorlevel
       \/ /\ ~Exits(outcome)
          /\ call' = [call EXCEPT !.tool = @ + 1, !.result = ResultAfter(outcome)]
          /\ UNCHANGED <<at, ret, m_errorlevel>>
    /\ UNCHANGED statusVars

SamePass == call' = [call EXCEPT !.tool = 1]
NextPass == call' = [call EXCEPT !.tool = 1, !.left = @ - 1]

\* "Skipping Remaining Tools"
ExecuteSkip ==
    /\ InTool("Execute") /\ Skip
    /\ Skip' = FALSE
    /\ NextPass
    /\ UNCHANGED <<statusVars, m_errorlevel, StopLoop, tools, at, ret>>

ExecutePass ==
    /\ PastTools("Execute")
    /\ NextPass
    /\ UNCHANGED <<statusVars, m_errorlevel, Skip, StopLoop, tools, at, ret>>

ExecuteEnd ==
    /\ call.op = "Execute" /\ call.left = 0
    /\ execounter' = 1
    /\ Return(call.result, call.then)
    /\ UNCHANGED <<Initialised, Finalised, paused, m_errorlevel, Skip, StopLoop, tools>>

-----------------------------------------------------------------------------
(* Finalise *)

FinaliseTool(outcome) ==
    /\ InTool("Finalise")
    /\ tools' = [tools EXCEPT ![call.tool] = "Finalise"]
    /\ IF Exits(outcome) THEN exit
       ELSE /\ call' = [call EXCEPT !.tool = @ + 1, !.result = ResultAfter(outcome)]
            /\ UNCHANGED <<at, ret>>
    /\ UNCHANGED <<statusVars, m_errorlevel, Skip, StopLoop>>

FinaliseEnd ==
    /\ PastTools("Finalise")
    /\ execounter' = 0 /\ Initialised' = FALSE /\ Finalised' = TRUE /\ paused' = FALSE
    /\ Return(call.result, call.then)
    /\ UNCHANGED <<m_errorlevel, Skip, StopLoop, tools>>

\* The chain's thread is inside one of the three operations.
InCall ==
    /\ \/ \E o \in Outcomes : InitialiseTool(o) \/ ExecuteTool(o) \/ FinaliseTool(o)
       \/ InitialiseEnd \/ ExecuteSkip \/ ExecutePass \/ ExecuteEnd \/ FinaliseEnd
    /\ UNCHANGED configVars

-----------------------------------------------------------------------------
(* The constructor's last step, Inline, and the destructor *)

At(place) == call = NoCall /\ at = place

InlineStart ==
    /\ At("constructed") /\ (m_inline = -1 \/ m_inline > 0)
    /\ StopLoop' = (IF m_inline = -1 THEN FALSE ELSE StopLoop)
    /\ Initialise("inline")

InlineNothing ==
    /\ At("constructed") /\ m_inline < -1
    /\ at' = "done"
    /\ UNCHANGED <<Skip, StopLoop, call, ret>>

InlineExecute ==
    /\ At("inline")
    /\ Execute(IF m_inline = -1 THEN 1 ELSE m_inline, "executed")
    /\ UNCHANGED StopLoop

\* Only the endless loop looks at StopLoop.
EndOfPasses == m_inline # -1
EndOfLoop   == m_inline # -1 \/ StopLoop

InlineNext ==
    /\ At("executed")
    /\ IF EndOfLoop THEN Finalise("done")
       ELSE at' = "inline" /\ UNCHANGED <<Skip, call, ret>>
    /\ UNCHANGED StopLoop

Inline ==
    /\ InlineStart \/ InlineNothing \/ InlineExecute \/ InlineNext
    /\ UNCHANGED <<statusVars, m_errorlevel, configVars, tools>>

\* ~ToolChain deletes the tools.
Destroy ==
    /\ At("done")
    /\ tools' = [t \in ToolSet |-> "deleted"]
    /\ at' = "destroyed"
    /\ UNCHANGED <<statusVars, m_errorlevel, configVars, Skip, StopLoop, call, ret>>
=============================================================================
