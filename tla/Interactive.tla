------------------------------ MODULE Interactive ------------------------------
(***************************************************************************)
(* The tool chain driven by typed commands: ToolChain::Interactive and     *)
(* ExecuteCommand on the chain's thread, InteractiveThread on a second one *)
(* that reads the input, and the two variables they share without a lock:  *)
(* command and msgflag.  Each access of either is a step of its own; a     *)
(* word is written and read whole.  Operators that no action uses          *)
(* (KeepCommand, KeepLooping) are faulty variants, used as mutants.        *)
(***************************************************************************)
EXTENDS ToolChain

CONSTANTS
    Commands,    \* the words typed, among those ExecuteCommand knows; any
                 \* word it does not know does what Status does: nothing
    MaxTyped     \* bound: number of words typed

ASSUME InteractiveAssumption == MaxTyped \in Nat /\ "empty" \notin Commands

VARIABLES
    exeloop,
    command,     \* ToolChainargs::command: a word, with its place in the input
    msgflag,
    cmd,         \* the argument of ExecuteCommand
    running,     \* the loop of Interactive goes on
    reader,      \* InteractiveThread
    typed        \* number of words read from the input

inputVars   == <<command, msgflag, reader, typed>>
commandVars == <<exeloop, cmd, running>>
vars == <<chainVars, inputVars, commandVars>>

\* The empty std::string is "empty".
NoCommand == [word |-> "empty", nr |-> 0]

Init ==
    /\ ChainInit
    /\ exeloop = FALSE /\ command = NoCommand /\ cmd = NoCommand /\ running = FALSE
    /\ msgflag \in BOOLEAN          \* not initialised
    /\ reader = "none" /\ typed = 0

-----------------------------------------------------------------------------
(* InteractiveThread *)

\* std::cin >> args->command
ReadCommand(word) ==
    /\ reader = "reading" /\ typed < MaxTyped
    /\ typed' = typed + 1
    /\ command' = [word |-> word, nr |-> typed']
    /\ reader' = "flagging"
    /\ UNCHANGED msgflag

RaiseFlag ==
    /\ reader = "flagging"
    /\ msgflag' = TRUE
    /\ reader' = "testing"
    /\ UNCHANGED <<command, typed>>

\* After "Quit" nothing more is read.
TestQuit ==
    /\ reader = "testing"
    /\ reader' = IF command.word = "Quit" THEN "ended" ELSE "reading"
    /\ UNCHANGED <<command, msgflag, typed>>

\* exit ends every thread of the program
InteractiveThread ==
    /\ at # "exited"
    /\ (\E word \in Commands : ReadCommand(word)) \/ RaiseFlag \/ TestQuit
    /\ UNCHANGED <<chainVars, commandVars>>

-----------------------------------------------------------------------------
(* Interactive: the loop of the chain's thread *)

GoTo(place) == at' = place /\ UNCHANGED <<Skip, call, ret>>

\* pthread_create ...
CreateReader ==
    /\ At("constructed") /\ m_inline = 0
    /\ reader' = "reading" /\ exeloop' = FALSE /\ running' = TRUE
    /\ GoTo("created")
    /\ UNCHANGED <<statusVars, command, msgflag, typed, cmd>>

\* ... and only then is the flag initialised.
ClearFlag ==
    /\ At("created")
    /\ msgflag' = FALSE
    /\ GoTo("loop")
    /\ UNCHANGED <<statusVars, command, reader, typed, exeloop, cmd, running>>

\* while (running), and its test of msgflag
TestFlag ==
    /\ At("loop")
    /\ GoTo(IF ~running THEN "join" ELSE IF msgflag THEN "fetch" ELSE "idle")
    /\ UNCHANGED <<statusVars, inputVars, commandVars>>

\* The argument of ExecuteCommand is a copy; nothing is done for an empty word.
Fetch ==
    /\ At("fetch")
    /\ cmd' = command
    /\ GoTo(IF command.word = "empty" THEN "tail" ELSE "command")
    /\ UNCHANGED <<statusVars, inputVars, exeloop, running>>

\* if (exeloop) Execute(), at the end of ExecuteCommand: for a command, and for
\* the empty one with which every round of the loop ends
MaybeExecute(place, then) ==
    /\ At(place)
    /\ IF exeloop THEN Execute(1, then) ELSE GoTo(then)
    /\ UNCHANGED <<statusVars, inputVars, commandVars>>

TestCommand ==
    /\ At("test")
    /\ running' = (command.word # "Quit")
    /\ GoTo("wipe")
    /\ UNCHANGED <<statusVars, inputVars, exeloop, cmd>>

\* args->command = ""
KeepCommand  == command' = command
EmptyCommand == command' = NoCommand
WipeCommand ==
    /\ At("wipe")
    /\ EmptyCommand
    /\ GoTo("lower")
    /\ UNCHANGED <<statusVars, msgflag, reader, typed, commandVars>>

LowerFlag ==
    /\ At("lower")
    /\ msgflag' = FALSE
    /\ GoTo("idle")
    /\ UNCHANGED <<statusVars, command, reader, typed, commandVars>>

\* pthread_join
Join ==
    /\ At("join") /\ reader = "ended"
    /\ GoTo("done")
    /\ UNCHANGED <<statusVars, inputVars, commandVars>>

InteractiveLoop ==
    /\ \/ CreateReader \/ ClearFlag \/ TestFlag \/ Fetch
       \/ MaybeExecute("tail", "test") \/ MaybeExecute("idle", "loop")
       \/ TestCommand \/ WipeCommand \/ LowerFlag \/ Join
    /\ UNCHANGED <<m_errorlevel, configVars, StopLoop, tools>>

-----------------------------------------------------------------------------
(* ExecuteCommand, up to its last test of exeloop *)

Is(word) == At("command") /\ cmd.word = word

CommandInitialise ==
    /\ Is("Initialise")
    /\ Initialise("tail")
    /\ UNCHANGED <<statusVars, exeloop>>

CommandExecute ==
    /\ Is("Execute")
    /\ Execute(1, "tail")
    /\ UNCHANGED <<statusVars, exeloop>>

KeepLooping == UNCHANGED exeloop
StopLooping == exeloop' = FALSE

\* Finalise, and Stop, which does the same
CommandFinalise ==
    /\ Is("Finalise") \/ Is("Stop")
    /\ StopLooping
    /\ Finalise("tail")
    /\ UNCHANGED statusVars

\* Quit, Status, ? and what is not a command change nothing
CommandNothing ==
    /\ Is("Quit") \/ Is("Status")
    /\ GoTo("tail")
    /\ UNCHANGED <<statusVars, exeloop>>

CommandStart ==
    /\ Is("Start")
    /\ Initialise("started")
    /\ UNCHANGED <<statusVars, exeloop>>

Started ==
    /\ At("started")
    /\ exeloop' = TRUE /\ execounter' = 0
    /\ GoTo("tail")
    /\ UNCHANGED <<Initialised, Finalised, paused>>

CommandPause ==
    /\ Is("Pause")
    /\ exeloop' = FALSE /\ paused' = TRUE
    /\ GoTo("tail")
    /\ UNCHANGED <<Initialised, Finalised, execounter>>

CommandUnpause ==
    /\ Is("Unpause")
    /\ IF Initialised
       THEN exeloop' = TRUE /\ paused' = FALSE /\ GoTo("tail")
       ELSE UNCHANGED <<exeloop, paused>> /\ Execute(1, "tail")
    /\ UNCHANGED <<Initialised, Finalised, execounter>>

\* Finalise() + Initialise(), from left to right
CommandRestart ==
    /\ Is("Restart")
    /\ Finalise("restarting")
    /\ UNCHANGED <<statusVars, exeloop>>

Restarting ==
    /\ At("restarting")
    /\ Initialise("tail")
    /\ UNCHANGED <<statusVars, exeloop>>

ExecuteCommand ==
    /\ \/ CommandInitialise \/ CommandExecute \/ CommandFinalise \/ CommandNothing
       \/ CommandStart \/ Started \/ CommandPause \/ CommandUnpause
       \/ CommandRestart \/ Restarting
    /\ UNCHANGED <<m_errorlevel, configVars, StopLoop, tools, inputVars, cmd, running>>

-----------------------------------------------------------------------------
ChainThread ==
    \/ (InCall \/ Inline \/ Destroy) /\ UNCHANGED <<inputVars, commandVars>>
    \/ InteractiveLoop
    \/ ExecuteCommand

Next == ChainThread \/ InteractiveThread

Spec == Init /\ [][Next]_vars

\* Both threads keep running, the tools return, and what is typed is read; the
\* user owes nothing.
FairSpec == Spec /\ WF_vars(ChainThread) /\ WF_vars(InteractiveThread /\ reader # "reading")
=============================================================================
