-------------------------- MODULE ToolChainProperties --------------------------
(***************************************************************************)
(* What the tool chain guarantees to its tools, and to who types commands. *)
(***************************************************************************)
EXTENDS Interactive

Operations == {"Initialise", "Execute", "Finalise"}
Places == {"constructed", "inline", "executed", "created", "loop", "join", "fetch", "tail", "idle",
           "test", "wipe", "lower", "command", "started", "restarting", "done", "destroyed",
           "exited"}
Words  == [word : Commands \cup {"empty"}, nr : 0..MaxTyped]

\* Type invariant of the chain and of its command interface.
TypeOK ==
    /\ Initialised \in BOOLEAN /\ Finalised \in BOOLEAN /\ paused \in BOOLEAN
    /\ execounter \in 0..1 /\ m_errorlevel \in 0..2 /\ m_recover \in BOOLEAN
    /\ m_inline \in Inlines /\ Skip \in BOOLEAN /\ StopLoop \in BOOLEAN
    /\ tools \in [ToolSet -> Operations \cup {"added", "deleted"}]
    /\ call \in [op : Operations \cup {"none"}, tool : 0..(NumTools + 1), left : Nat,
                 result : 0..2, then : Places \cup {"none"}]
    /\ at \in Places /\ ret \in -1..2
    /\ exeloop \in BOOLEAN /\ command \in Words /\ msgflag \in BOOLEAN /\ cmd \in Words
    /\ running \in BOOLEAN /\ reader \in {"none", "reading", "flagging", "testing", "ended"}
    /\ typed \in 0..MaxTyped

-----------------------------------------------------------------------------
\* The tools that have been initialised and not finalised since.
Ready == {t \in ToolSet : tools[t] \in {"Initialise", "Execute"}}

\* ... and those that should be, from what the chain is doing.
ShouldBeReady ==
    CASE call.op = "Initialise" -> 1..(call.tool - 1)
      [] call.op = "Finalise"   -> call.tool..NumTools
      [] OTHER -> IF Initialised THEN ToolSet ELSE {}

\* Whatever fails, throws, skips or is typed, the chain calls its tools in their
\* life cycle: every tool is initialised before the chain executes any, none is
\* executed after it was finalised, and each run of the life cycle finalises all.
ToolsFollowTheChain ==
    at \notin {"exited", "destroyed"} => Ready = ShouldBeReady /\ Initialised = ~Finalised

\* attempt_recover: "1= will attempt to finalise if an execute fails"
\* (configfiles/template/ToolChainConfig).  An execute that ends the program ends it
\* after the Finalise of every tool has been called, even if some of them fail too.
RecoveryFinalises ==
    [][/\ call.op = "Execute" /\ m_recover => at' # "exited"
       /\ call.op = "Finalise" /\ call.then = "exited" /\ at' = "exited"
             => \A t \in ToolSet : tools'[t] = "Finalise"]_vars

\* The command loop never keeps executing a chain that is not initialised.
LoopingIsInitialised == exeloop /\ call = NoCall /\ at \in {"tail", "idle"} => Initialised

\* A command is executed once at most, and never after one typed later.
CommandsInOrder == [][at = "fetch" /\ at' = "command" => cmd'.nr > cmd.nr]_vars

-----------------------------------------------------------------------------
\* Every command that is begun comes to its end, or ends the program.
CommandsComplete == at = "command" ~> at \in {"loop", "exited"}

\* A chain that runs by itself stops when its number of passes is done or a tool
\* has set StopLoop.
InlineEnds == m_inline > 0 \/ (m_inline = -1 /\ StopLoop) ~> at \in {"destroyed", "exited"}

-----------------------------------------------------------------------------
\* "msgflag: Message flag used to indiacte if a new interactive command has been
\* submitted ... and needs execution on the main thread" (ToolChain.h:37): once Quit
\* has been read, the program ends.
QuitEndsTheProgram == reader = "ended" ~> at \in {"destroyed", "exited"}
=============================================================================
