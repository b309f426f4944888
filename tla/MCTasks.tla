------------------------------ MODULE MCTasks ------------------------------
(***************************************************************************)
(* The tasks that run for as long as the device or the page does: terminal  *)
(* and serial channels, the jiggler, the relock watch and the page's watch  *)
(* over its peer.  One instance checks them side by side: a behaviour       *)
(* chooses the component it is about in its first state (focus), the others *)
(* rest.                                                                    *)
(***************************************************************************)
EXTENDS Terminal, Jiggler, Relock, ClientConn

VARIABLE focus

MCInit ==
  /\ focus \in {"terminal", "jiggler", "relock", "conn"}
  /\ TerminalInit /\ JigglerInit /\ RelockInit /\ ConnInit
  /\ focus # "jiggler" => jigEnabled
  /\ focus # "conn" => deviceSetup /\ ~deviceLogin

MCNext ==
  \/ focus = "terminal" /\ TerminalNext /\ UNCHANGED <<focus, jigVars, relockVars, connVars>>
  \/ focus = "jiggler" /\ JigglerNext /\ UNCHANGED <<focus, termVars, relockVars, connVars>>
  \/ focus = "relock" /\ RelockNext /\ UNCHANGED <<focus, termVars, jigVars, connVars>>
  \/ focus = "conn" /\ ConnNext /\ UNCHANGED <<focus, termVars, jigVars, relockVars>>

\* The fairness of each component; of those that rest the jiggler's first loop and the supervisor
\* have a step to take.
MCSpec ==
  /\ MCInit /\ [][MCNext]_<<focus, termVars, jigVars, relockVars, connVars>>
  /\ \A c \in Terms : WF_termVars(TermTask(c))
  /\ \A r \in JigReqs : WF_jigVars(JigHandler(r))
  /\ \A l \in JigLoops : WF_jigVars(focus = "jiggler" /\ JigLoopStep(l))
  /\ WF_relockVars(focus = "relock" /\ SupervisorObserves) /\ WF_relockVars(CountEvent)
  /\ WF_relockVars(PulseOff) /\ WF_relockVars(PulseOn) /\ WF_relockVars(storming /\ SourceChange)
  /\ ConnFairness

\* Terminals reap their shells, some jiggler loop lives with the latest configuration, and the page
\* keeps one peer and the card the device calls for.
TasksInv == TermInv /\ JigInv /\ ConnInv

\* What must go on does: the output thread of a closed terminal ends, an idle host is jiggled again
\* and again, a lasting storm is answered by replug after replug, and a lost peer is noticed.
TasksLive ==
  /\ ForwarderStops /\ LossIsNoticed
  /\ focus = "jiggler" => KeepsJiggling
  /\ focus = "relock" => StormIsReplugged

=============================================================================
