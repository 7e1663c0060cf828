------------------------- MODULE DaemonLifecycle_proof -------------------------
(***************************************************************************)
(* Proofs about DaemonLifecycle, for any number of commands and daemons,   *)
(* whether or not daemons crash and waits run out.                         *)
(***************************************************************************)
EXTENDS DaemonLifecycleOrder, TLAPS

(* What a command reports holds because the pipe's last state never changes. *)
IInv == TypeOK /\ PipeAgreesWithDaemon /\ AnswerAgreesWithPipe

LEMMA InitInvariant == Init => IInv
BY LifecycleAssumption DEF Init, IInv, TypeOK, PipeAgreesWithDaemon, AnswerAgreesWithPipe, Idle, Begun, Command, CliLabels, Answers

(* What the updates of a command leave in its record. *)
LEMMA GotoEffect ==
  ASSUME TypeOK, NEW c \in Cli, NEW label \in CliLabels, CliGoto(c, label)
  PROVE  /\ cli' \in [Cli -> Command]
         /\ \A x \in Cli : x # c => cli'[x] = cli[x]
         /\ cli'[c].at = label /\ cli'[c].target = cli[c].target
         /\ cli'[c].child = cli[c].child /\ cli'[c].answer = cli[c].answer
<1>1. cli \in [Cli -> Command] /\ cli' = [cli EXCEPT ![c].at = label]
  BY DEF TypeOK, CliGoto
<1>2. cli[c] \in Command
  BY <1>1
<1>3. cli'[c] = [cli[c] EXCEPT !.at = label] /\ \A x \in Cli : x # c => cli'[x] = cli[x]
  BY <1>1
<1>4. cli'[c] \in Command
  BY <1>2, <1>3 DEF Command
<1>5. cli' \in [Cli -> Command]
  BY <1>1, <1>4
<1> QED
  BY <1>2, <1>3, <1>5 DEF Command

LEMMA AnswerEffect ==
  ASSUME TypeOK, NEW c \in Cli, NEW what \in Answers, Answer(c, what)
  PROVE  /\ cli' \in [Cli -> Command]
         /\ \A x \in Cli : x # c => cli'[x] = cli[x]
         /\ cli'[c].at = "answered" /\ cli'[c].target = None
         /\ cli'[c].child = cli[c].child /\ cli'[c].answer = what
<1>1. cli \in [Cli -> Command]
      /\ cli' = [cli EXCEPT ![c].at = "answered", ![c].target = None, ![c].answer = what]
  BY DEF TypeOK, Answer
<1>2. cli[c] \in Command
  BY <1>1
<1>3. /\ cli'[c] = [cli[c] EXCEPT !.at = "answered", !.target = None, !.answer = what]
      /\ \A x \in Cli : x # c => cli'[x] = cli[x]
  BY <1>1
<1>4. cli'[c] \in Command
  BY <1>2, <1>3 DEF Command, CliLabels
<1>5. cli' \in [Cli -> Command]
  BY <1>1, <1>4
<1> QED
  BY <1>2, <1>3, <1>5 DEF Command

LEMMA ForgetEffect ==
  ASSUME TypeOK, NEW c \in Cli, NEW label \in CliLabels, CliForget(c, label)
  PROVE  /\ cli' \in [Cli -> Command]
         /\ \A x \in Cli : x # c => cli'[x] = cli[x]
         /\ cli'[c].at = label
         /\ cli'[c].child = cli[c].child /\ cli'[c].answer = cli[c].answer
<1>1. cli \in [Cli -> Command] /\ cli' = [cli EXCEPT ![c].at = label, ![c].target = None]
  BY DEF TypeOK, CliForget
<1>2. cli[c] \in Command
  BY <1>1
<1>3. /\ cli'[c] = [cli[c] EXCEPT !.at = label, !.target = None]
      /\ \A x \in Cli : x # c => cli'[x] = cli[x]
  BY <1>1
<1>4. cli'[c] \in Command
  BY <1>2, <1>3 DEF Command
<1>5. cli' \in [Cli -> Command]
  BY <1>1, <1>4
<1> QED
  BY <1>2, <1>3, <1>5 DEF Command

LEMMA AskEffect ==
  ASSUME TypeOK, NEW c \in Cli, NEW answer \in Answers, Reachable, Ask(c, answer)
  PROVE  /\ cli' \in [Cli -> Command]
         /\ \A x \in Cli : x # c => cli'[x] = cli[x]
         /\ cli'[c].at = "asking" /\ cli'[c].target \in Proc
         /\ cli'[c].child = cli[c].child /\ cli'[c].answer = answer
<1>1. /\ cli \in [Cli -> Command] /\ socket \in Proc
      /\ cli' = [cli EXCEPT ![c].at = "asking", ![c].target = socket, ![c].answer = answer]
  BY DEF TypeOK, Ask, Reachable
<1>2. cli[c] \in Command
  BY <1>1
<1>3. /\ cli'[c] = [cli[c] EXCEPT !.at = "asking", !.target = socket, !.answer = answer]
      /\ \A x \in Cli : x # c => cli'[x] = cli[x]
  BY <1>1
<1>4. cli'[c] \in Command
  BY <1>1, <1>2, <1>3 DEF Command, CliLabels
<1>5. cli' \in [Cli -> Command]
  BY <1>1, <1>4
<1> QED
  BY <1>1, <1>2, <1>3, <1>5 DEF Command

LEMMA ListKeysEffect ==
  ASSUME TypeOK, NEW c \in Cli, NEW answer \in Answers, ListKeys(c, answer)
  PROVE  /\ cli' \in [Cli -> Command]
         /\ \A x \in Cli : x # c => cli'[x] = cli[x]
         /\ cli'[c].at = "open"
         /\ cli'[c].child = cli[c].child /\ cli'[c].answer = answer
<1>1. cli \in [Cli -> Command] /\ cli' = [cli EXCEPT ![c].at = "open", ![c].answer = answer]
  BY DEF TypeOK, ListKeys
<1>2. cli[c] \in Command
  BY <1>1
<1>3. /\ cli'[c] = [cli[c] EXCEPT !.at = "open", !.answer = answer]
      /\ \A x \in Cli : x # c => cli'[x] = cli[x]
  BY <1>1
<1>4. cli'[c] \in Command
  BY <1>2, <1>3 DEF Command, CliLabels
<1>5. cli' \in [Cli -> Command]
  BY <1>1, <1>4
<1> QED
  BY <1>2, <1>3, <1>5 DEF Command

(* Every step of a command that neither calls, forks nor returns: it moves on, or
   it has its answer, which it may first list keys with; and the answer comes from
   the pipe only in Wait. *)
Moves(c) ==
  /\ cli' \in [Cli -> Command]
  /\ \A x \in Cli : x # c => cli'[x] = cli[x]
  /\ cli[c].at \notin {"idle", "answered"}
  /\ cli'[c].child = cli[c].child
  /\ cli'[c].at \in {"signal", "waitExit", "removePid", "asking"} => cli'[c].target \in Proc
  /\ \/ /\ cli[c].at \notin {"open", "asking"}
        /\ cli'[c].at \in {"connect", "readPid", "signal", "waitExit", "removePid", "dial",
                          "statPid", "startDaemon"}
        /\ cli'[c].answer = cli[c].answer
     \/ /\ cli'[c].at \in {"open", "asking", "answered"}
        /\ cli'[c].answer \in Answers \ {"started", "failed"}
     \/ /\ cli[c].at \in {"open", "asking"}
        /\ cli'[c].at \in {"asking", "answered"}
        /\ cli'[c].answer = cli[c].answer

(* A session begins, ends with its answer, or breaks. *)
SessionStep(c) == OpenSession(c) \/ SessionBreaks(c) \/ \E d \in Proc : ServeSession(d, c)

LEMMA SessionsOnlyAnswer ==
  ASSUME NEW c \in Cli, SessionStep(c)
  PROVE  UNCHANGED <<pidfile, socket, listening, terminated, pipe, pc, served>>
BY DEF SessionStep, OpenSession, SessionBreaks, ServeSession

LEMMA AfterStopEffect ==
  ASSUME TypeOK, NEW c \in Cli, cli[c].at \notin {"idle", "open", "asking", "answered"},
         NEW what \in {"no pidfile", "cannot signal", "stopped"}, AfterStop(c, what)
  PROVE  Moves(c)
<1>1. what \in Answers /\ "dial" \in CliLabels /\ "startDaemon" \in CliLabels
  BY DEF Answers, CliLabels
<1>2. Answer(c, what) \/ CliForget(c, "dial") \/ CliForget(c, "startDaemon")
  BY DEF AfterStop
<1> QED
  BY <1>1, <1>2, AnswerEffect, ForgetEffect DEF Moves

LEMMA CommandMoves ==
  ASSUME TypeOK, NEW c \in Cli,
         Connect(c) \/ ReadPid(c) \/ Signal(c) \/ WaitExit(c) \/ RemoveStopped(c)
           \/ CheckSocket(c) \/ StatPid(c) \/ SessionStep(c)
  PROVE  Moves(c)
<1>0. /\ CliLabels = {"idle", "connect", "readPid", "signal", "waitExit", "removePid", "dial",
                      "statPid", "startDaemon", "waiting", "open", "asking", "answered"}
      /\ {"reconciled", "running", "pidfile exists"} \subseteq Answers \ {"started", "failed"}
  BY DEF CliLabels, Answers
<1>1. CASE Connect(c)
  BY <1>0, <1>1, AskEffect, GotoEffect DEF Connect, Moves
<1>2. CASE ReadPid(c)
  <2>1. cli[c].at \notin {"idle", "open", "asking", "answered"}
    BY <1>2 DEF ReadPid
  <2>2. CASE AfterStop(c, "no pidfile")
    BY <2>1, <2>2, AfterStopEffect
  <2>3. CASE pidfile # None /\ cli' = [cli EXCEPT ![c].at = "signal", ![c].target = pidfile]
    <3>1. cli \in [Cli -> Command] /\ cli[c] \in Command /\ pidfile \in Proc
      BY <2>3 DEF TypeOK
    <3>2. /\ cli'[c] = [cli[c] EXCEPT !.at = "signal", !.target = pidfile]
          /\ \A x \in Cli : x # c => cli'[x] = cli[x]
      BY <3>1, <2>3
    <3>3. cli'[c] \in Command
      BY <3>1, <3>2, <1>0 DEF Command
    <3>4. cli' \in [Cli -> Command]
      BY <3>1, <3>3, <2>3
    <3> QED
      BY <2>1, <3>1, <3>2, <3>4 DEF Moves, Command
  <2> QED
    BY <1>2, <2>2, <2>3 DEF ReadPid, PidRead
<1>3. CASE Signal(c)
  <2>1. cli[c].at \notin {"idle", "open", "asking", "answered"} /\ cli[c].target \in Proc
    BY <1>3 DEF Signal, TypeOK
  <2>2. AfterStop(c, "cannot signal") \/ CliGoto(c, "waitExit")
    BY <1>3 DEF Signal
  <2> QED
    BY <1>0, <2>1, <2>2, AfterStopEffect, GotoEffect DEF Moves
<1>4. CASE WaitExit(c)
  <2>1. /\ cli[c].at \notin {"idle", "open", "asking", "answered"} /\ cli[c].target \in Proc
        /\ CliGoto(c, "removePid")
    BY <1>4 DEF WaitExit, TypeOK
  <2> QED
    BY <1>0, <2>1, GotoEffect DEF Moves
<1>5. CASE RemoveStopped(c)
  BY <1>5, AfterStopEffect DEF RemoveStopped
<1>6. CASE CheckSocket(c)
  BY <1>0, <1>6, ListKeysEffect, GotoEffect DEF CheckSocket, Moves
<1>7. CASE StatPid(c)
  BY <1>0, <1>7, AnswerEffect, GotoEffect DEF StatPid, Moves
<1>8. CASE OpenSession(c)
  <2>1. cli[c].answer \in Answers
    BY DEF TypeOK, Command
  <2> QED
    BY <1>0, <1>8, <2>1, AskEffect, GotoEffect DEF OpenSession, Moves
<1>9. CASE SessionBreaks(c) \/ \E d \in Proc : ServeSession(d, c)
  BY <1>0, <1>9, ForgetEffect DEF SessionBreaks, ServeSession, Moves
<1> QED
  BY <1>1, <1>2, <1>3, <1>4, <1>5, <1>6, <1>7, <1>8, <1>9 DEF SessionStep

(* The steps that are not of that kind. *)
LEMMA CallEffect ==
  ASSUME TypeOK, NEW c \in Cli, Call(c)
  PROVE  /\ cli' \in [Cli -> Command]
         /\ \A x \in Cli : x # c => cli'[x] = cli[x]
         /\ cli'[c].at \in {"dial", "startDaemon", "connect", "readPid"}
         /\ cli'[c].answer = "none"
<1>1. PICK op \in {"start", "tuiStart", "stop", "cliReload", "tuiReload"},
           at \in {"dial", "startDaemon", "connect", "readPid"} :
        cli' = [cli EXCEPT ![c] = Begun(op, at)]
  BY DEF Call
<1>2. /\ Begun(op, at) \in Command
      /\ Begun(op, at).at = at /\ Begun(op, at).answer = "none"
  BY DEF Begun, Command, CliLabels, Answers
<1>3. cli \in [Cli -> Command]
  BY DEF TypeOK
<1> QED
  BY <1>1, <1>2, <1>3

LEMMA ReturnEffect ==
  ASSUME TypeOK, NEW c \in Cli, Return(c)
  PROVE  /\ cli' \in [Cli -> Command]
         /\ \A x \in Cli : x # c => cli'[x] = cli[x]
         /\ cli'[c] = Idle
<1>1. Idle \in Command
  BY DEF Idle, Begun, Command, CliLabels, Answers
<1> QED
  BY <1>1 DEF Return, TypeOK

LEMMA ForkEffect ==
  ASSUME TypeOK, NEW c \in Cli, Fork(c)
  PROVE  \/ Moves(c) /\ UNCHANGED <<pipe, pc>>
         \/ \E d \in Proc :
              /\ pc[d] = "unborn"
              /\ pc' = [pc EXCEPT ![d] = "config"]
              /\ pipe' = [pipe EXCEPT ![d] = "open"]
              /\ cli' \in [Cli -> Command]
              /\ \A x \in Cli : x # c => cli'[x] = cli[x]
              /\ cli[c].at = "startDaemon"
              /\ cli'[c].at = "waiting" /\ cli'[c].child = d /\ cli'[c].answer = cli[c].answer
<1>0. {"running", "cannot fork"} \subseteq Answers \ {"started", "failed"} /\ "waiting" \in CliLabels
  BY DEF CliLabels, Answers
<1>1. CASE (Answer(c, "running") \/ Answer(c, "cannot fork")) /\ UNCHANGED <<pipe, pc>>
  <2>1. Moves(c)
    BY <1>0, <1>1, AnswerEffect DEF Fork, Moves
  <2> QED
    BY <1>1, <2>1
<1>2. ASSUME NEW d \in Proc, pc[d] = "unborn", Goto(d, "config"),
             pipe' = [pipe EXCEPT ![d] = "open"],
             cli' = [cli EXCEPT ![c].at = "waiting", ![c].child = d]
      PROVE  /\ cli' \in [Cli -> Command]
             /\ \A x \in Cli : x # c => cli'[x] = cli[x]
             /\ cli'[c].at = "waiting" /\ cli'[c].child = d /\ cli'[c].answer = cli[c].answer
  <2>1. cli \in [Cli -> Command] /\ cli[c] \in Command
    BY DEF TypeOK
  <2>2. /\ cli'[c] = [cli[c] EXCEPT !.at = "waiting", !.child = d]
        /\ \A x \in Cli : x # c => cli'[x] = cli[x]
    BY <1>2, <2>1
  <2>3. cli'[c] \in Command
    BY <2>1, <2>2, <1>0 DEF Command
  <2>4. cli' \in [Cli -> Command]
    BY <2>1, <2>3, <1>2
  <2> QED
    BY <2>1, <2>2, <2>4 DEF Command
<1> QED
  BY <1>1, <1>2 DEF Fork, Goto

LEMMA WaitEffect ==
  ASSUME TypeOK, NEW c \in Cli, Wait(c)
  PROVE  /\ cli' \in [Cli -> Command]
         /\ \A x \in Cli : x # c => cli'[x] = cli[x]
         /\ cli[c].at = "waiting"
         /\ cli'[c].at \in {"open", "answered"} /\ cli'[c].child = cli[c].child
         /\ \/ cli'[c].answer = "failed" /\ pipe[cli[c].child] = "failed"
            \/ cli'[c].answer = "started" /\ pipe[cli[c].child] \notin {"failed", "open"}
            \/ cli'[c].answer = "not ready"
<1>0. {"started", "failed", "not ready"} \subseteq Answers
  BY DEF Answers
<1>1. \/ pipe[cli[c].child] = "failed" /\ Answer(c, "failed")
      \/ pipe[cli[c].child] \notin {"failed", "open"} /\ (Answer(c, "started") \/ ListKeys(c, "started"))
      \/ Answer(c, "not ready")
  BY DEF Wait, WaitResult, AfterWait
<1>2. cli[c].at = "waiting"
  BY DEF Wait
<1> QED
  BY <1>0, <1>1, <1>2, AnswerEffect, ListKeysEffect

LEMMA TypePreserved == TypeOK /\ [Next]_vars => TypeOK'
<1> SUFFICES ASSUME TypeOK, [Next]_vars PROVE TypeOK'
  OBVIOUS
<1> USE LifecycleAssumption
<1>1. ASSUME NEW d \in Proc, LoadConfig(d) PROVE TypeOK'
  BY <1>1 DEF TypeOK, LoadConfig, Goto
<1>2. ASSUME NEW d \in Proc, CheckRunning(d) PROVE TypeOK'
  BY <1>2 DEF TypeOK, CheckRunning, Goto
<1>3. ASSUME NEW d \in Proc, WritePid(d) PROVE TypeOK'
  BY <1>3 DEF TypeOK, WritePid, Goto
<1>4. ASSUME NEW d \in Proc, OpenVault(d) PROVE TypeOK'
  BY <1>4 DEF TypeOK, OpenVault, Goto, AfterVaultError
<1>5. ASSUME NEW d \in Proc, Dial(d) PROVE TypeOK'
  BY <1>5 DEF TypeOK, Dial, Goto
<1>6. ASSUME NEW d \in Proc, RemoveStale(d) PROVE TypeOK'
  BY <1>6 DEF TypeOK, RemoveStale, Goto
<1>7. ASSUME NEW d \in Proc, Bind(d) PROVE TypeOK'
  BY <1>7 DEF TypeOK, Bind, Goto
<1>8. ASSUME NEW d \in Proc, Ready(d) PROVE TypeOK'
  BY <1>8 DEF TypeOK, Ready, Goto
<1>9. ASSUME NEW d \in Proc, CloseListener(d) PROVE TypeOK'
  BY <1>9 DEF TypeOK, CloseListener, Goto, AfterClose
<1>10. ASSUME NEW d \in Proc, RemoveSocket(d) PROVE TypeOK'
  BY <1>10 DEF TypeOK, RemoveSocket, Goto
<1>11. ASSUME NEW d \in Proc, RemovePid(d) PROVE TypeOK'
  BY <1>11 DEF TypeOK, RemovePid, Goto
<1>12. ASSUME NEW d \in Proc, ReportFailure(d) PROVE TypeOK'
  BY <1>12 DEF TypeOK, ReportFailure, Goto, FailPipe
<1>13. ASSUME NEW d \in Proc, Exit(d) PROVE TypeOK'
  BY <1>13 DEF TypeOK, Exit, Goto, DieNow
<1>14. ASSUME NEW d \in Proc, Crash(d) PROVE TypeOK'
  BY <1>14 DEF TypeOK, Crash, Goto, DieNow, Alive
<1>15. ASSUME NEW d \in Proc, LaunchByHand(d) PROVE TypeOK'
  BY <1>15 DEF TypeOK, LaunchByHand, Goto
<1>16. ASSUME NEW c \in Cli, Call(c) PROVE TypeOK'
  <2>1. UNCHANGED <<pidfile, socket, listening, terminated, pipe, pc, served>>
    BY <1>16 DEF Call
  <2> QED
    BY <1>16, <2>1, CallEffect DEF TypeOK
<1>17. ASSUME NEW c \in Cli, Moves(c),
              pidfile' \in {pidfile, None}, terminated' \subseteq Proc,
              UNCHANGED <<socket, served>>, listening' \subseteq listening,
              pipe' \in [Proc -> {"none", "open", "ready", "failed", "eof"}],
              pc' = pc \/ \E d \in Proc : pc' = [pc EXCEPT ![d] = "dead"]
       PROVE  TypeOK'
  <2>1. /\ cli' \in [Cli -> Command]
        /\ \A x \in Cli :
             cli'[x].at \in {"signal", "waitExit", "removePid", "asking"} => cli'[x].target \in Proc
        /\ \A x \in Cli : cli'[x].at = "waiting" => cli'[x].child \in Proc
    BY <1>17 DEF TypeOK, Moves
  <2> QED
    BY <1>17, <2>1 DEF TypeOK
<1>18. ASSUME NEW c \in Cli,
              Connect(c) \/ ReadPid(c) \/ WaitExit(c) \/ RemoveStopped(c) \/ CheckSocket(c) \/ StatPid(c)
                \/ SessionStep(c)
       PROVE  TypeOK'
  <2>1. /\ pidfile' \in {pidfile, None}
        /\ UNCHANGED <<socket, listening, terminated, pipe, pc, served>>
    BY <1>18, SessionsOnlyAnswer DEF Connect, ReadPid, WaitExit, RemoveStopped, CheckSocket, StatPid
  <2> QED
    BY <1>17, <1>18, <2>1, CommandMoves DEF TypeOK
<1>19. ASSUME NEW c \in Cli, Signal(c) PROVE TypeOK'
  <2>1. cli[c].target \in Proc
    BY <1>19 DEF Signal, TypeOK
  <2>2. /\ terminated' \subseteq Proc
        /\ listening' \subseteq listening
        /\ pipe' \in [Proc -> {"none", "open", "ready", "failed", "eof"}]
        /\ pc' = pc \/ \E d \in Proc : pc' = [pc EXCEPT ![d] = "dead"]
    BY <1>19, <2>1 DEF Signal, TypeOK, DieNow, Goto
  <2>3. UNCHANGED <<pidfile, socket, served>>
    BY <1>19 DEF Signal
  <2> QED
    BY <1>17, <1>19, <2>2, <2>3, CommandMoves
<1>20. ASSUME NEW c \in Cli, Fork(c) PROVE TypeOK'
  <2>1. UNCHANGED <<pidfile, socket, listening, terminated, served>>
    BY <1>20 DEF Fork
  <2>2. CASE Moves(c) /\ UNCHANGED <<pipe, pc>>
    BY <1>17, <2>1, <2>2 DEF TypeOK
  <2>3. ASSUME NEW d \in Proc, pc' = [pc EXCEPT ![d] = "config"],
               pipe' = [pipe EXCEPT ![d] = "open"],
               cli' \in [Cli -> Command], \A x \in Cli : x # c => cli'[x] = cli[x],
               cli'[c].at = "waiting", cli'[c].child = d
        PROVE  TypeOK'
    BY <2>1, <2>3 DEF TypeOK
  <2> QED
    BY <1>20, <2>2, <2>3, ForkEffect
<1>21. ASSUME NEW c \in Cli, Wait(c) PROVE TypeOK'
  <2>1. UNCHANGED <<pidfile, socket, listening, terminated, pipe, pc, served>>
    BY <1>21 DEF Wait
  <2> QED
    BY <1>21, <2>1, WaitEffect DEF TypeOK
<1>22. ASSUME NEW c \in Cli, Return(c) PROVE TypeOK'
  <2>1. UNCHANGED <<pidfile, socket, listening, terminated, pipe, pc, served>>
    BY <1>22 DEF Return
  <2> QED
    BY <1>22, <2>1, ReturnEffect DEF TypeOK, Idle, Begun
<1>27. CASE UNCHANGED vars
  BY <1>27 DEF TypeOK, vars
<1> QED
  BY <1>1, <1>2, <1>3, <1>4, <1>5, <1>6, <1>7, <1>8, <1>9, <1>10, <1>11, <1>12, <1>13, <1>14,
     <1>15, <1>16, <1>18, <1>19, <1>20, <1>21, <1>22, <1>27
     DEF Next, DaemonStep, CliStep, SessionStep

LEMMA PipePreserved ==
  TypeOK /\ PipeAgreesWithDaemon /\ [Next]_vars => PipeAgreesWithDaemon'
<1> SUFFICES ASSUME TypeOK, PipeAgreesWithDaemon, [Next]_vars PROVE PipeAgreesWithDaemon'
  OBVIOUS
<1>1. ASSUME NEW d \in Proc, LoadConfig(d) PROVE PipeAgreesWithDaemon'
  BY <1>1 DEF PipeAgreesWithDaemon, TypeOK, LoadConfig, Goto
<1>2. ASSUME NEW d \in Proc, CheckRunning(d) PROVE PipeAgreesWithDaemon'
  BY <1>2 DEF PipeAgreesWithDaemon, TypeOK, CheckRunning, Goto
<1>3. ASSUME NEW d \in Proc, WritePid(d) PROVE PipeAgreesWithDaemon'
  BY <1>3 DEF PipeAgreesWithDaemon, TypeOK, WritePid, Goto
<1>4. ASSUME NEW d \in Proc, OpenVault(d) PROVE PipeAgreesWithDaemon'
  BY <1>4 DEF PipeAgreesWithDaemon, TypeOK, OpenVault, Goto, AfterVaultError
<1>5. ASSUME NEW d \in Proc, Dial(d) PROVE PipeAgreesWithDaemon'
  BY <1>5 DEF PipeAgreesWithDaemon, TypeOK, Dial, Goto
<1>6. ASSUME NEW d \in Proc, RemoveStale(d) PROVE PipeAgreesWithDaemon'
  BY <1>6 DEF PipeAgreesWithDaemon, TypeOK, RemoveStale, Goto
<1>7. ASSUME NEW d \in Proc, Bind(d) PROVE PipeAgreesWithDaemon'
  BY <1>7 DEF PipeAgreesWithDaemon, TypeOK, Bind, Goto
<1>8. ASSUME NEW d \in Proc, Ready(d) PROVE PipeAgreesWithDaemon'
  BY <1>8 DEF PipeAgreesWithDaemon, TypeOK, Ready, Goto
<1>9. ASSUME NEW d \in Proc, CloseListener(d) PROVE PipeAgreesWithDaemon'
  BY <1>9 DEF PipeAgreesWithDaemon, TypeOK, CloseListener, Goto, AfterClose
<1>10. ASSUME NEW d \in Proc, RemoveSocket(d) PROVE PipeAgreesWithDaemon'
  BY <1>10 DEF PipeAgreesWithDaemon, TypeOK, RemoveSocket, Goto
<1>11. ASSUME NEW d \in Proc, RemovePid(d) PROVE PipeAgreesWithDaemon'
  BY <1>11 DEF PipeAgreesWithDaemon, TypeOK, RemovePid, Goto
<1>12. ASSUME NEW d \in Proc, ReportFailure(d) PROVE PipeAgreesWithDaemon'
  BY <1>12 DEF PipeAgreesWithDaemon, TypeOK, ReportFailure, Goto, FailPipe
<1>13. ASSUME NEW d \in Proc, Exit(d) PROVE PipeAgreesWithDaemon'
  BY <1>13 DEF PipeAgreesWithDaemon, TypeOK, Exit, Goto, DieNow
<1>14. ASSUME NEW d \in Proc, Crash(d) PROVE PipeAgreesWithDaemon'
  BY <1>14 DEF PipeAgreesWithDaemon, TypeOK, Crash, Goto, DieNow, Alive
<1>15. ASSUME NEW d \in Proc, LaunchByHand(d) PROVE PipeAgreesWithDaemon'
  BY <1>15 DEF PipeAgreesWithDaemon, TypeOK, LaunchByHand, Goto
<1>16. CASE UNCHANGED <<pipe, pc, served>>
  BY <1>16 DEF PipeAgreesWithDaemon
<1>17. ASSUME NEW c \in Cli, Signal(c) PROVE PipeAgreesWithDaemon'
  <2>1. CASE UNCHANGED <<pipe, pc>>
    BY <2>1, <1>17, <1>16 DEF Signal
  <2>2. CASE Alive(cli[c].target) /\ DieNow(cli[c].target)
    <3> DEFINE d == cli[c].target
    <3>1. /\ d \in Proc /\ pc[d] \notin {"unborn", "dead"}
          /\ pc' = [pc EXCEPT ![d] = "dead"]
          /\ pipe' = [pipe EXCEPT ![d] = IF @ = "open" THEN "eof" ELSE @]
          /\ served' = served
      BY <1>17, <2>2 DEF Signal, TypeOK, DieNow, Goto, Alive
    <3> HIDE DEF d
    <3> QED
      BY <3>1 DEF PipeAgreesWithDaemon, TypeOK
  <2> QED
    BY <1>17, <2>1, <2>2 DEF Signal
<1>18. ASSUME NEW c \in Cli, Fork(c) PROVE PipeAgreesWithDaemon'
  <2>1. served' = served
    BY <1>18 DEF Fork
  <2>2. ASSUME NEW d \in Proc, pc[d] = "unborn", pc' = [pc EXCEPT ![d] = "config"],
               pipe' = [pipe EXCEPT ![d] = "open"]
        PROVE  PipeAgreesWithDaemon'
    BY <2>1, <2>2 DEF PipeAgreesWithDaemon, TypeOK
  <2> QED
    BY <1>16, <1>18, <2>1, <2>2, ForkEffect
<1>19. ASSUME NEW c \in Cli, Call(c) \/ Connect(c) \/ ReadPid(c) \/ WaitExit(c) \/ RemoveStopped(c)
                \/ CheckSocket(c) \/ StatPid(c) \/ Wait(c) \/ SessionStep(c) \/ Return(c)
       PROVE  UNCHANGED <<pipe, pc, served>>
  BY <1>19, SessionsOnlyAnswer DEF Call, Connect, ReadPid, WaitExit, RemoveStopped, CheckSocket, StatPid, Wait, Return
<1> QED
  BY <1>1, <1>2, <1>3, <1>4, <1>5, <1>6, <1>7, <1>8, <1>9, <1>10, <1>11, <1>12, <1>13, <1>14,
     <1>15, <1>16, <1>17, <1>18, <1>19
     DEF Next, DaemonStep, CliStep, SessionStep, vars

(* One command's part of the invariant. *)
Agrees(c) ==
  /\ cli[c].at = "waiting" => cli[c].child \in Proc /\ pipe[cli[c].child] # "none"
  /\ cli[c].at \notin {"open", "asking", "answered"} => cli[c].answer = "none"
  /\ cli[c].answer = "failed"  => cli[c].child \in Proc /\ pipe[cli[c].child] = "failed"
  /\ cli[c].answer = "started" => cli[c].child \in Proc /\ pipe[cli[c].child] \in {"ready", "eof"}

(* A pipe that is no longer open stays as it is, and one that is there stays there. *)
PipesKept ==
  \A d \in Proc :
    /\ pipe[d] \in {"ready", "failed", "eof"} => pipe'[d] = pipe[d]
    /\ pipe[d] # "none" => pipe'[d] # "none"

LEMMA PipesAreKept == TypeOK /\ PipeAgreesWithDaemon /\ [Next]_vars => PipesKept
<1> SUFFICES ASSUME TypeOK, PipeAgreesWithDaemon, [Next]_vars PROVE PipesKept
  OBVIOUS
<1>1. ASSUME NEW d \in Proc, Ready(d) \/ ReportFailure(d) \/ Exit(d) \/ Crash(d) PROVE PipesKept
  BY <1>1 DEF PipesKept, TypeOK, Ready, ReportFailure, FailPipe, Exit, Crash, DieNow
<1>2. ASSUME NEW c \in Cli, Signal(c) PROVE PipesKept
  BY <1>2 DEF PipesKept, TypeOK, Signal, DieNow
<1>3. ASSUME NEW c \in Cli, Fork(c) PROVE PipesKept
  BY <1>3 DEF PipesKept, TypeOK, PipeAgreesWithDaemon, Fork
<1>4. CASE UNCHANGED pipe
  BY <1>4 DEF PipesKept
<1>5. ASSUME NEW d \in Proc, LoadConfig(d) \/ CheckRunning(d) \/ WritePid(d) \/ OpenVault(d) \/ Dial(d)
               \/ RemoveStale(d) \/ Bind(d) \/ CloseListener(d) \/ RemoveSocket(d) \/ RemovePid(d)
               \/ LaunchByHand(d)
      PROVE  UNCHANGED pipe
  BY <1>5 DEF LoadConfig, CheckRunning, WritePid, OpenVault, Dial, RemoveStale, Bind, CloseListener,
     RemoveSocket, RemovePid, LaunchByHand
<1>6. ASSUME NEW c \in Cli, Call(c) \/ Connect(c) \/ ReadPid(c) \/ WaitExit(c) \/ RemoveStopped(c)
               \/ CheckSocket(c) \/ StatPid(c) \/ Wait(c) \/ SessionStep(c) \/ Return(c)
      PROVE  UNCHANGED pipe
  BY <1>6, SessionsOnlyAnswer DEF Call, Connect, ReadPid, WaitExit, RemoveStopped, CheckSocket, StatPid, Wait, Return
<1> QED
  BY <1>1, <1>2, <1>3, <1>4, <1>5, <1>6 DEF Next, DaemonStep, CliStep, SessionStep, vars

LEMMA AnswerPreserved ==
  TypeOK /\ PipeAgreesWithDaemon /\ AnswerAgreesWithPipe /\ [Next]_vars => AnswerAgreesWithPipe'
<1> SUFFICES ASSUME TypeOK, PipeAgreesWithDaemon, AnswerAgreesWithPipe, [Next]_vars
             PROVE  AnswerAgreesWithPipe'
  OBVIOUS
<1>1. PipesKept /\ \A x \in Cli : Agrees(x)
  BY PipesAreKept DEF AnswerAgreesWithPipe, Agrees
<1>2. ASSUME NEW x \in Cli, cli'[x] = cli[x] PROVE Agrees(x)'
  <2>1. Agrees(x) /\ PipesKept
    BY <1>1
  <2>2. cli'[x].child = cli[x].child /\ cli'[x].at = cli[x].at /\ cli'[x].answer = cli[x].answer
    BY <1>2
  <2>3. ASSUME cli[x].child \in Proc
        PROVE  /\ pipe[cli[x].child] # "none" => pipe'[cli[x].child] # "none"
               /\ pipe[cli[x].child] \in {"ready", "failed", "eof"} =>
                    pipe'[cli[x].child] = pipe[cli[x].child]
    BY <2>1, <2>3 DEF PipesKept
  <2>4. cli'[x].at = "waiting" => cli'[x].child \in Proc /\ pipe'[cli'[x].child] # "none"
    BY <2>1, <2>2, <2>3 DEF Agrees
  <2>5. cli'[x].answer = "failed" => cli'[x].child \in Proc /\ pipe'[cli'[x].child] = "failed"
    BY <2>1, <2>2, <2>3 DEF Agrees
  <2>6. cli'[x].answer = "started" =>
          cli'[x].child \in Proc /\ pipe'[cli'[x].child] \in {"ready", "eof"}
    BY <2>1, <2>2, <2>3 DEF Agrees
  <2>7. cli'[x].at \notin {"open", "asking", "answered"} => cli'[x].answer = "none"
    BY <2>1, <2>2 DEF Agrees
  <2> QED
    BY <2>4, <2>5, <2>6, <2>7 DEF Agrees
<1>3. ASSUME \A x \in Cli : Agrees(x)' PROVE AnswerAgreesWithPipe'
  BY <1>3 DEF AnswerAgreesWithPipe, Agrees
<1>4. ASSUME NEW c \in Cli, Moves(c) PROVE AnswerAgreesWithPipe'
  <2>1. /\ cli'[c].child = cli[c].child
        /\ cli[c].child \in Proc /\ pipe[cli[c].child] \in {"ready", "failed", "eof"} =>
             pipe'[cli[c].child] = pipe[cli[c].child]
    BY <1>1, <1>4 DEF Moves, PipesKept
  <2>2. Agrees(c)'
    BY <2>1, <1>1, <1>4 DEF Agrees, Moves
  <2> QED
    BY <2>2, <1>2, <1>3, <1>4 DEF Moves
<1>5. ASSUME NEW c \in Cli, Call(c) \/ Return(c) PROVE AnswerAgreesWithPipe'
  <2>1. Agrees(c)'
    BY <1>5, CallEffect, ReturnEffect DEF Agrees, Idle, Begun
  <2> QED
    BY <2>1, <1>2, <1>3, <1>5, CallEffect, ReturnEffect
<1>6. ASSUME NEW c \in Cli, Fork(c) PROVE AnswerAgreesWithPipe'
  <2>1. ASSUME NEW d \in Proc, pipe' = [pipe EXCEPT ![d] = "open"],
               \A x \in Cli : x # c => cli'[x] = cli[x], cli[c].at = "startDaemon",
               cli'[c].at = "waiting", cli'[c].child = d, cli'[c].answer = cli[c].answer
        PROVE  AnswerAgreesWithPipe'
    <3>1. pipe'[d] = "open"
      BY <2>1 DEF TypeOK
    <3>2. Agrees(c)'
      BY <2>1, <3>1, <1>1 DEF Agrees
    <3> QED
      BY <2>1, <3>2, <1>2, <1>3
  <2> QED
    BY <1>6, <2>1, <1>4, ForkEffect
<1>7. ASSUME NEW c \in Cli, Wait(c) PROVE AnswerAgreesWithPipe'
  <2>1. cli[c].child \in Proc /\ pipe[cli[c].child] # "none" /\ pipe' = pipe
    BY <1>1, <1>7 DEF Agrees, Wait
  <2>2. pipe[cli[c].child] \in {"none", "open", "ready", "failed", "eof"}
    BY <2>1 DEF TypeOK
  <2>3. Agrees(c)'
    BY <1>7, <2>1, <2>2, WaitEffect DEF Agrees
  <2> QED
    BY <2>3, <1>2, <1>3, <1>7, WaitEffect
<1>8. CASE UNCHANGED cli
  BY <1>8, <1>2, <1>3
<1>9. ASSUME NEW d \in Proc, DaemonStep(d) \/ Crash(d) \/ LaunchByHand(d) PROVE UNCHANGED cli
  BY <1>9 DEF DaemonStep, LoadConfig, CheckRunning, WritePid, OpenVault, Dial, RemoveStale, Bind, Ready,
     CloseListener, RemoveSocket, RemovePid, ReportFailure, Exit, Crash, LaunchByHand
<1> QED
  BY <1>4, <1>5, <1>6, <1>7, <1>8, <1>9, CommandMoves DEF Next, CliStep, SessionStep, vars

-----------------------------------------------------------------------------
(* Whatever the commands and daemons do, in whatever order they die, a pipe says
   how far its daemon came and an answer what the pipe said. *)
THEOREM Invariance == Spec => []IInv
<1>1. IInv /\ [Next]_vars => IInv'
  BY TypePreserved, PipePreserved, AnswerPreserved DEF IInv
<1> QED
  BY InitInvariant, <1>1, PTL DEF Spec

(* The state of the daemons, their files and their commands keeps its types. *)
THEOREM TypeCorrect == Spec => []TypeOK
BY Invariance, PTL DEF IInv

(* A start that reports its daemon's error started a daemon that never accepted a
   connection; one that reports success, a daemon that did or that died without a
   word (readypipe.go:72-94). *)
THEOREM StartReportsTruly == Spec => []StartReports
<1>1. IInv => StartReports
  BY DEF IInv, StartReports, TypeOK, PipeAgreesWithDaemon, AnswerAgreesWithPipe
<1> QED
  BY Invariance, <1>1, PTL

-----------------------------------------------------------------------------
(* Orderly behaviours: the proof of QuietMeansConsistent. *)

Untouched == \A d \in Proc : pc[d] = "unborn" => d \notin terminated

LEMMA UntouchedPreserved == TypeOK /\ Untouched /\ [Next]_vars => Untouched'
<1> SUFFICES ASSUME TypeOK, Untouched, [Next]_vars PROVE Untouched'
  OBVIOUS
<1>1. ASSUME NEW d \in Proc, DaemonStep(d) \/ Crash(d) \/ LaunchByHand(d) PROVE Untouched'
  BY <1>1 DEF Untouched, TypeOK, DaemonStep, LoadConfig, CheckRunning, WritePid, OpenVault, Dial,
     RemoveStale, Bind, Ready, CloseListener, RemoveSocket, RemovePid, ReportFailure, FailPipe, Exit,
     Crash, DieNow, LaunchByHand, Goto, AfterVaultError, AfterClose
<1>2. ASSUME NEW c \in Cli, Signal(c) PROVE Untouched'
  <2>1. PICK t \in Proc : t = cli[c].target
    BY <1>2 DEF Signal, TypeOK
  <2> QED
    BY <1>2, <2>1 DEF Untouched, TypeOK, Signal, DieNow, Goto, Alive, Catches
<1>3. ASSUME NEW c \in Cli, Fork(c) PROVE Untouched'
  BY <1>3 DEF Untouched, TypeOK, Fork, Goto
<1>4. CASE UNCHANGED <<pc, terminated>>
  BY <1>4 DEF Untouched
<1>5. ASSUME NEW c \in Cli, Call(c) \/ Connect(c) \/ ReadPid(c) \/ WaitExit(c) \/ RemoveStopped(c)
               \/ CheckSocket(c) \/ StatPid(c) \/ Wait(c) \/ SessionStep(c) \/ Return(c)
      PROVE  UNCHANGED <<pc, terminated>>
  BY <1>5, SessionsOnlyAnswer DEF Call, Connect, ReadPid, WaitExit, RemoveStopped, CheckSocket, StatPid, Wait, Return
<1> QED
  BY <1>1, <1>2, <1>3, <1>4, <1>5 DEF Next, CliStep, SessionStep, vars

(* A daemon that is gone only ends: nobody notices. *)
LEMMA GoneOnlyExits ==
  ASSUME TypeOK, NEW d \in Proc, DaemonStep(d), Gone(d)
  PROVE  /\ pc[d] = "exit" /\ pc' = [pc EXCEPT ![d] = "dead"]
         /\ listening' = listening \ {d}
         /\ pipe' = [pipe EXCEPT ![d] = IF @ = "open" THEN "eof" ELSE @]
         /\ UNCHANGED <<pidfile, socket, terminated>>
BY DEF DaemonStep, LoadConfig, CheckRunning, WritePid, OpenVault, Dial, RemoveStale, Bind, Ready,
   CloseListener, RemoveSocket, RemovePid, ReportFailure, Exit, DieNow, Goto, Gone

LEMMA NothingRunsKept ==
  ASSUME TypeOK, NEW d \in Proc, DaemonStep(d), NothingRuns
  PROVE  NothingRuns'
<1>1. Gone(d)
  BY DEF NothingRuns
<1> QED
  BY <1>1, GoneOnlyExits DEF NothingRuns, NoTrace, Gone, TypeOK

(* While one daemon is in place, the step of another changes nothing of it. *)
LEMMA OthersStep ==
  ASSUME TypeOK, NEW d \in Proc, NEW e \in Proc, d # e, DaemonStep(d), OthersGone(e)
  PROVE  /\ OthersGone(e)'
         /\ pc'[e] = pc[e] /\ pipe'[e] = pipe[e]
         /\ listening' = listening \ {d}
         /\ UNCHANGED <<pidfile, socket, terminated>>
<1>1. Gone(d)
  BY DEF OthersGone
<1> QED
  BY <1>1, GoneOnlyExits DEF OthersGone, Gone, TypeOK

(* A daemon's own step does not disturb the others. *)
LEMMA OwnStep ==
  ASSUME TypeOK, NEW e \in Proc, DaemonStep(e), OthersGone(e)
  PROVE  OthersGone(e)' /\ terminated' = terminated
<1>1. terminated' = terminated /\ \A x \in Proc \ {e} : pc'[x] = pc[x]
  BY DEF DaemonStep, LoadConfig, CheckRunning, WritePid, OpenVault, Dial, RemoveStale, Bind, Ready,
     CloseListener, RemoveSocket, RemovePid, ReportFailure, Exit, DieNow, Goto, TypeOK
<1> QED
  BY <1>1 DEF OthersGone, Gone

LEMMA OneRunsKept ==
  ASSUME TypeOK, NEW d \in Proc, NEW e \in Proc, DaemonStep(d), OneRuns(e)
  PROVE  OneRuns(e)'
<1>1. CASE d # e
  BY <1>1, OthersStep DEF OneRuns, InPlace
<1>2. CASE d = e
  BY <1>2 DEF OneRuns, DaemonStep, LoadConfig, CheckRunning, WritePid, OpenVault, Dial, RemoveStale,
     Bind, Ready, CloseListener, RemoveSocket, RemovePid, ReportFailure, Exit
<1> QED
  BY <1>1, <1>2

LEMMA StoppingKept ==
  ASSUME TypeOK, NEW d \in Proc, NEW e \in Proc, DaemonStep(d), Stopping(e)
  PROVE  Stopping(e)'
<1>0. OthersGone(e)
  BY DEF Stopping
<1>1. CASE d # e
  BY <1>0, <1>1, OthersStep DEF Stopping, InPlace, OnlyPidfile, NoTrace
<1>2. CASE d = e
  <2>1. OthersGone(e)'
    BY <1>0, <1>2, OwnStep
  <2>2. pc[e] \in {"serving", "removeSocket", "removePid", "exiting", "exit", "dead"}
    BY DEF Stopping
  <2>3. CloseListener(e) \/ RemoveSocket(e) \/ RemovePid(e) \/ ReportFailure(e) \/ Exit(e)
    BY <1>2, <2>2 DEF DaemonStep, LoadConfig, CheckRunning, WritePid, OpenVault, Dial, RemoveStale,
       Bind, Ready
  <2> QED
    BY <2>1, <2>3 DEF Stopping, InPlace, OnlyPidfile, NoTrace, TypeOK, CloseListener, RemoveSocket,
       RemovePid, ReportFailure, FailPipe, Exit, DieNow, Goto, AfterClose
<1> QED
  BY <1>1, <1>2

LEMMA StartingKept ==
  ASSUME TypeOK, NEW d \in Proc, NEW e \in Proc, DaemonStep(d), Starting(e)
  PROVE  Starting(e)'
<1>0. OthersGone(e) /\ e \notin terminated
  BY DEF Starting
<1>1. CASE d # e
  BY <1>0, <1>1, OthersStep DEF Starting, InPlace, OnlyPidfile, NoTrace
<1>2. CASE d = e
  <2>1. OthersGone(e)' /\ e \notin terminated'
    BY <1>0, <1>2, OwnStep
  <2>2. CASE LoadConfig(e) \/ CheckRunning(e)
    BY <2>1, <2>2 DEF Starting, NoTrace, LoadConfig, CheckRunning, Goto, TypeOK
  <2>3. CASE WritePid(e)
    BY <2>1, <2>3 DEF Starting, NoTrace, OnlyPidfile, WritePid, Goto, TypeOK
  <2>4. CASE OpenVault(e) \/ Dial(e) \/ RemoveStale(e)
    <3>1. /\ pc[e] \in {"openVault", "dial", "removeStale"}
          /\ \E label \in {"dial", "removeStale", "bind", "removeSocket", "removePid"} :
               pc' = [pc EXCEPT ![e] = label]
          /\ UNCHANGED <<pidfile, listening, pipe>>
          /\ socket' \in {socket, None}
      BY <2>4 DEF OpenVault, Dial, RemoveStale, Goto, AfterVaultError
    <3>2. pc'[e] \in {"dial", "removeStale", "bind", "removeSocket", "removePid"}
      BY <3>1 DEF TypeOK
    <3>3. OnlyPidfile(e) /\ pipe[e] = "open"
      BY <3>1 DEF Starting
    <3> QED
      BY <2>1, <3>1, <3>2, <3>3 DEF Starting, OnlyPidfile
  <2>5. CASE Bind(e)
    BY <2>1, <2>5 DEF Starting, OnlyPidfile, InPlace, Bind, Goto, TypeOK
  <2>6. CASE Ready(e)
    BY <2>1, <2>6 DEF Starting, InPlace, Ready, Goto, TypeOK
  <2>7. CASE CloseListener(e)
    BY <1>0, <2>7 DEF CloseListener
  <2>8. CASE RemoveSocket(e) \/ RemovePid(e)
    BY <2>1, <2>8 DEF Starting, OnlyPidfile, NoTrace, RemoveSocket, RemovePid, Goto, TypeOK
  <2>9. CASE ReportFailure(e)
    BY <2>1, <2>9 DEF Starting, NoTrace, ReportFailure, FailPipe, Goto, TypeOK
  <2>10. CASE Exit(e)
    BY <2>1, <2>10 DEF Starting, NoTrace, Exit, DieNow, Goto, TypeOK
  <2> QED
    BY <1>2, <2>2, <2>3, <2>4, <2>5, <2>6, <2>7, <2>8, <2>9, <2>10 DEF DaemonStep
<1> QED
  BY <1>1, <1>2

-----------------------------------------------------------------------------
(* The steps of a command that is the only one under way. *)

Elsewhere(c) == \A b \in Cli : b # c => cli'[b] = cli[b]

(* What the step of the only command under way must lead to. *)
LEMMA AloneSuffices ==
  ASSUME NEW c \in Cli, \A b \in Cli : b # c => Resting(b), Elsewhere(c),
         Resting(c)' => Settled',
         Progress(c)'
  PROVE  /\ \A b \in Cli, x \in Cli : b # x => Resting(b)' \/ Resting(x)'
         /\ (\A x \in Cli : Resting(x)') => Settled'
         /\ \A x \in Cli : Progress(x)'
<1>1. \A b \in Cli : b # c => Resting(b)'
  BY DEF Resting, Elsewhere
<1>2. \A b \in Cli : b # c => Progress(b)'
  BY <1>1 DEF Progress, Resting
<1> QED
  BY <1>1, <1>2

(* Once it is settled what runs, a reload that goes on and a stop that returns both
   find the state settled. *)
LEMMA AfterStopProgress ==
  ASSUME TypeOK, NEW c \in Cli, NEW what \in {"no pidfile", "cannot signal", "stopped"},
         AfterStop(c, what), Settled'
  PROVE  Progress(c)' /\ Elsewhere(c)
<1>1. what \in Answers /\ "dial" \in CliLabels /\ "startDaemon" \in CliLabels
  BY DEF Answers, CliLabels
<1>2. Answer(c, what) \/ CliForget(c, "dial") \/ CliForget(c, "startDaemon")
  BY DEF AfterStop
<1> QED
  BY <1>1, <1>2, AnswerEffect, ForgetEffect DEF Progress, Elsewhere

LEMMA SettledTransfers ==
  ASSUME UNCHANGED <<pidfile, socket, listening, terminated, pipe, pc>>
  PROVE  /\ Settled' <=> Settled
         /\ NothingRuns' <=> NothingRuns
         /\ \A d \in Proc : OneRuns(d)' <=> OneRuns(d)
         /\ \A d \in Proc : Stopping(d)' <=> Stopping(d)
         /\ \A d \in Proc : Starting(d)' <=> Starting(d)
BY DEF Settled, NothingRuns, OneRuns, Stopping, Starting, OthersGone, Gone, NoTrace, InPlace, OnlyPidfile

(* Nothing can be reached where nothing runs, and what runs can be. *)
LEMMA WhatCanBeReached ==
  ASSUME TypeOK, Settled
  PROVE  /\ ~Reachable => NothingRuns
         /\ pidfile = None => NothingRuns
         /\ pidfile # None => pidfile \in Proc /\ OneRuns(pidfile)
BY LifecycleAssumption DEF Settled, NothingRuns, OneRuns, NoTrace, InPlace, Reachable, TypeOK

LEMMA AnsweredProgress ==
  ASSUME TypeOK, NEW c \in Cli, NEW what \in Answers, Answer(c, what)
  PROVE  Progress(c)' /\ Elsewhere(c) /\ Resting(c)'
BY AnswerEffect DEF Progress, Elsewhere, Resting

LEMMA LabelsAreLabels ==
  /\ {"readPid", "waitExit", "removePid", "dial", "statPid", "startDaemon", "answered"}
       \subseteq CliLabels
  /\ Answers = {"none", "reconciled", "no pidfile", "cannot signal", "stopped", "running",
                "pidfile exists", "cannot fork", "started", "failed", "not ready"}
BY DEF CliLabels, Answers

Lead(c) == (Resting(c)' => Settled') /\ Progress(c)' /\ Elsewhere(c)

LEMMA ConnectLeads == ASSUME TypeOK, NEW c \in Cli, Progress(c), Connect(c) PROVE Lead(c)
<1>1. Settled' /\ cli[c].at = "connect"
  BY SettledTransfers DEF Connect, Progress
<1>2. CASE Reachable /\ Ask(c, "reconciled")
  BY <1>1, <1>2, LabelsAreLabels, AskEffect DEF Lead, Progress, Elsewhere
<1>3. CASE CliGoto(c, "readPid")
  BY <1>1, <1>3, LabelsAreLabels, GotoEffect DEF Lead, Progress, Elsewhere
<1> QED
  BY <1>2, <1>3 DEF Connect

LEMMA ReadPidLeads == ASSUME TypeOK, NEW c \in Cli, Progress(c), ReadPid(c) PROVE Lead(c)
<1>1. Settled' /\ Settled /\ UNCHANGED <<pidfile, socket, listening, terminated, pipe, pc>>
  BY SettledTransfers DEF ReadPid, Progress
<1>2. CASE pidfile = None
  BY <1>1, <1>2, AfterStopProgress DEF ReadPid, Lead
<1>3. CASE pidfile # None
  <2>1. PICK d \in Proc : d = pidfile
    BY <1>3 DEF TypeOK
  <2>2. OneRuns(d)'
    BY <1>1, <1>3, <2>1, WhatCanBeReached, SettledTransfers
  <2>3. cli \in [Cli -> Command] /\ cli' = [cli EXCEPT ![c].at = "signal", ![c].target = d]
    BY <1>3, <2>1 DEF ReadPid, PidRead, TypeOK
  <2>4. cli'[c].at = "signal" /\ cli'[c].target = d /\ Elsewhere(c)
    BY <2>3 DEF Command, Elsewhere
  <2> QED
    BY <1>1, <2>2, <2>4 DEF Lead, Progress
<1> QED
  BY <1>2, <1>3

LEMMA SignalLeads == ASSUME TypeOK, NEW c \in Cli, Progress(c), Signal(c) PROVE Lead(c)
<1>1. PICK d \in Proc : d = cli[c].target
  BY DEF Signal, TypeOK
<1>2. OneRuns(d) /\ cli[c].at = "signal"
  BY <1>1 DEF Progress, Signal
<1>3. Alive(d) /\ Catches(d) /\ terminated' = terminated \cup {d} /\ CliGoto(c, "waitExit")
      /\ UNCHANGED <<pidfile, socket, listening, pipe, pc>>
  BY <1>1, <1>2 DEF Signal, OneRuns, Catches
<1>4. Stopping(d)'
  BY <1>2, <1>3 DEF OneRuns, Stopping, OthersGone, Gone, InPlace
<1>5. cli'[c].at = "waitExit" /\ cli'[c].target = d /\ Elsewhere(c)
  BY <1>1, <1>3, LabelsAreLabels, GotoEffect DEF Elsewhere
<1> QED
  BY <1>4, <1>5 DEF Lead, Progress, Resting

LEMMA WaitExitLeads ==
  ASSUME TypeOK, NEW c \in Cli, Progress(c), WaitExit(c), ~RanOut(c), Untouched
  PROVE  Lead(c)
<1>1. PICK d \in Proc : d = cli[c].target
  BY DEF WaitExit, TypeOK
<1>2. Stopping(d) /\ ~Alive(d)
  BY <1>1 DEF Progress, WaitExit, RanOut
<1>3. NothingRuns
  BY <1>2 DEF Stopping, Alive, NothingRuns, OthersGone, Gone
<1>4. NothingRuns' /\ cli'[c].at = "removePid" /\ Elsewhere(c)
  BY <1>3, SettledTransfers, LabelsAreLabels, GotoEffect DEF WaitExit, Elsewhere
<1> QED
  BY <1>4 DEF Lead, Progress, Resting

LEMMA RemoveStoppedLeads == ASSUME TypeOK, NEW c \in Cli, Progress(c), RemoveStopped(c) PROVE Lead(c)
<1>1. NothingRuns
  BY DEF Progress, RemoveStopped
<1>2. Settled'
  BY <1>1 DEF Settled, RemoveStopped, NothingRuns, NoTrace, Gone
<1> QED
  BY <1>2, AfterStopProgress DEF Lead, RemoveStopped

LEMMA CheckSocketLeads == ASSUME TypeOK, NEW c \in Cli, Progress(c), CheckSocket(c) PROVE Lead(c)
<1>1. Settled /\ Settled' /\ UNCHANGED <<pidfile, socket, listening, terminated, pipe, pc>>
  BY SettledTransfers DEF CheckSocket, Progress
<1>2. CASE ListKeys(c, "running")
  BY <1>1, <1>2, LabelsAreLabels, ListKeysEffect DEF Lead, Progress, Elsewhere
<1>3. CASE ~Reachable /\ CliGoto(c, "statPid")
  BY <1>1, <1>3, WhatCanBeReached, SettledTransfers, LabelsAreLabels, GotoEffect
     DEF Lead, Progress, Elsewhere
<1> QED
  BY <1>2, <1>3 DEF CheckSocket

LEMMA StatPidLeads == ASSUME TypeOK, NEW c \in Cli, Progress(c), StatPid(c) PROVE Lead(c)
<1>1. NothingRuns' /\ Settled'
  BY SettledTransfers DEF StatPid, Progress, Settled
<1>2. CASE Answer(c, "pidfile exists")
  BY <1>1, <1>2, LabelsAreLabels, AnsweredProgress DEF Lead
<1>3. CASE CliGoto(c, "startDaemon")
  BY <1>1, <1>3, LabelsAreLabels, GotoEffect DEF Lead, Progress, Elsewhere
<1> QED
  BY <1>2, <1>3 DEF StatPid

LEMMA ForkLeads == ASSUME TypeOK, Untouched, NEW c \in Cli, Progress(c), Fork(c) PROVE Lead(c)
<1>1. Settled /\ UNCHANGED <<pidfile, socket, listening, terminated>>
  BY DEF Fork, Progress
<1>2. CASE (Answer(c, "running") \/ Answer(c, "cannot fork")) /\ UNCHANGED <<pipe, pc>>
  BY <1>1, <1>2, SettledTransfers, LabelsAreLabels, AnsweredProgress DEF Lead
<1>3. ASSUME ~Reachable, NEW d \in Proc, pc[d] = "unborn", Goto(d, "config"),
             pipe' = [pipe EXCEPT ![d] = "open"],
             cli' = [cli EXCEPT ![c].at = "waiting", ![c].child = d]
      PROVE  Lead(c)
  <2>1. NothingRuns
    BY <1>1, <1>3, WhatCanBeReached
  <2>2. pc'[d] = "config" /\ pipe'[d] = "open" /\ \A e \in Proc \ {d} : pc'[e] = pc[e]
    BY <1>3 DEF Goto, TypeOK
  <2>3. Starting(d)'
    BY <1>1, <1>3, <2>1, <2>2 DEF Starting, NothingRuns, OthersGone, Gone, NoTrace, Untouched
  <2>4. cli \in [Cli -> Command]
    BY DEF TypeOK
  <2>5. cli'[c].at = "waiting" /\ cli'[c].child = d /\ Elsewhere(c)
    BY <1>3, <2>4 DEF Command, Elsewhere
  <2> QED
    BY <2>3, <2>5 DEF Lead, Progress, Resting
<1> QED
  BY <1>2, <1>3 DEF Fork

LEMMA WaitLeads ==
  ASSUME IInv, NEW c \in Cli, Progress(c), Wait(c), ~RanOut(c)
  PROVE  Lead(c)
<1>0. TypeOK
  BY DEF IInv
<1>1. PICK d \in Proc : d = cli[c].child
  BY <1>0 DEF Wait, TypeOK
<1>2. Starting(d) /\ pipe[d] # "open"
  BY <1>1 DEF Progress, Wait, RanOut
<1>3. OneRuns(d) \/ NothingRuns
  BY <1>2 DEF Starting, OneRuns, NothingRuns, OthersGone, Gone
<1>4. Settled'
  BY <1>3, SettledTransfers DEF Wait, Settled
<1>5. \E what \in Answers : Answer(c, what) \/ ListKeys(c, what)
  BY LabelsAreLabels DEF Wait, WaitResult, AfterWait
<1> QED
  BY <1>0, <1>4, <1>5, AnsweredProgress, ListKeysEffect DEF Lead, Progress, Elsewhere

LEMMA SessionLeads == ASSUME TypeOK, NEW c \in Cli, Progress(c), SessionStep(c) PROVE Lead(c)
<1>1. Settled' /\ cli[c].answer \in Answers
  BY SettledTransfers, SessionsOnlyAnswer
     DEF SessionStep, OpenSession, SessionBreaks, ServeSession, Progress, TypeOK, Command
<1>2. CASE Reachable /\ Ask(c, cli[c].answer)
  BY <1>1, <1>2, AskEffect DEF Lead, Progress, Elsewhere
<1>3. CASE CliGoto(c, "answered")
  BY <1>1, <1>3, LabelsAreLabels, GotoEffect DEF Lead, Progress, Elsewhere
<1>4. CASE CliForget(c, "answered")
  BY <1>1, <1>4, LabelsAreLabels, ForgetEffect DEF Lead, Progress, Elsewhere
<1> QED
  BY <1>2, <1>3, <1>4 DEF SessionStep, OpenSession, SessionBreaks, ServeSession

(* A daemon's step, whatever the command under way waits for. *)
LEMMA DaemonStepProgress ==
  ASSUME TypeOK, NEW d \in Proc, DaemonStep(d)
  PROVE  /\ UNCHANGED cli
         /\ Settled => Settled'
         /\ \A c \in Cli : Progress(c) => Progress(c)'
<1>1. UNCHANGED cli
  BY DEF DaemonStep, LoadConfig, CheckRunning, WritePid, OpenVault, Dial, RemoveStale, Bind, Ready,
     CloseListener, RemoveSocket, RemovePid, ReportFailure, Exit
<1>2. Settled => Settled'
  BY NothingRunsKept, OneRunsKept DEF Settled
<1>3. ASSUME NEW c \in Cli, Progress(c) PROVE Progress(c)'
  <2>1. CASE cli[c].at = "signal"
    <3>1. PICK e \in Proc : e = cli[c].target
      BY <2>1 DEF TypeOK
    <3>2. OneRuns(e)'
      BY <1>3, <2>1, <3>1, OneRunsKept DEF Progress
    <3> QED
      BY <1>1, <2>1, <3>1, <3>2 DEF Progress
  <2>2. CASE cli[c].at = "waitExit"
    <3>1. PICK e \in Proc : e = cli[c].target
      BY <2>2 DEF TypeOK
    <3>2. Stopping(e)'
      BY <1>3, <2>2, <3>1, StoppingKept DEF Progress
    <3> QED
      BY <1>1, <2>2, <3>1, <3>2 DEF Progress
  <2>3. CASE cli[c].at = "waiting"
    <3>1. PICK e \in Proc : e = cli[c].child
      BY <2>3 DEF TypeOK
    <3>2. Starting(e)'
      BY <1>3, <2>3, <3>1, StartingKept DEF Progress
    <3> QED
      BY <1>1, <2>3, <3>1, <3>2 DEF Progress
  <2>4. CASE cli[c].at \notin {"signal", "waitExit", "waiting"}
    BY <1>1, <1>2, <1>3, <2>4, NothingRunsKept DEF Progress
  <2> QED
    BY <2>1, <2>2, <2>3, <2>4
<1> QED
  BY <1>1, <1>2, <1>3

-----------------------------------------------------------------------------
OIInv == IInv /\ OrderInv

LEMMA ONextIsNext == [ONext]_ovars => [Next]_vars
BY DEF ONext, ovars, Next

LEMMA OInitInvariant == OInit => OIInv
<1> SUFFICES ASSUME OInit PROVE OIInv
  OBVIOUS
<1>1. Settled /\ \A c \in Cli : Resting(c) /\ Progress(c)
  BY DEF OInit, Init, Settled, NothingRuns, NoTrace, Gone, Resting, Progress, Idle, Begun
<1> QED
  BY <1>1, InitInvariant DEF OIInv, OrderInv, OInit, Init

(* The part of OrderInv that only orderly behaviours have. *)
InOrder ==
  /\ \A b, c \in Cli : b # c => Resting(b) \/ Resting(c)
  /\ (\A c \in Cli : Resting(c)) => Settled
  /\ \A c \in Cli : Progress(c)

LEMMA CliStepInOrder ==
  ASSUME IInv, Untouched, InOrder, NEW c \in Cli,
         (CliStep(c) /\ ~RanOut(c)) \/ SessionStep(c)
  PROVE  InOrder'
<1>1. TypeOK /\ Progress(c)
  BY DEF IInv, InOrder
<1>2. ~Resting(c)
  BY DEF CliStep, Connect, ReadPid, Signal, WaitExit, RemoveStopped, CheckSocket, StatPid, Fork, Wait,
     SessionStep, OpenSession, SessionBreaks, ServeSession, Resting
<1>3. \A b \in Cli : b # c => Resting(b)
  BY <1>2 DEF InOrder
<1>4. Lead(c)
  BY <1>1, ConnectLeads, ReadPidLeads, SignalLeads, WaitExitLeads, RemoveStoppedLeads, CheckSocketLeads,
     StatPidLeads, ForkLeads, WaitLeads, SessionLeads DEF CliStep, SessionStep
<1> QED
  BY <1>3, <1>4, AloneSuffices DEF InOrder, Lead

LEMMA CallInOrder ==
  ASSUME TypeOK, InOrder, NEW c \in Cli, Call(c), Alone(c)
  PROVE  InOrder'
<1>1. Resting(c) /\ \A b \in Cli : b # c => Resting(b)
  BY DEF Call, Alone, Resting
<1>2. Settled
  BY <1>1 DEF InOrder
<1>3. Settled' /\ Elsewhere(c)
  BY <1>2, SettledTransfers, CallEffect DEF Call, Elsewhere
<1>4. Progress(c)'
  BY <1>3, CallEffect DEF Progress
<1> QED
  BY <1>1, <1>3, <1>4, AloneSuffices DEF InOrder

LEMMA ReturnInOrder ==
  ASSUME TypeOK, InOrder, NEW c \in Cli, Return(c)
  PROVE  InOrder'
<1>1. UNCHANGED <<pidfile, socket, listening, terminated, pipe, pc>> /\ Resting(c)
  BY DEF Return, Resting
<1>2. Elsewhere(c) /\ cli'[c].at = "idle"
  BY ReturnEffect DEF Elsewhere, Idle, Begun
<1>3. \A b \in Cli : Resting(b)' <=> Resting(b)
  BY <1>1, <1>2 DEF Resting, Elsewhere
<1>4. ASSUME NEW b \in Cli PROVE Progress(b)'
  <2>1. CASE b = c
    BY <1>2, <2>1 DEF Progress
  <2>2. CASE b # c
    <3>1. cli'[b] = cli[b] /\ Progress(b)
      BY <1>2, <2>2 DEF Elsewhere, InOrder
    <3>2. PICK t : t = cli[b].target
      OBVIOUS
    <3>3. PICK k : k = cli[b].child
      OBVIOUS
    <3>4. (OneRuns(t) => OneRuns(t)') /\ (Stopping(t) => Stopping(t)') /\ (Starting(k) => Starting(k)')
      BY <1>1 DEF OneRuns, Stopping, Starting, OthersGone, Gone, NoTrace, InPlace, OnlyPidfile
    <3> QED
      BY <1>1, <3>1, <3>2, <3>3, <3>4, SettledTransfers DEF Progress
  <2> QED
    BY <2>1, <2>2
<1> QED
  BY <1>1, <1>3, <1>4, SettledTransfers DEF InOrder

LEMMA ONextInvariant == OIInv /\ [ONext]_ovars => OIInv'
<1> SUFFICES ASSUME OIInv, [ONext]_ovars PROVE OIInv'
  OBVIOUS
<1>1. IInv /\ TypeOK /\ Untouched /\ orderly \in BOOLEAN /\ (orderly => InOrder) /\ [Next]_vars
  BY ONextIsNext DEF OIInv, IInv, OrderInv, InOrder, Untouched
<1>2. IInv' /\ Untouched'
  BY <1>1, TypePreserved, PipePreserved, AnswerPreserved, UntouchedPreserved DEF IInv
<1>3. orderly' \in BOOLEAN /\ (orderly' => InOrder')
  <2>1. ASSUME NEW d \in Proc, DaemonStep(d), UNCHANGED orderly
        PROVE  orderly' \in BOOLEAN /\ (orderly' => InOrder')
    <3>1. orderly => InOrder'
      BY <1>1, <2>1, DaemonStepProgress DEF InOrder, Resting
    <3> QED
      BY <1>1, <2>1, <3>1
  <2>2. ASSUME NEW c \in Cli, Call(c), orderly' = (orderly /\ Alone(c))
        PROVE  orderly' \in BOOLEAN /\ (orderly' => InOrder')
    BY <1>1, <2>2, CallInOrder
  <2>3. ASSUME NEW c \in Cli, CliStep(c), orderly' = (orderly /\ ~RanOut(c))
        PROVE  orderly' \in BOOLEAN /\ (orderly' => InOrder')
    BY <1>1, <2>3, CliStepInOrder
  <2>4. ASSUME NEW c \in Cli, Return(c), UNCHANGED orderly
        PROVE  orderly' \in BOOLEAN /\ (orderly' => InOrder')
    BY <1>1, <2>4, ReturnInOrder
  <2>5. CASE UNCHANGED ovars
    <3>1. UNCHANGED <<pidfile, socket, listening, terminated, pipe, pc, cli, orderly>>
      BY <2>5 DEF ovars, vars
    <3>2. InOrder => InOrder'
      BY <3>1 DEF InOrder, Resting, Progress, Settled, NothingRuns, OneRuns, Stopping, Starting, OthersGone,
         Gone, NoTrace, InPlace, OnlyPidfile
    <3> QED
      BY <1>1, <3>1, <3>2
  <2>6. CASE orderly' = FALSE
    BY <2>6
  <2>7. ASSUME NEW c \in Cli, NEW d \in Proc, ServeSession(d, c), UNCHANGED orderly
        PROVE  orderly' \in BOOLEAN /\ (orderly' => InOrder')
    BY <1>1, <2>7, CliStepInOrder DEF SessionStep
  <2> QED
    BY <2>1, <2>2, <2>3, <2>4, <2>5, <2>6, <2>7 DEF ONext
<1> QED
  BY <1>2, <1>3 DEF OIInv, OrderInv, InOrder, Untouched

(* As long as no daemon crashes or is launched by hand, commands come one after the
   other and no wait runs out, the pidfile, the socket and the processes agree
   whenever no command is under way (daemon.go:77-117, helpers.go:33-62). *)
THEOREM QuietIsConsistent == OSpec => []QuietMeansConsistent
<1>1. OIInv => QuietMeansConsistent
  <2> SUFFICES ASSUME OIInv, orderly, \A c \in Cli : Resting(c),
                      NEW running, running = {d \in Proc : Alive(d) /\ pc[d] # "exit"}
               PROVE  \/ running = {} /\ pidfile = None /\ socket = None /\ listening = {}
                      \/ \E d \in Proc : /\ running = {d} /\ pc[d] = "serving" /\ d \notin terminated
                                         /\ pidfile = d /\ socket = d /\ listening = {d}
    BY DEF QuietMeansConsistent
  <2>1. Settled /\ running = {d \in Proc : ~Gone(d)}
    BY DEF OIInv, OrderInv, Alive, Gone
  <2>2. CASE NothingRuns
    BY <2>1, <2>2 DEF NothingRuns, NoTrace
  <2>3. ASSUME NEW d \in Proc, OneRuns(d) PROVE running = {d}
    BY <2>1, <2>3 DEF OneRuns, OthersGone, Gone
  <2> QED
    BY <2>1, <2>2, <2>3 DEF Settled, OneRuns, InPlace
<1> QED
  BY OInitInvariant, ONextInvariant, <1>1, PTL DEF OSpec
=============================================================================
