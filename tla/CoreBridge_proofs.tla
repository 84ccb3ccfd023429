------------------------- MODULE CoreBridge_proofs -------------------------
(***************************************************************************)
(* Proofs about CoreBridge for every number of launches, every capacity of *)
(* the channels and every number of late answers.                          *)
(***************************************************************************)
EXTENDS CoreBridge, SequenceTheorems, FiniteSetTheorems, TLAPS

Commands == {"input", "save", "load"}

-----------------------------------------------------------------------------
(* Type correctness                                                        *)

LEMMA Values ==
  /\ Empty \in Datas /\ State \in Datas
  /\ \A s \in SUBSET Launches : Sram(s) \in Datas
  /\ {0} \subseteq Launches
<1> QED
  BY BridgeAssumption DEF Empty, State, Sram, Datas, Launches

LEMMA TypeInit == Init => TypeOK
<1> SUFFICES ASSUME Init PROVE TypeOK
  OBVIOUS
<1>1. disk \in Datas /\ data \in Datas
  BY Values DEF Init
<1>2. /\ cmds \in Seq(Commands) /\ Len(cmds) =< CmdCap
      /\ resps \in Seq({"answer"}) /\ Len(resps) =< RespCap
  <2>1. cmds = <<>> /\ resps = <<>>
    BY DEF Init
  <2> QED
    BY <2>1, EmptySeq, BridgeAssumption
<1>3. /\ launch \in 0..MaxLaunches /\ lates \in 0..MaxLates
      /\ ram \in SUBSET Launches /\ asked \in SUBSET Launches
  BY BridgeAssumption DEF Init
<1>4. /\ prompt \in BOOLEAN /\ rom \in BOOLEAN /\ shm \in BOOLEAN /\ geom \in BOOLEAN
      /\ load \in Loading /\ core \in Alive \cup {"none", "dead", "reaped"}
      /\ took \in Types /\ cmd \in Types /\ ok \in BOOLEAN
      /\ bridge \in Bridges /\ cancel \in BOOLEAN /\ stopped \in BOOLEAN
      /\ handler \in {"idle", "waiting"}
      /\ daemon \in {"up", "stopping", "late", "clean"}
  BY DEF Init, Loading, Alive, Types, Bridges, Working
<1> QED
  BY <1>1, <1>2, <1>3, <1>4 DEF TypeOK, Commands

\* What the steps of the loader leave well typed.
LEMMA TypeLoad ==
  ASSUME TypeOK, StartLoad \/ StartLoadFails \/ Loader
  PROVE  TypeOK'
<1> USE BridgeAssumption DEF TypeOK, Loading, Alive, Types, Bridges, Working
<1>1. CASE StartLoad
  <2>1. launch' \in 0..MaxLaunches
    BY <1>1 DEF StartLoad, Launchable
  <2>2. /\ cmds' \in Seq(Commands) /\ Len(cmds') =< CmdCap
        /\ resps' \in Seq({"answer"}) /\ Len(resps') =< RespCap
    <3>1. cmds' = <<>> /\ resps' = <<>>
      BY <1>1 DEF StartLoad
    <3> QED
      BY <3>1, EmptySeq
  <2>3. /\ shm' \in BOOLEAN /\ geom' \in BOOLEAN /\ load' \in Loading
        /\ core' \in Alive \cup {"none", "dead", "reaped"}
        /\ took' \in Types /\ cmd' \in Types /\ ok' \in BOOLEAN /\ data' \in Datas
        /\ bridge' \in Bridges /\ cancel' \in BOOLEAN /\ stopped' \in BOOLEAN
        /\ ram' \in SUBSET Launches /\ asked' \in SUBSET Launches
    BY <1>1, Values DEF StartLoad
  <2>4. UNCHANGED <<prompt, rom, disk, handler, lates, daemon>>
    BY <1>1 DEF StartLoad, host
  <2> QED
    BY <2>1, <2>2, <2>3, <2>4 DEF Commands
<1>2. CASE StartLoadFails
  <2>1. launch' \in 0..MaxLaunches
    BY <1>2 DEF StartLoadFails, Launchable
  <2>2. /\ shm' \in BOOLEAN /\ cancel' \in BOOLEAN /\ stopped' \in BOOLEAN
        /\ core' = "none" /\ load' = "failed" /\ bridge' = "off"
    BY <1>2 DEF StartLoadFails
  <2>3. UNCHANGED <<prompt, rom, took, geom, cmd, ok, data, cmds, resps, ram, disk, asked,
                    handler, lates, daemon>>
    BY <1>2 DEF StartLoadFails, host, mem, chan
  <2> QED
    BY <2>1, <2>2, <2>3
<1>3. CASE SeeGeometry
  BY <1>3 DEF SeeGeometry, host, mem, chan
<1>4. CASE GiveUpLoad
  <2>1. core' = "reaped" /\ shm' \in BOOLEAN /\ load' = "failed"
    BY <1>4 DEF GiveUpLoad
  <2>2. UNCHANGED <<prompt, rom, launch, took, geom, cmd, ok, data, cmds, resps, bridge,
                    cancel, stopped, ram, disk, asked, handler, lates, daemon>>
    BY <1>4 DEF GiveUpLoad, host, mem, chan
  <2> QED
    BY <2>1, <2>2
<1>5. CASE LoadSram
  BY <1>5 DEF LoadSram, host, chan
<1>6. CASE Settle
  BY <1>6 DEF Settle, host, chan
<1>7. CASE Publish
  BY <1>7 DEF Publish, host, mem, chan
<1> QED
  BY <1>1, <1>2, <1>3, <1>4, <1>5, <1>6, <1>7 DEF Loader

LEMMA TypeCore ==
  ASSUME TypeOK, Core \/ CoreDies
  PROVE  TypeOK'
<1> USE DEF TypeOK, Loading, Alive, Types, Bridges, Working
<1>1. CASE CoreBoot
  BY <1>1 DEF CoreBoot, CoreStep, LeavesServer, host, mem
<1>2. CASE CoreTake
  BY <1>2 DEF CoreTake, CoreStep, LeavesServer, host, mem
<1>3. CASE CoreAnswer
  <2>1. /\ core' = "answered" /\ UNCHANGED <<took, geom, cmd>>
        /\ UNCHANGED <<prompt, rom, launch, load, shm, cmds, resps, bridge, cancel,
                       stopped, disk, asked, handler, lates, daemon>>
    BY <1>3 DEF CoreAnswer, CoreStep, LeavesServer, host
  <2>2. ok' \in BOOLEAN /\ data' \in Datas /\ ram' \in SUBSET Launches
    <3>1. CASE AnswerInput
      BY <3>1 DEF AnswerInput
    <3>2. CASE AnswerSaveState
      BY <3>2, Values DEF AnswerSaveState
    <3>3. CASE AnswerLoadState
      BY <3>3 DEF AnswerLoadState
    <3>4. CASE AnswerSaveSram
      BY <3>4, Values DEF AnswerSaveSram
    <3>5. CASE AnswerLoadSram
      BY <3>5 DEF AnswerLoadSram, Datas
    <3> QED
      BY <1>3, <3>1, <3>2, <3>3, <3>4, <3>5 DEF CoreAnswer
  <2> QED
    BY <2>1, <2>2
<1>4. CASE CoreClear
  BY <1>4 DEF CoreClear, CoreStep, LeavesServer, host
<1>5. CASE CoreFrame
  <2>1. ram' \in SUBSET Launches
    BY <1>5, BridgeAssumption DEF CoreFrame, Launches
  <2>2. core' = "idle" /\ geom' \in BOOLEAN
    BY <1>5 DEF CoreFrame
  <2>3. UNCHANGED <<prompt, rom, launch, load, shm, took, cmd, ok, data, cmds, resps, bridge,
                    cancel, stopped, disk, asked, handler, lates, daemon>>
    BY <1>5 DEF CoreFrame, LeavesServer, host, mem
  <2> QED
    BY <2>1, <2>2, <2>3
<1>6. CASE CoreDies
  BY <1>6 DEF CoreDies, LeavesServer, host, mem
<1> QED
  BY <1>1, <1>2, <1>3, <1>4, <1>5, <1>6 DEF Core

LEMMA TypeQueue ==
  ASSUME TypeOK, cmds # <<>>
  PROVE  Tail(cmds) \in Seq(Commands) /\ Len(Tail(cmds)) =< CmdCap /\ Head(cmds) \in Commands
<1>1. cmds \in Seq(Commands) /\ Len(cmds) =< CmdCap /\ Len(cmds) \in Nat
  BY DEF TypeOK, Commands
<1>2. Head(cmds) \in Commands /\ Tail(cmds) \in Seq(Commands) /\ Len(Tail(cmds)) = Len(cmds) - 1
  BY <1>1, HeadTailProperties
<1> QED
  BY <1>1, <1>2, BridgeAssumption

LEMMA TypeAnswers ==
  ASSUME TypeOK, Len(resps) < RespCap
  PROVE  /\ Append(resps, "answer") \in Seq({"answer"})
         /\ Len(Append(resps, "answer")) =< RespCap
<1>1. resps \in Seq({"answer"}) /\ Len(resps) \in Nat
  BY DEF TypeOK
<1>2. Append(resps, "answer") \in Seq({"answer"}) /\ Len(Append(resps, "answer")) = Len(resps) + 1
  BY <1>1, AppendProperties
<1> QED
  BY <1>1, <1>2, BridgeAssumption

LEMMA TypeBridge ==
  ASSUME TypeOK, Bridge \/ BridgePanics
  PROVE  TypeOK'
<1> USE DEF TypeOK, Loading, Alive, Types, Bridges, Working
<1>1. CASE SeeCancel
  BY <1>1 DEF SeeCancel, BridgeStep, LeavesCore, host, mem, chan
<1>2. CASE Forward
  <2>1. /\ cmds' \in Seq(Commands) /\ Len(cmds') =< CmdCap /\ Head(cmds) \in Commands
        /\ UNCHANGED <<prompt, rom, launch, load, core, took, geom, ram, handler, lates,
                       daemon, shm, ok, cancel, stopped, disk, asked>>
    BY <1>2, TypeQueue DEF Forward, LeavesCore, host
  <2>2. /\ cmd' \in Types /\ bridge' \in Bridges /\ data' \in Datas
        /\ resps' \in Seq({"answer"}) /\ Len(resps') =< RespCap
    <3>1. CASE Head(cmds) = "input"
      BY <1>2, <3>1 DEF Forward
    <3>2. CASE Head(cmds) = "save"
      BY <1>2, <3>2 DEF Forward
    <3>3. CASE Head(cmds) = "load"
      BY <1>2, <3>3, Values, TypeAnswers DEF Forward
    <3> QED
      BY <2>1, <3>1, <3>2, <3>3 DEF Commands
  <2> QED
    BY <2>1, <2>2 DEF Commands
<1>3. CASE Drained
  BY <1>3 DEF Drained, BridgeStep, LeavesCore, host, mem, chan
<1>4. CASE ReplySave
  BY <1>4, TypeAnswers DEF ReplySave, Reply, BridgeStep, LeavesCore, host, mem
<1>5. CASE ReplyLoad
  BY <1>5, TypeAnswers DEF ReplyLoad, Reply, BridgeStep, LeavesCore, host, mem
<1>6. CASE SeeDeath
  BY <1>6 DEF SeeDeath, BridgeStep, LeavesCore, host, mem, chan
<1>7. CASE StillAlive
  BY <1>7 DEF StillAlive, BridgeStep, LeavesCore, host, mem, chan
<1>8. CASE BridgePanics
  BY <1>8 DEF BridgePanics, LeavesCore, host, mem, chan
<1>9. CASE AskSram
  <2>1. bridge' = "ack" /\ ok' \in BOOLEAN /\ data' \in Datas /\ cmd' = "save_sram" /\ asked' = ram
    BY <1>9, Values DEF AskSram, BridgeStep
  <2>2. UNCHANGED <<prompt, rom, launch, load, shm, core, took, geom, cmds, resps, cancel,
                    stopped, ram, disk, handler, lates, daemon>>
    BY <1>9 DEF AskSram, LeavesCore, host, chan
  <2> QED
    BY <2>1, <2>2
<1>10. CASE NoSnapshot
  BY <1>10 DEF NoSnapshot, LeavesCore, host, mem, chan
<1>11. CASE Persist
  BY <1>11 DEF Persist, BridgeStep, LeavesCore, host, mem, chan
<1>12. CASE Terminate
  BY <1>12 DEF Terminate, BridgeStep, host, mem, chan
<1>13. CASE Unlink
  <2>1. cmds' \in Seq(Commands) /\ Len(cmds') =< CmdCap
    <3>1. cmds' = <<>>
      BY <1>13 DEF Unlink
    <3> QED
      BY <3>1, EmptySeq, BridgeAssumption
  <2>2. bridge' = "end" /\ shm' \in BOOLEAN /\ stopped' \in BOOLEAN
    BY <1>13 DEF Unlink, BridgeStep
  <2>3. UNCHANGED <<prompt, rom, launch, load, core, took, geom, cmd, ok, data, resps, cancel,
                    ram, disk, asked, handler, lates, daemon>>
    BY <1>13 DEF Unlink, LeavesCore, host, mem
  <2> QED
    BY <2>1, <2>2, <2>3 DEF Commands
<1> QED
  BY <1>1, <1>2, <1>3, <1>4, <1>5, <1>6, <1>7, <1>8, <1>9, <1>10, <1>11, <1>12, <1>13 DEF Bridge

LEMMA TypeHost ==
  ASSUME TypeOK, PressButton \/ AskState \/ Answer \/ AnswerTimeout \/ StopGame \/ Shutdown
                 \/ ShutdownEnds
  PROVE  TypeOK'
<1> USE DEF TypeOK, Loading, Alive, Types, Bridges, Working
<1>0. ASSUME NEW c \in Commands, Len(cmds) < CmdCap
      PROVE  Append(cmds, c) \in Seq(Commands) /\ Len(Append(cmds, c)) =< CmdCap
  <2>1. cmds \in Seq(Commands) /\ Len(cmds) \in Nat
    BY DEF Commands
  <2>2. Append(cmds, c) \in Seq(Commands) /\ Len(Append(cmds, c)) = Len(cmds) + 1
    BY <2>1, AppendProperties
  <2> QED
    BY <1>0, <2>1, <2>2, BridgeAssumption
<1>1. CASE PressButton
  <2>1. "input" \in Commands
    BY DEF Commands
  <2> QED
    BY <1>0, <1>1, <2>1 DEF PressButton, LeavesRuntime, host, mem, Commands
<1>2. CASE AskState
  <2>1. PICK c \in {"save", "load"} : cmds' = Append(cmds, c) /\ handler' = "waiting"
    BY <1>2 DEF AskState
  <2>2. c \in Commands /\ Len(cmds) < CmdCap
    BY <1>2 DEF AskState, Commands
  <2>3. cmds' \in Seq(Commands) /\ Len(cmds') =< CmdCap
    BY <1>0, <2>1, <2>2
  <2> QED
    BY <1>2, <2>1, <2>3 DEF AskState, LeavesRuntime, mem, Commands
<1>3. CASE TakeAnswer
  <2>1. Tail(resps) \in Seq({"answer"}) /\ Len(Tail(resps)) =< RespCap
    <3>1. /\ resps \in Seq({"answer"}) /\ resps # <<>> /\ Len(resps) \in Nat
          /\ Len(resps) =< RespCap
      BY <1>3 DEF TakeAnswer
    <3>2. Tail(resps) \in Seq({"answer"}) /\ Len(Tail(resps)) = Len(resps) - 1
      BY <3>1, HeadTailProperties
    <3> QED
      BY <3>1, <3>2, BridgeAssumption
  <2> QED
    BY <1>3, <2>1 DEF TakeAnswer, LeavesRuntime, mem
<1>4. CASE AnswerGone
  BY <1>4 DEF AnswerGone, LeavesRuntime, mem, chan
<1>5. CASE AnswerTimeout
  BY <1>5, BridgeAssumption DEF AnswerTimeout, LeavesRuntime, mem, chan
<1>6. CASE StopGame
  BY <1>6 DEF StopGame, LeavesRuntime, mem, chan, host
<1>7. CASE Shutdown
  BY <1>7 DEF Shutdown, mem, chan, host
<1>8. CASE ShutdownEnds
  BY <1>8 DEF ShutdownEnds, LeavesRuntime, mem, chan, host
<1> QED
  BY <1>1, <1>2, <1>3, <1>4, <1>5, <1>6, <1>7, <1>8 DEF Answer

LEMMA TypeNext == TypeOK /\ [Next]_vars => TypeOK'
<1> SUFFICES ASSUME TypeOK, [Next]_vars PROVE TypeOK'
  OBVIOUS
<1>1. CASE UNCHANGED vars
  BY <1>1 DEF TypeOK, vars, mem, chan, host
<1> QED
  BY <1>1, TypeLoad, TypeCore, TypeBridge, TypeHost DEF Next

\* Every reachable state is well typed; in particular neither channel holds more than
\* load_core_into_session gave it room for.
THEOREM TypeCorrect == Spec => []TypeOK
<1> QED
  BY TypeInit, TypeNext, PTL DEF Spec

-----------------------------------------------------------------------------
(* The end of a session.  A bridge thread exists from the moment the load  *)
(* is done; it reaps the child before it unlinks, and unlinks before it    *)
(* gives core_stopped; and every load that is not done has either a child  *)
(* it is still waiting for or none.                                        *)

Lifecycle ==
  /\ load # "done" <=> bridge = "off"
  /\ stopped <=> bridge = "end"
  /\ bridge \in {"unlink", "end"} => core = "reaped"
  /\ bridge = "end" => ~shm
  /\ load \in {"idle", "failed"} => core \in {"none", "reaped"}
  /\ daemon # "up" => load \in {"idle", "failed", "done"}
  /\ daemon = "clean" /\ load = "done" => stopped

LEMMA LifecycleInit == Init => Lifecycle
<1> QED
  BY DEF Init, Lifecycle

LEMMA LifecycleNext == TypeOK /\ Lifecycle /\ [Next]_vars => Lifecycle'
<1> SUFFICES ASSUME TypeOK, Lifecycle, [Next]_vars PROVE Lifecycle'
  OBVIOUS
<1> USE DEF Lifecycle
<1>1. CASE StartLoad
  BY <1>1 DEF StartLoad
<1>2. CASE StartLoadFails
  BY <1>2 DEF StartLoadFails
<1>3. CASE SeeGeometry \/ GiveUpLoad \/ LoadSram \/ Settle
  BY <1>3 DEF SeeGeometry, GiveUpLoad, LoadSram, Settle, host
<1>4. CASE Publish
  BY <1>4 DEF Publish, host
<1>5. CASE CoreBoot \/ CoreTake \/ CoreAnswer \/ CoreClear
  BY <1>5 DEF CoreBoot, CoreTake, CoreAnswer, CoreClear, CoreStep, LeavesServer
<1>6. CASE CoreFrame
  BY <1>6 DEF CoreFrame, LeavesServer
<1>7. CASE CoreDies
  BY <1>7 DEF CoreDies, CoreAlive, Alive, LeavesServer
<1>8. CASE SeeCancel \/ Drained \/ SeeDeath \/ StillAlive \/ AskSram \/ Persist
  BY <1>8 DEF SeeCancel, Drained, SeeDeath, StillAlive, AskSram, Persist, BridgeStep, LeavesCore
<1>9. CASE Forward
  <2>1. bridge = "cmds" /\ bridge' \in {"cmds", "saving", "loading"}
    <3>1. Head(cmds) \in Commands
      BY <1>9, TypeQueue DEF Forward
    <3> QED
      BY <1>9, <3>1 DEF Forward, Commands
  <2>2. UNCHANGED <<load, core, daemon, shm, stopped>>
    BY <1>9 DEF Forward, LeavesCore
  <2> QED
    BY <2>1, <2>2
<1>10. CASE ReplySave \/ ReplyLoad
  BY <1>10 DEF ReplySave, ReplyLoad, Reply, BridgeStep, LeavesCore
<1>11. CASE BridgePanics \/ NoSnapshot
  BY <1>11 DEF BridgePanics, NoSnapshot, Working, LeavesCore
<1>12. CASE Terminate
  BY <1>12 DEF Terminate, BridgeStep, host
<1>13. CASE Unlink
  BY <1>13 DEF Unlink, BridgeStep, LeavesCore
<1>14. CASE PressButton \/ AskState \/ Answer \/ AnswerTimeout \/ StopGame
  BY <1>14 DEF PressButton, AskState, Answer, TakeAnswer, AnswerGone, AnswerTimeout, StopGame,
               LeavesRuntime
<1>15. CASE Shutdown
  BY <1>15 DEF Shutdown, TypeOK, Loading
<1>16. CASE ShutdownEnds
  BY <1>16 DEF ShutdownEnds, LeavesRuntime
<1>17. CASE UNCHANGED vars
  BY <1>17 DEF vars
<1> QED
  BY <1>1, <1>2, <1>3, <1>4, <1>5, <1>6, <1>7, <1>8, <1>9, <1>10, <1>11, <1>12, <1>13, <1>14,
     <1>15, <1>16, <1>17 DEF Next, Loader, Core, Bridge

LEMMA LifecycleAlways == Spec => [](TypeOK /\ Lifecycle)
<1> QED
  BY TypeInit, TypeNext, LifecycleInit, LifecycleNext, PTL DEF Spec

\* core_stopped is a barrier: nothing of the session is left that could write.
THEOREM StoppedBarrier == Spec => []StoppedIsClean
<1>1. Lifecycle => StoppedIsClean
  BY DEF Lifecycle, StoppedIsClean
<1> QED
  BY <1>1, LifecycleAlways, PTL

\* shutdown_all_core_bridges reports success only if no emulator is left: every started
\* child is either registered or owned by a load that kills it when it is dropped.
THEOREM CleanShutdown == Spec => []ShutdownLeavesNoCore
<1>1. TypeOK /\ Lifecycle => ShutdownLeavesNoCore
  BY DEF TypeOK, Lifecycle, ShutdownLeavesNoCore, CoreAlive, Alive
<1> QED
  BY <1>1, LifecycleAlways, PTL

\* Both together: whoever is told that the core is gone is told the truth.
THEOREM CoreIsGone == Spec => []GoneIsGone
<1>1. StoppedIsClean /\ ShutdownLeavesNoCore => GoneIsGone
  BY DEF GoneIsGone
<1> QED
  BY <1>1, StoppedBarrier, CleanShutdown, PTL

-----------------------------------------------------------------------------
(* The command slot.  cmd_ready is the only synchronisation: it may be     *)
(* withdrawn under a core that works on the battery load, but never under  *)
(* one that works on anything else.  So once the bridge has waited for a   *)
(* free slot and cleared the response, what it finds when the slot is free *)
(* again is nothing or the snapshot it asked for.                          *)

InHand == core \in {"took", "answered"}

Slot ==
  /\ load \in {"wait", "sram"} => cmd = "none" /\ ~InHand
  /\ load = "settle" => cmd \in {"none", "load_sram"} /\ (InHand => took = "load_sram")
  /\ load = "publish" => cmd = "none"
  /\ InHand /\ cmd = "none" => took = "load_sram"
  /\ bridge = "ack" =>
       /\ cmd \in {"none", "save_sram"}
       /\ InHand => took \in {"save_sram", "load_sram"}
       /\ asked \subseteq ram
       /\ data = Empty \/ (data.kind = "sram" /\ asked \subseteq data.has)

LEMMA SlotInit == Init => Slot
<1> QED
  BY DEF Init, Slot, InHand

LEMMA SlotNext == TypeOK /\ Lifecycle /\ Slot /\ [Next]_vars => Slot'
<1> SUFFICES ASSUME TypeOK, Lifecycle, Slot, [Next]_vars PROVE Slot'
  OBVIOUS
<1> USE DEF Slot, InHand
<1>1. CASE StartLoad
  BY <1>1 DEF StartLoad
<1>2. CASE StartLoadFails
  BY <1>2 DEF StartLoadFails, mem
<1>3. CASE SeeGeometry \/ GiveUpLoad
  BY <1>3 DEF SeeGeometry, GiveUpLoad, mem, Lifecycle
<1>4. CASE LoadSram
  BY <1>4 DEF LoadSram, Lifecycle
<1>5. CASE Settle
  BY <1>5 DEF Settle, Lifecycle
<1>6. CASE Publish
  BY <1>6 DEF Publish, mem
<1>7. CASE CoreBoot
  BY <1>7 DEF CoreBoot, CoreStep, LeavesServer, mem
<1>8. CASE CoreTake
  BY <1>8 DEF CoreTake, CoreStep, LeavesServer, mem
<1>9. CASE CoreAnswer
  <2>1. core = "took" /\ core' = "answered"
        /\ UNCHANGED <<took, cmd, load, bridge, asked>>
    BY <1>9 DEF CoreAnswer, CoreStep, LeavesServer
  <2>2. ASSUME bridge = "ack"
        PROVE  asked \subseteq ram' /\ (data' = Empty \/ (data'.kind = "sram" /\ asked \subseteq data'.has))
    <3>1. CASE took = "save_sram"
      BY <1>9, <2>2, <3>1 DEF CoreAnswer, AnswerInput, AnswerSaveState, AnswerLoadState,
                              AnswerSaveSram, AnswerLoadSram, Sram
    <3>2. CASE took = "load_sram"
      <4>1. AnswerLoadSram
        BY <1>9, <3>2 DEF CoreAnswer, AnswerInput, AnswerSaveState, AnswerLoadState,
                          AnswerSaveSram
      <4>2. CASE data = Empty
        BY <2>2, <4>1, <4>2 DEF AnswerLoadSram, Empty
      <4>3. CASE data.kind = "sram" /\ asked \subseteq data.has
        BY <2>2, <4>1, <4>3 DEF AnswerLoadSram
      <4> QED
        BY <2>2, <4>2, <4>3
    <3> QED
      BY <2>1, <2>2, <3>1, <3>2
  <2> QED
    BY <2>1, <2>2
<1>10. CASE CoreClear
  BY <1>10 DEF CoreClear, CoreStep, LeavesServer
<1>11. CASE CoreFrame
  BY <1>11 DEF CoreFrame, LeavesServer, mem
<1>12. CASE CoreDies
  BY <1>12 DEF CoreDies, LeavesServer, mem
<1>13. CASE SeeCancel \/ Drained \/ SeeDeath \/ StillAlive
  BY <1>13 DEF SeeCancel, Drained, SeeDeath, StillAlive, BridgeStep, LeavesCore, mem
<1>14. CASE Forward
  <2>1. bridge = "cmds" /\ bridge' \in {"cmds", "saving", "loading"} /\ cmd' \in {cmd, "input", "save_state", "load_state"}
    <3>1. Head(cmds) \in Commands
      BY <1>14, TypeQueue DEF Forward
    <3> QED
      BY <1>14, <3>1 DEF Forward, Commands
  <2>2. UNCHANGED <<load, core, took>> /\ load = "done"
    BY <1>14, <2>1 DEF Forward, LeavesCore, Lifecycle
  <2> QED
    BY <2>1, <2>2
<1>15. CASE ReplySave \/ ReplyLoad
  BY <1>15 DEF ReplySave, ReplyLoad, Reply, BridgeStep, LeavesCore, mem
<1>16. CASE BridgePanics
  BY <1>16 DEF BridgePanics, LeavesCore, mem
<1>17. CASE NoSnapshot
  BY <1>17 DEF NoSnapshot, LeavesCore, mem
<1>18. CASE AskSram
  <2>1. load = "done"
    BY <1>18 DEF AskSram, BridgeStep, Lifecycle
  <2> QED
    BY <1>18, <2>1 DEF AskSram, BridgeStep, LeavesCore
<1>19. CASE Persist
  BY <1>19 DEF Persist, BridgeStep, LeavesCore, mem
<1>20. CASE Terminate
  BY <1>20 DEF Terminate, BridgeStep, mem
<1>21. CASE Unlink
  BY <1>21 DEF Unlink, BridgeStep, LeavesCore, mem
<1>22. CASE PressButton \/ AskState \/ Answer \/ AnswerTimeout \/ StopGame \/ ShutdownEnds
  BY <1>22 DEF PressButton, AskState, Answer, TakeAnswer, AnswerGone, AnswerTimeout, StopGame,
               ShutdownEnds, LeavesRuntime, mem
<1>23. CASE Shutdown
  BY <1>23 DEF Shutdown, mem, Lifecycle
<1>24. CASE UNCHANGED vars
  BY <1>24 DEF vars, mem
<1> QED
  BY <1>1, <1>2, <1>3, <1>4, <1>5, <1>6, <1>7, <1>8, <1>9, <1>10, <1>11, <1>12, <1>13, <1>14,
     <1>15, <1>16, <1>17, <1>18, <1>19, <1>20, <1>21, <1>22, <1>23, <1>24
  DEF Next, Loader, Core, Bridge

\* Only Persist writes the battery file.
LEMMA OnlyPersist == TypeOK /\ [Next]_vars /\ disk' # disk => Persist
<1> SUFFICES ASSUME [Next]_vars, disk' # disk PROVE Persist
  OBVIOUS
<1>1. CASE StartLoad \/ StartLoadFails \/ Loader
  BY <1>1 DEF StartLoad, StartLoadFails, Loader, SeeGeometry, GiveUpLoad, LoadSram, Settle, Publish
<1>2. CASE Core \/ CoreDies
  BY <1>2 DEF Core, CoreBoot, CoreTake, CoreAnswer, CoreClear, CoreFrame, CoreDies, LeavesServer
<1>3. CASE Bridge \/ BridgePanics
  BY <1>3 DEF Bridge, BridgePanics, SeeCancel, Forward, Drained, ReplySave, ReplyLoad, Reply,
              SeeDeath, StillAlive, AskSram, NoSnapshot, Terminate, Unlink
<1>4. CASE PressButton \/ AskState \/ Answer \/ AnswerTimeout \/ StopGame \/ Shutdown \/ ShutdownEnds
  BY <1>4 DEF PressButton, AskState, Answer, TakeAnswer, AnswerGone, AnswerTimeout, StopGame,
              Shutdown, ShutdownEnds, LeavesRuntime
<1> QED
  BY <1>1, <1>2, <1>3, <1>4 DEF Next, vars

\* request_sram_snapshot: whatever the core, earlier commands and the bridge's own
\* panics do, battery.srm only ever takes battery memory from after it was asked for.
THEOREM FreshSnapshot == Spec => SnapshotIsFresh
<1>1. TypeOK /\ Slot /\ [Next]_vars =>
        [disk' # disk => disk'.kind = "sram" /\ asked \subseteq disk'.has]_vars
  <2> SUFFICES ASSUME TypeOK, Slot, [Next]_vars, disk' # disk
               PROVE  disk'.kind = "sram" /\ asked \subseteq disk'.has
    OBVIOUS
  <2>1. Persist
    BY OnlyPersist
  <2>2. bridge = "ack" /\ disk' = data /\ data.kind # "none"
    BY <2>1 DEF Persist, BridgeStep
  <2> QED
    BY <2>2 DEF Slot, Empty
<1> QED
  BY <1>1, TypeInit, TypeNext, LifecycleInit, LifecycleNext, SlotInit, SlotNext, PTL
  DEF Spec, SnapshotIsFresh

-----------------------------------------------------------------------------
(* The battery memory.  On a prompt machine the core has taken over the    *)
(* battery file when the load is done, so that every later snapshot of it  *)
(* contains what the file holds.                                           *)

Serving == core \in {"idle", "took", "answered", "run"}
Leaving == bridge \in {"kill", "unlink", "end"}

Battery ==
  /\ core = "boot" => load = "wait" /\ ~geom
  /\ disk.kind = "none" => disk.has = {}
  /\ bridge = "ack" => rom
  /\ load = "done" => cmd # "load_sram"
  /\ prompt /\ rom /\ load = "settle" =>
       /\ cmd = "load_sram" => data = disk
       /\ core = "took" => cmd = "load_sram"
       /\ core = "answered" \/ (cmd = "none" /\ core \in {"idle", "run"}) => disk.has \subseteq ram
  /\ prompt /\ rom /\ load \in {"publish", "done"} /\ ~Leaving /\ Serving =>
       /\ disk.has \subseteq ram
       /\ core = "took" => took # "load_sram"
  /\ prompt /\ bridge = "ack" /\ data.kind = "sram" => disk.has \subseteq data.has

LEMMA BatteryInit == Init => Battery
<1> QED
  BY DEF Init, Battery, Empty, Sram

LEMMA BatteryNext ==
  TypeOK /\ Lifecycle /\ Slot /\ Battery /\ [Next]_vars => Battery'
<1> SUFFICES ASSUME TypeOK, Lifecycle, Slot, Battery, [Next]_vars PROVE Battery'
  OBVIOUS
<1> USE DEF Battery, Serving, Leaving
<1>1. CASE StartLoad
  BY <1>1 DEF StartLoad
<1>2. CASE StartLoadFails
  BY <1>2 DEF StartLoadFails, mem
<1>3. CASE SeeGeometry \/ GiveUpLoad
  BY <1>3 DEF SeeGeometry, GiveUpLoad, mem, Lifecycle
<1>4. CASE LoadSram
  BY <1>4 DEF LoadSram, Lifecycle, Slot, InHand
<1>5. CASE Settle
  BY <1>5 DEF Settle, CoreReady, Alive, Lifecycle, Slot, InHand
<1>6. CASE Publish
  BY <1>6 DEF Publish, mem, Slot, Lifecycle
<1>7. CASE CoreBoot
  BY <1>7 DEF CoreBoot, CoreStep, LeavesServer, mem
<1>8. CASE CoreTake
  BY <1>8 DEF CoreTake, CoreStep, LeavesServer, mem, Slot
<1>9. CASE CoreAnswer
  <2>1. core = "took" /\ core' = "answered"
        /\ UNCHANGED <<prompt, rom, took, cmd, load, bridge, disk>>
    BY <1>9 DEF CoreAnswer, CoreStep, LeavesServer
  <2>2. ASSUME prompt, rom, load = "settle"
        PROVE  disk.has \subseteq ram' /\ data' = data
    <3>1. took = "load_sram" /\ data = disk
      BY <2>1, <2>2 DEF Slot, InHand
    <3>2. AnswerLoadSram
      BY <1>9, <3>1 DEF CoreAnswer, AnswerInput, AnswerSaveState, AnswerLoadState,
                        AnswerSaveSram
    <3> QED
      BY <3>1, <3>2 DEF AnswerLoadSram
  <2>3. ASSUME prompt, rom, load \in {"publish", "done"}, ~Leaving
        PROVE  disk.has \subseteq ram'
    <3>1. took # "load_sram" /\ disk.has \subseteq ram
      BY <2>1, <2>3
    <3>2. UNCHANGED ram
      BY <1>9, <3>1 DEF CoreAnswer, AnswerInput, AnswerSaveState, AnswerLoadState,
                        AnswerSaveSram, AnswerLoadSram
    <3> QED
      BY <3>1, <3>2
  <2>4. ASSUME prompt, bridge = "ack", data'.kind = "sram"
        PROVE  disk.has \subseteq data'.has
    <3>1. load = "done" /\ rom
      BY <2>4 DEF Lifecycle, TypeOK, Loading
    <3>2. took # "load_sram" /\ disk.has \subseteq ram
      BY <2>1, <2>4, <3>1
    <3>3. took = "save_sram"
      BY <2>1, <2>4, <3>2 DEF Slot, InHand
    <3>4. AnswerSaveSram
      BY <1>9, <3>3 DEF CoreAnswer, AnswerInput, AnswerSaveState, AnswerLoadState,
                        AnswerLoadSram
    <3> QED
      BY <2>4, <3>2, <3>4 DEF AnswerSaveSram, Sram, Empty
  <2> QED
    BY <2>1, <2>2, <2>3, <2>4
<1>10. CASE CoreClear
  BY <1>10 DEF CoreClear, CoreStep, LeavesServer
<1>11. CASE CoreFrame
  BY <1>11 DEF CoreFrame, LeavesServer, mem
<1>12. CASE CoreDies
  BY <1>12 DEF CoreDies, LeavesServer, mem
<1>13. CASE SeeCancel \/ Drained \/ SeeDeath \/ StillAlive
  BY <1>13 DEF SeeCancel, Drained, SeeDeath, StillAlive, BridgeStep, LeavesCore, mem
<1>14. CASE Forward
  <2>1. /\ bridge = "cmds" /\ bridge' \in {"cmds", "saving", "loading"}
        /\ cmd' \in {cmd, "input", "save_state", "load_state"}
    <3>1. Head(cmds) \in Commands
      BY <1>14, TypeQueue DEF Forward
    <3> QED
      BY <1>14, <3>1 DEF Forward, Commands
  <2>2. UNCHANGED <<prompt, rom, load, core, took, geom, ram, disk>> /\ load = "done"
    BY <1>14, <2>1 DEF Forward, LeavesCore, Lifecycle
  <2> QED
    BY <2>1, <2>2
<1>15. CASE ReplySave \/ ReplyLoad
  BY <1>15 DEF ReplySave, ReplyLoad, Reply, BridgeStep, LeavesCore, mem
<1>16. CASE BridgePanics
  BY <1>16 DEF BridgePanics, Working, LeavesCore, mem
<1>17. CASE NoSnapshot
  BY <1>17 DEF NoSnapshot, LeavesCore, mem
<1>18. CASE AskSram
  <2>1. load = "done"
    BY <1>18 DEF AskSram, BridgeStep, Lifecycle
  <2> QED
    BY <1>18, <2>1 DEF AskSram, BridgeStep, LeavesCore, Empty
<1>19. CASE Persist
  <2>1. /\ bridge' = "kill" /\ load = "done"
        /\ UNCHANGED <<prompt, rom, load, core, took, geom, ram, cmd, data>>
        /\ disk' = disk \/ (disk' = data /\ data.kind # "none")
    BY <1>19 DEF Persist, BridgeStep, LeavesCore, mem, Lifecycle
  <2> QED
    BY <2>1
<1>20. CASE Terminate
  BY <1>20 DEF Terminate, BridgeStep, mem
<1>21. CASE Unlink
  BY <1>21 DEF Unlink, BridgeStep, LeavesCore, mem
<1>22. CASE PressButton \/ AskState \/ Answer \/ AnswerTimeout \/ StopGame \/ ShutdownEnds
  BY <1>22 DEF PressButton, AskState, Answer, TakeAnswer, AnswerGone, AnswerTimeout, StopGame,
               ShutdownEnds, LeavesRuntime, mem
<1>23. CASE Shutdown
  BY <1>23 DEF Shutdown, mem, Lifecycle
<1>24. CASE UNCHANGED vars
  BY <1>24 DEF vars, mem
<1> QED
  BY <1>1, <1>2, <1>3, <1>4, <1>5, <1>6, <1>7, <1>8, <1>9, <1>10, <1>11, <1>12, <1>13, <1>14,
     <1>15, <1>16, <1>17, <1>18, <1>19, <1>20, <1>21, <1>22, <1>23, <1>24
  DEF Next, Loader, Core, Bridge

\* On a prompt machine a shutdown snapshot never takes back progress that an earlier
\* launch had saved.
THEOREM ProgressKept == Spec => BatteryKept
<1>1. TypeOK /\ Slot /\ Battery /\ [Next]_vars => [prompt => disk.has \subseteq disk'.has]_vars
  <2> SUFFICES ASSUME TypeOK, Slot, Battery, [Next]_vars, prompt
               PROVE  disk.has \subseteq disk'.has
    OBVIOUS
  <2>1. CASE disk' = disk
    BY <2>1
  <2>2. CASE disk' # disk
    <3>1. Persist
      BY <2>2, OnlyPersist
    <3>2. bridge = "ack" /\ disk' = data /\ data.kind # "none"
      BY <2>2, <3>1 DEF Persist, BridgeStep
    <3>3. data.kind = "sram"
      BY <3>2 DEF Slot, Empty
    <3> QED
      BY <3>2, <3>3 DEF Battery
  <2> QED
    BY <2>1, <2>2
<1> QED
  BY <1>1, TypeInit, TypeNext, LifecycleInit, LifecycleNext, SlotInit, SlotNext, BatteryInit,
     BatteryNext, PTL
  DEF Spec, BatteryKept

-----------------------------------------------------------------------------
(* The answer channel.  A request is in the command queue, in the hands of *)
(* the bridge, or answered; together they are never more than the requests *)
(* that timed out plus the one that waits.                                 *)

Asks(s) == {i \in 1..Len(s) : s[i] # "input"}

Requests ==
  /\ stopped => cmds = <<>>
  /\ Cardinality(Asks(cmds)) + AtBridge + Len(resps) =< lates + Waiting

LEMMA AsksFinite ==
  ASSUME NEW s \in Seq(Commands)
  PROVE  IsFiniteSet(Asks(s)) /\ Cardinality(Asks(s)) \in Nat
<1>1. Len(s) \in Nat
  BY LenProperties
<1>2. IsFiniteSet(1..Len(s))
  BY <1>1, FS_Interval
<1>3. Asks(s) \in SUBSET (1..Len(s))
  BY DEF Asks
<1>4. IsFiniteSet(Asks(s))
  BY <1>2, <1>3, FS_Subset
<1> QED
  BY <1>4, FS_CardinalityType

LEMMA AsksEmpty == Cardinality(Asks(<<>>)) = 0
<1>1. Asks(<<>>) = {}
  BY DEF Asks
<1> QED
  BY <1>1, FS_EmptySet

\* Taking the first command takes a request away, unless it was an input.
LEMMA AsksTail ==
  ASSUME NEW s \in Seq(Commands), s # <<>>
  PROVE  Cardinality(Asks(Tail(s))) + (IF Head(s) = "input" THEN 0 ELSE 1)
           =< Cardinality(Asks(s))
<1> DEFINE f == [i \in Asks(Tail(s)) |-> i + 1]
<1>1. /\ Len(s) \in Nat \ {0} /\ Tail(s) \in Seq(Commands) /\ Len(Tail(s)) = Len(s) - 1
      /\ Head(s) = s[1] /\ \A i \in 1..Len(Tail(s)) : Tail(s)[i] = s[i + 1]
  BY HeadTailProperties, LenProperties, EmptySeq
<1>2. \A i \in Asks(Tail(s)) : i \in Nat \ {0} /\ i + 1 \in Asks(s) \ {1}
  BY <1>1 DEF Asks
<1>3. f \in Injection(Asks(Tail(s)), Asks(s) \ {1})
  <2>1. f \in [Asks(Tail(s)) -> Asks(s) \ {1}]
    BY <1>2
  <2>2. \A i, j \in Asks(Tail(s)) : f[i] = f[j] => i = j
    BY <1>2
  <2> QED
    BY <2>1, <2>2 DEF Injection, IsInjective
<1>4. IsFiniteSet(Asks(s)) /\ Cardinality(Asks(s)) \in Nat
  BY AsksFinite
<1>5. /\ IsFiniteSet(Asks(s) \ {1})
      /\ Cardinality(Asks(s) \ {1})
           = IF 1 \in Asks(s) THEN Cardinality(Asks(s)) - 1 ELSE Cardinality(Asks(s))
  BY <1>4, FS_RemoveElement
<1>6. Cardinality(Asks(Tail(s))) =< Cardinality(Asks(s) \ {1})
  BY <1>3, <1>5, FS_Injection
<1>7. Cardinality(Asks(Tail(s))) \in Nat
  BY <1>1, AsksFinite
<1>8. 1 \in Asks(s) <=> Head(s) # "input"
  BY <1>1 DEF Asks
<1> QED
  BY <1>4, <1>5, <1>6, <1>7, <1>8

\* Queueing a command adds a request, unless it is an input.
LEMMA AsksAppend ==
  ASSUME NEW s \in Seq(Commands), NEW c \in Commands
  PROVE  Cardinality(Asks(Append(s, c)))
           =< Cardinality(Asks(s)) + (IF c = "input" THEN 0 ELSE 1)
<1> DEFINE t == Append(s, c)
           n == Len(s) + 1
<1>1. /\ t \in Seq(Commands) /\ Len(t) = n /\ t[n] = c /\ Len(s) \in Nat
      /\ \A i \in 1..Len(s) : t[i] = s[i]
  BY AppendProperties, LenProperties
<1>2. IsFiniteSet(Asks(s)) /\ Cardinality(Asks(s)) \in Nat
  BY AsksFinite
<1>3. CASE c = "input"
  <2>1. Asks(t) = Asks(s)
    <3>1. \A i \in 1..n : i \in 1..Len(s) \/ i = n
      BY <1>1
    <3>2. \A i \in 1..n : t[i] # "input" <=> i \in 1..Len(s) /\ s[i] # "input"
      BY <1>1, <1>3, <3>1
    <3>3. 1..Len(s) \subseteq 1..n
      BY <1>1
    <3> QED
      BY <1>1, <3>2, <3>3 DEF Asks
  <2> QED
    BY <1>2, <1>3, <2>1
<1>4. CASE c # "input"
  <2>1. Asks(t) \in SUBSET (Asks(s) \cup {n})
    <3>1. \A i \in 1..n : i \in 1..Len(s) \/ i = n
      BY <1>1
    <3> QED
      BY <1>1, <3>1 DEF Asks
  <2>2. /\ IsFiniteSet(Asks(s) \cup {n})
        /\ Cardinality(Asks(s) \cup {n})
             = IF n \in Asks(s) THEN Cardinality(Asks(s)) ELSE Cardinality(Asks(s)) + 1
    BY <1>2, FS_AddElement
  <2>3. Cardinality(Asks(t)) =< Cardinality(Asks(s) \cup {n})
    BY <2>1, <2>2, FS_Subset
  <2>4. Cardinality(Asks(t)) \in Nat
    BY <1>1, AsksFinite
  <2> QED
    BY <1>2, <1>4, <2>2, <2>3, <2>4
<1> QED
  BY <1>3, <1>4

LEMMA RequestsInit == Init => Requests
<1>1. Init => cmds = <<>> /\ resps = <<>> /\ bridge = "off" /\ handler = "idle" /\ lates = 0
  BY DEF Init
<1> QED
  BY <1>1, AsksEmpty DEF Requests, AtBridge, Waiting

\* The bridge takes a request from the queue, answers it, and empties the queue at its end.
LEMMA RequestsBridge ==
  ASSUME TypeOK, Lifecycle, Requests, Bridge \/ BridgePanics
  PROVE  Requests'
<1> DEFINE n == Cardinality(Asks(cmds))
<1>1. /\ cmds \in Seq(Commands) /\ n \in Nat /\ Len(resps) \in Nat /\ lates \in Nat
      /\ resps \in Seq({"answer"})
  BY AsksFinite DEF TypeOK, Commands
<1>2. UNCHANGED <<lates, handler>> /\ Waiting' = Waiting
  BY DEF Bridge, BridgePanics, SeeCancel, Forward, Drained, ReplySave, ReplyLoad, Reply, SeeDeath,
         StillAlive, AskSram, NoSnapshot, Persist, Terminate, Unlink, LeavesCore, host, Waiting
<1>3. Waiting \in {0, 1} /\ AtBridge \in {0, 1}
  BY DEF Waiting, AtBridge
<1>4. CASE Forward
  <2> DEFINE m == Cardinality(Asks(Tail(cmds)))
  <2>1. cmds # <<>> /\ cmds' = Tail(cmds) /\ bridge = "cmds" /\ UNCHANGED stopped
    BY <1>4 DEF Forward
  <2>2. Head(cmds) \in Commands /\ Tail(cmds) \in Seq(Commands)
    BY <2>1, TypeQueue
  <2>3. m + (IF Head(cmds) = "input" THEN 0 ELSE 1) =< n
    BY <1>1, <2>1, AsksTail
  <2>4. m \in Nat
    BY <2>2, AsksFinite
  <2>5. AtBridge = 0 /\ ~stopped
    BY <2>1 DEF AtBridge, Lifecycle
  <2>6. CASE Head(cmds) = "input" /\ UNCHANGED <<bridge, resps>>
    <3>1. AtBridge' = 0 /\ resps' = resps
      BY <2>5, <2>6 DEF AtBridge
    <3> QED
      BY <1>1, <1>2, <1>3, <2>1, <2>3, <2>4, <2>5, <2>6, <3>1 DEF Requests
  <2>7. CASE Head(cmds) # "input" /\ resps' = resps
    <3>1. AtBridge' \in {0, 1}
      BY DEF AtBridge
    <3> QED
      BY <1>1, <1>2, <1>3, <2>1, <2>3, <2>4, <2>5, <2>7, <3>1 DEF Requests
  <2>8. CASE Head(cmds) # "input" /\ bridge' = bridge /\ resps' = Append(resps, "answer")
    <3>1. AtBridge' = 0 /\ Len(resps') = Len(resps) + 1
      BY <1>1, <2>5, <2>8, AppendProperties DEF AtBridge
    <3> QED
      BY <1>1, <1>2, <1>3, <2>1, <2>3, <2>4, <2>5, <2>8, <3>1 DEF Requests
  <2> QED
    BY <1>4, <2>2, <2>6, <2>7, <2>8 DEF Forward, Commands
<1>5. CASE ReplySave \/ ReplyLoad
  <2>1. /\ bridge \in {"saving", "loading"} /\ bridge' = "cmds" /\ UNCHANGED <<cmds, stopped>>
        /\ resps' = Append(resps, "answer")
    BY <1>5 DEF ReplySave, ReplyLoad, Reply, BridgeStep
  <2>2. AtBridge = 1 /\ AtBridge' = 0 /\ Len(resps') = Len(resps) + 1 /\ ~stopped
    BY <1>1, <2>1, AppendProperties DEF AtBridge, Lifecycle
  <2> QED
    BY <1>1, <1>2, <1>3, <2>1, <2>2 DEF Requests
<1>6. CASE Unlink
  <2>1. cmds' = <<>> /\ bridge' = "end" /\ UNCHANGED resps
    BY <1>6 DEF Unlink, BridgeStep, LeavesCore
  <2>2. Cardinality(Asks(cmds')) = 0 /\ AtBridge' = 0
    BY <2>1, AsksEmpty DEF AtBridge
  <2> QED
    BY <1>1, <1>2, <1>3, <2>1, <2>2 DEF Requests
<1>7. CASE \/ SeeCancel \/ Drained \/ SeeDeath \/ StillAlive \/ AskSram \/ NoSnapshot
           \/ Persist \/ Terminate \/ BridgePanics
  <2>1. UNCHANGED <<cmds, resps, stopped>> /\ bridge' \notin {"saving", "loading"}
    BY <1>7 DEF SeeCancel, Drained, SeeDeath, StillAlive, AskSram, NoSnapshot, Persist, Terminate,
                BridgePanics, BridgeStep, LeavesCore, chan
  <2>2. AtBridge' = 0
    BY <2>1 DEF AtBridge
  <2> QED
    BY <1>1, <1>2, <1>3, <2>1, <2>2 DEF Requests
<1> QED
  BY <1>4, <1>5, <1>6, <1>7 DEF Bridge

\* The host asks one request at a time, and gives up one by one.
LEMMA RequestsHost ==
  ASSUME TypeOK, Lifecycle, Requests, PressButton \/ AskState \/ Answer \/ AnswerTimeout
  PROVE  Requests'
<1> DEFINE n == Cardinality(Asks(cmds))
<1>1. /\ cmds \in Seq(Commands) /\ n \in Nat /\ Len(resps) \in Nat /\ lates \in Nat
      /\ resps \in Seq({"answer"})
  BY AsksFinite DEF TypeOK, Commands
<1>2. UNCHANGED <<bridge, stopped>> /\ AtBridge' = AtBridge
  BY DEF PressButton, AskState, Answer, TakeAnswer, AnswerGone, AnswerTimeout, LeavesRuntime,
         AtBridge
<1>3. Waiting \in {0, 1} /\ AtBridge \in {0, 1}
  BY DEF Waiting, AtBridge
<1>4. CASE PressButton
  <2>1. cmds' = Append(cmds, "input") /\ UNCHANGED <<resps, lates, handler>> /\ ~stopped
    BY <1>4 DEF PressButton, Playing, host
  <2>2. Cardinality(Asks(cmds')) =< n /\ Cardinality(Asks(cmds')) \in Nat
    <3>1. "input" \in Commands
      BY DEF Commands
    <3>2. Append(cmds, "input") \in Seq(Commands)
      BY <1>1, <3>1, AppendProperties
    <3>3. Cardinality(Asks(Append(cmds, "input"))) =< n + 0
      BY <1>1, <3>1, AsksAppend
    <3>4. Cardinality(Asks(Append(cmds, "input"))) \in Nat
      BY <3>2, AsksFinite
    <3>5. Cardinality(Asks(Append(cmds, "input"))) =< n
      BY <1>1, <3>3, <3>4
    <3> QED
      BY <2>1, <3>4, <3>5
  <2>3. Waiting' = Waiting
    BY <2>1 DEF Waiting
  <2> QED
    BY <1>1, <1>2, <1>3, <2>1, <2>2, <2>3 DEF Requests
<1>5. CASE AskState
  <2>1. PICK c \in {"save", "load"} : cmds' = Append(cmds, c) /\ handler' = "waiting"
    BY <1>5 DEF AskState
  <2>2. UNCHANGED <<resps, lates>> /\ ~stopped /\ handler = "idle"
    BY <1>5 DEF AskState, Playing
  <2>3. Cardinality(Asks(cmds')) =< n + 1 /\ Cardinality(Asks(cmds')) \in Nat
    BY <1>1, <2>1, AsksAppend, AsksFinite, AppendProperties DEF Commands
  <2>4. Waiting = 0 /\ Waiting' = 1
    BY <2>1, <2>2 DEF Waiting
  <2> QED
    BY <1>1, <1>2, <1>3, <2>2, <2>3, <2>4 DEF Requests
<1>6. CASE TakeAnswer
  <2>1. /\ handler # "idle" /\ handler' = "idle" /\ resps # <<>> /\ resps' = Tail(resps)
        /\ UNCHANGED <<cmds, lates>>
    BY <1>6 DEF TakeAnswer
  <2>2. Waiting = 1 /\ Waiting' = 0 /\ Len(resps') = Len(resps) - 1
    BY <1>1, <2>1, HeadTailProperties DEF Waiting
  <2> QED
    BY <1>1, <1>2, <1>3, <2>1, <2>2 DEF Requests
<1>7. CASE AnswerGone
  <2>1. /\ handler' = "idle" /\ stopped /\ resps = <<>> /\ UNCHANGED <<cmds, lates, resps>>
        /\ cmds = <<>>
    BY <1>7 DEF AnswerGone, chan, Requests
  <2>2. Waiting' = 0 /\ Len(resps) = 0 /\ n = 0 /\ AtBridge = 0
    BY <2>1, AsksEmpty DEF Waiting, AtBridge, Lifecycle
  <2> QED
    BY <1>1, <1>2, <2>1, <2>2 DEF Requests
<1>8. CASE AnswerTimeout
  <2>1. /\ handler # "idle" /\ handler' = "idle" /\ lates' = lates + 1
        /\ UNCHANGED <<cmds, resps>>
    BY <1>8 DEF AnswerTimeout, chan
  <2>2. Waiting = 1 /\ Waiting' = 0
    BY <2>1 DEF Waiting
  <2> QED
    BY <1>1, <1>2, <1>3, <2>1, <2>2 DEF Requests
<1> QED
  BY <1>4, <1>5, <1>6, <1>7, <1>8 DEF Answer

LEMMA RequestsNext == TypeOK /\ Lifecycle /\ Requests /\ [Next]_vars => Requests'
<1> SUFFICES ASSUME TypeOK, Lifecycle, Requests, [Next]_vars PROVE Requests'
  OBVIOUS
<1>1. /\ cmds \in Seq(Commands) /\ Cardinality(Asks(cmds)) \in Nat /\ Len(resps) \in Nat
      /\ lates \in Nat /\ Waiting \in {0, 1} /\ AtBridge \in {0, 1}
  BY AsksFinite DEF TypeOK, Commands, Waiting, AtBridge
<1>2. CASE StartLoad
  <2>1. /\ cmds' = <<>> /\ resps' = <<>> /\ bridge' = "off" /\ UNCHANGED <<handler, lates>>
    BY <1>2 DEF StartLoad, host
  <2>2. /\ Cardinality(Asks(cmds')) = 0 /\ Len(resps') = 0 /\ AtBridge' = 0
        /\ Waiting' = Waiting
    BY <2>1, AsksEmpty DEF AtBridge, Waiting
  <2> QED
    BY <1>1, <2>1, <2>2 DEF Requests
<1>3. CASE StartLoadFails
  <2>1. /\ UNCHANGED <<cmds, resps, handler, lates>> /\ bridge' = "off" /\ ~stopped'
    BY <1>3 DEF StartLoadFails, host, chan
  <2>2. AtBridge' = 0 /\ Waiting' = Waiting
    BY <2>1 DEF AtBridge, Waiting
  <2> QED
    BY <1>1, <2>1, <2>2 DEF Requests
<1>4. CASE Publish
  <2>1. /\ UNCHANGED <<cmds, resps, handler, lates, stopped>> /\ bridge' = "top"
    BY <1>4 DEF Publish, host, chan
  <2>2. AtBridge' = 0 /\ Waiting' = Waiting
    BY <2>1 DEF AtBridge, Waiting
  <2> QED
    BY <1>1, <2>1, <2>2 DEF Requests
<1>5. ASSUME UNCHANGED <<cmds, resps, handler, lates, stopped, bridge>> PROVE Requests'
  <2>1. AtBridge' = AtBridge /\ Waiting' = Waiting
    BY <1>5 DEF AtBridge, Waiting
  <2> QED
    BY <1>5, <2>1 DEF Requests
<1>6. CASE SeeGeometry \/ GiveUpLoad \/ LoadSram \/ Settle
  BY <1>5, <1>6 DEF SeeGeometry, GiveUpLoad, LoadSram, Settle, host, chan
<1>7. CASE Core \/ CoreDies
  BY <1>5, <1>7 DEF Core, CoreBoot, CoreTake, CoreAnswer, CoreClear, CoreFrame, CoreDies,
                    LeavesServer, host
<1>8. CASE StopGame \/ Shutdown \/ ShutdownEnds
  BY <1>5, <1>8 DEF StopGame, Shutdown, ShutdownEnds, LeavesRuntime, host, chan
<1>9. CASE UNCHANGED vars
  BY <1>5, <1>9 DEF vars, host, chan
<1> QED
  BY <1>2, <1>3, <1>4, <1>6, <1>7, <1>8, <1>9, RequestsBridge, RequestsHost DEF Next, Loader

LEMMA RequestsAlways == Spec => [](TypeOK /\ Requests)
<1> QED
  BY TypeInit, TypeNext, LifecycleInit, LifecycleNext, RequestsInit, RequestsNext, PTL DEF Spec

\* However many requests run into their timeout, the answers in the channel and the one in
\* the making are theirs and that of the request that is waited for.
THEOREM AnswersAreBounded == Spec => []AnswersFit
<1>1. TypeOK /\ Requests => AnswersFit
  <2> SUFFICES ASSUME TypeOK, Requests PROVE AnswersFit
    OBVIOUS
  <2>1. /\ Cardinality(Asks(cmds)) \in Nat /\ Len(resps) \in Nat
        /\ lates \in Nat /\ Waiting \in {0, 1} /\ AtBridge \in {0, 1}
    BY AsksFinite DEF TypeOK, Commands, Waiting, AtBridge
  <2> QED
    BY <2>1 DEF Requests, AnswersFit
<1> QED
  BY <1>1, RequestsAlways, PTL

\* A bridge that has an answer to give finds room for it, while fewer requests timed out
\* than the channel holds.
ReplyHasRoom ==
  bridge \in {"saving", "loading"} /\ lates < RespCap => Len(resps) < RespCap

\* The blocking send of an answer does not block as long as fewer requests of a session
\* timed out than core_response_tx holds: a cancelled session is then not held up by
\* answers nobody takes.
THEOREM RepliesNeverBlock == Spec => []ReplyHasRoom
<1>1. TypeOK /\ Requests => ReplyHasRoom
  <2> SUFFICES ASSUME TypeOK, Requests, bridge \in {"saving", "loading"}, lates < RespCap
               PROVE  Len(resps) < RespCap
    BY DEF ReplyHasRoom
  <2>1. /\ Cardinality(Asks(cmds)) \in Nat /\ Len(resps) \in Nat
        /\ lates \in 0..MaxLates /\ Waiting \in {0, 1} /\ AtBridge = 1
    BY AsksFinite DEF TypeOK, Commands, Waiting, AtBridge
  <2> QED
    BY <2>1, BridgeAssumption DEF Requests
<1> QED
  BY <1>1, RequestsAlways, PTL

=============================================================================
