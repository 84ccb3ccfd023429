-------------------------- MODULE HostDaemon_proofs --------------------------
(***************************************************************************)
(* Theorems about the daemon process and its parts, for every pool size,   *)
(* any number of players, saves and upgrades, and any sequence of launches,*)
(* failed builds, failed file operations and ends of the process.          *)
(*                                                                         *)
(* The pool: its stock is conserved, no wake-up is lost, and an invalid    *)
(* configuration serves nothing.  The saves: where pushes do not overlap   *)
(* (Alone) no acknowledged save is lost and no entry is left that cannot   *)
(* be loaded.  The binaries: the two that are installed match, and a       *)
(* restart is known to the gateway.                                        *)
(*                                                                         *)
(* The parts keep their promises when they run in one process: no command, *)
(* task or end of the process does to the pool, to the saves or to the     *)
(* binaries what the part's own specification does not allow, but for the  *)
(* start of the next process, which makes a new pool.                      *)
(***************************************************************************)
EXTENDS HostDaemon, TLAPS

-----------------------------------------------------------------------------
(* The pool of peer connections.                                           *)

\* With TURN settings that no connection accepts the pool never gets a stack.
NothingBuilt == ~Buildable(ice) => queue = 0 /\ want # "served"

PoolInv == PoolTypeOK /\ StockConserved /\ NoLostWakeup /\ NothingBuilt

USE PoolAssumption DEF Ended

LEMMA PoolStart == PoolInit => PoolInv
<1> SUFFICES ASSUME PoolInit PROVE PoolInv
  OBVIOUS
<1>1. PoolTypeOK
  <2>1. queue \in Nat /\ lost \in Nat
    BY DEF PoolInit
  <2> QED
    BY <2>1 DEF PoolInit, PoolTypeOK
<1>2. StockConserved
  BY DEF PoolInit, StockConserved
<1>3. NoLostWakeup /\ NothingBuilt
  BY DEF PoolInit, NoLostWakeup, NothingBuilt
<1> QED
  BY <1>1, <1>2, <1>3 DEF PoolInv

LEMMA PoolTypes == PoolInv /\ [PoolNext]_poolVars => PoolTypeOK'
<1> SUFFICES ASSUME PoolTypeOK, StockConserved, NoLostWakeup, NothingBuilt, [PoolNext]_poolVars
             PROVE PoolTypeOK'
  BY DEF PoolInv
<1> USE DEF PoolTypeOK
<1>1. CASE AcquireFast
  BY <1>1 DEF AcquireFast, Taken
<1>2. CASE AcquireDry
  BY <1>2 DEF AcquireDry
<1>3. CASE Listen
  BY <1>3 DEF Listen
<1>4. CASE AcquireWoken
  BY <1>4 DEF AcquireWoken, Taken
<1>5. CASE AcquireTimeout
  BY <1>5 DEF AcquireTimeout
<1>6. CASE StartBuild
  BY <1>6 DEF StartBuild
<1>7. CASE BuildDone
  BY <1>7 DEF BuildDone, Wake
<1>8. CASE BuildFails
  BY <1>8 DEF BuildFails
<1>9. CASE UNCHANGED poolVars
  BY <1>9 DEF poolVars
<1> QED
  BY <1>1, <1>2, <1>3, <1>4, <1>5, <1>6, <1>7, <1>8, <1>9 DEF PoolNext, Acquire, Replenish

\* A stack that is taken is on its way again.
LEMMA PoolStock == PoolInv /\ [PoolNext]_poolVars => StockConserved'
<1> SUFFICES ASSUME PoolTypeOK, StockConserved, NoLostWakeup, NothingBuilt, [PoolNext]_poolVars
             PROVE StockConserved'
  BY DEF PoolInv
<1> USE DEF PoolTypeOK, StockConserved
<1>1. CASE AcquireFast
  BY <1>1 DEF AcquireFast, Taken
<1>2. CASE AcquireDry
  BY <1>2 DEF AcquireDry
<1>3. CASE Listen
  BY <1>3 DEF Listen
<1>4. CASE AcquireWoken
  <2>1. UNCHANGED <<building, lost>>
    BY <1>4 DEF AcquireWoken
  <2>2. \/ queue > 0 /\ queue' = queue - 1 /\ spawned' = spawned + 1
        \/ UNCHANGED <<queue, spawned>>
    BY <1>4 DEF AcquireWoken, Taken
  <2> QED
    BY <2>1, <2>2
<1>5. CASE AcquireTimeout
  BY <1>5 DEF AcquireTimeout
<1>6. CASE StartBuild
  BY <1>6 DEF StartBuild
<1>7. CASE BuildDone
  BY <1>7 DEF BuildDone, Wake
<1>8. CASE BuildFails
  BY <1>8 DEF BuildFails
<1>9. CASE UNCHANGED poolVars
  BY <1>9 DEF poolVars
<1> QED
  BY <1>1, <1>2, <1>3, <1>4, <1>5, <1>6, <1>7, <1>8, <1>9 DEF PoolNext, Acquire, Replenish

\* A wake-up finds the waiter, or is kept for it.
LEMMA PoolWakes == PoolInv /\ [PoolNext]_poolVars => NoLostWakeup'
<1> SUFFICES ASSUME PoolTypeOK, StockConserved, NoLostWakeup, NothingBuilt, [PoolNext]_poolVars
             PROVE NoLostWakeup'
  BY DEF PoolInv
<1> USE DEF PoolTypeOK, NoLostWakeup
<1>1. CASE AcquireFast
  BY <1>1 DEF AcquireFast, Taken
<1>2. CASE AcquireDry
  BY <1>2 DEF AcquireDry
<1>3. CASE Listen
  BY <1>3 DEF Listen
<1>4. CASE AcquireWoken
  BY <1>4 DEF AcquireWoken, Taken
<1>5. CASE AcquireTimeout
  BY <1>5 DEF AcquireTimeout
<1>6. CASE StartBuild
  BY <1>6 DEF StartBuild
<1>7. CASE BuildDone
  BY <1>7 DEF BuildDone, Wake
<1>8. CASE BuildFails
  BY <1>8 DEF BuildFails
<1>9. CASE UNCHANGED poolVars
  BY <1>9 DEF poolVars
<1> QED
  BY <1>1, <1>2, <1>3, <1>4, <1>5, <1>6, <1>7, <1>8, <1>9 DEF PoolNext, Acquire, Replenish

LEMMA PoolNothing == PoolInv /\ [PoolNext]_poolVars => NothingBuilt'
<1> SUFFICES ASSUME PoolTypeOK, StockConserved, NoLostWakeup, NothingBuilt, [PoolNext]_poolVars
             PROVE NothingBuilt'
  BY DEF PoolInv
<1> USE DEF PoolTypeOK, NothingBuilt
<1>1. CASE AcquireFast
  BY <1>1 DEF AcquireFast, Taken
<1>2. CASE AcquireDry
  BY <1>2 DEF AcquireDry
<1>3. CASE Listen
  BY <1>3 DEF Listen
<1>4. CASE AcquireWoken
  BY <1>4 DEF AcquireWoken, Taken
<1>5. CASE AcquireTimeout
  BY <1>5 DEF AcquireTimeout
<1>6. CASE StartBuild
  BY <1>6 DEF StartBuild
<1>7. CASE BuildDone
  BY <1>7 DEF BuildDone, Wake
<1>8. CASE BuildFails
  BY <1>8 DEF BuildFails
<1>9. CASE UNCHANGED poolVars
  BY <1>9 DEF poolVars
<1> QED
  BY <1>1, <1>2, <1>3, <1>4, <1>5, <1>6, <1>7, <1>8, <1>9 DEF PoolNext, Acquire, Replenish

LEMMA PoolStep == PoolInv /\ [PoolNext]_poolVars => PoolInv'
BY PoolTypes, PoolStock, PoolWakes, PoolNothing DEF PoolInv

LEMMA PoolKeeps == PoolInv => PoolSound
<1> SUFFICES ASSUME PoolInv PROVE PoolSound
  OBVIOUS
<1>1. InvalidServesNothing
  <2> SUFFICES ASSUME Status(ice) = "turn_partial_invalid" PROVE queue = 0 /\ want # "served"
    BY DEF InvalidServesNothing
  <2>1. "turn without credentials" \in StackServers(ice)
    BY DEF Status, StackServers, Servers
  <2> QED
    BY <2>1 DEF PoolInv, NothingBuilt, Buildable
<1> QED
  BY <1>1 DEF PoolInv, PoolSound

(* Theorems.                                                               *)

\* The command loop, the replenish tasks and their builds keep the pool's books.
THEOREM PoolTypeCorrect == PoolSpec => []PoolTypeOK
<1>1. PoolInv => PoolTypeOK
  BY DEF PoolInv
<1> QED
  BY <1>1, PoolStart, PoolStep, PTL DEF PoolSpec

\* PcPool::acquire and replenish_background neither lose nor double a stack, nobody
\* sleeps beside one, and settings the startup log calls invalid serve nothing.
THEOREM PoolAlwaysSound == PoolSpec => []PoolSound
BY PoolStart, PoolStep, PoolKeeps, PTL DEF PoolSpec

HIDE PoolAssumption DEF Ended

-----------------------------------------------------------------------------
(* The stack of saves.                                                     *)

\* What read_stack returns.
Current == IF stack = NoStack THEN EmptyStack ELSE stack

\* A push that has read stack.json, and has not replaced it yet.
Reading(p) == push[p].step \in {"read", "state cut", "state full", "state in place",
                                "stack cut", "stack full"}

\* stack.json is missing or whole, its indices have no gaps, and each entry is whole.
Disk ==
  /\ stack \in Stacks \cup {NoStack}
  /\ Current.have = 1 .. Current.next - 1
  /\ \A i \in stack.have : state[i] \in Saves
  /\ Current.next =< made + 1

OneWriter == \A p, q \in Writing : p = q

\* How far a push has come, in terms of what it finds and what it has written.
Sound(p) ==
  /\ push[p].save \in Saves
  /\ push[p].step = "asked" \/ Reading(p) => Current.next =< made
  /\ Reading(p) => push[p].mem = Pushed(Current)
  /\ push[p].step = "state full" => tmpState[Index(p)] = push[p].save
  /\ push[p].step \in {"state in place", "stack cut", "stack full", "done"}
     => state[Index(p)] = push[p].save
  /\ push[p].step = "stack full" => tmpStack = push[p].mem
  /\ push[p].step = "done" => stack = push[p].mem /\ Index(p) \in stack.have

Progress == \A p \in Writing : Sound(p)

Loading == load.index # 0 => load.index \in stack.have

SaveInv == SaveTypeOK /\ Disk /\ OneWriter /\ Progress /\ Loading /\ AcknowledgedStays

USE SaveAssumption DEF Saves, Indices

(* Facts about records.                                                    *)

LEMMA StackFacts ==
  /\ EmptyStack \in Stacks /\ EmptyStack.next = 1 /\ EmptyStack.have = {}
  /\ NoStack.next = 0 /\ NoStack.have = {}
  /\ NoStack \notin Stacks /\ TornStack \notin Stacks /\ TornStack # NoStack
  /\ \A s \in Stacks : s.next \in 1 .. MaxSaves + 1 /\ s.have \subseteq 1 .. MaxSaves
<1>1. TornStack.next = -1 /\ NoStack.next = 0 /\ NoStack.have = {}
  BY DEF TornStack, NoStack
<1>2. EmptyStack \in Stacks /\ EmptyStack.next = 1 /\ EmptyStack.have = {}
  BY DEF EmptyStack, Stacks
<1>3. \A s \in Stacks : s.next \in 1 .. MaxSaves + 1 /\ s.have \subseteq 1 .. MaxSaves
  BY DEF Stacks
<1> QED
  BY <1>1, <1>2, <1>3

LEMMA PushedFacts ==
  ASSUME NEW s \in Stacks, s.next =< MaxSaves, s.have = 1 .. s.next - 1
  PROVE  /\ Pushed(s) \in Stacks /\ Pushed(s) # NoStack
         /\ Pushed(s).next = s.next + 1
         /\ Pushed(s).have = 1 .. s.next
         /\ Pushed(s).next - 1 = s.next
<1>1. s.next \in 1 .. MaxSaves
  BY StackFacts
<1>2. Pushed(s).next = s.next + 1 /\ Pushed(s).have = s.have \cup {s.next}
  BY DEF Pushed
<1>3. s.have \cup {s.next} = 1 .. s.next
  BY <1>1
<1>4. Pushed(s) \in Stacks
  BY <1>1, <1>3 DEF Pushed, Stacks
<1> QED
  BY <1>1, <1>2, <1>3, <1>4, StackFacts

\* The highest index is the last one.
LEMMA TopFacts ==
  ASSUME NEW s \in Stacks, s.have = 1 .. s.next - 1, s.have # {}
  PROVE  Top(s) \in s.have
<1>1. s.next \in 1 .. MaxSaves + 1
  BY StackFacts
<1>2. s.next - 1 \in s.have /\ \A j \in s.have : j =< s.next - 1
  BY <1>1
<1> QED
  BY <1>2 DEF Top

LEMMA CurrentFacts ==
  ASSUME SaveTypeOK, Disk
  PROVE  /\ Current \in Stacks /\ stack.have = Current.have
         /\ stack # TornStack
         /\ stack.have \subseteq 1 .. MaxSaves
         /\ Current.next \in 1 .. MaxSaves + 1
<1>1. CASE stack = NoStack
  BY <1>1, StackFacts DEF Current, EmptyStack, NoStack
<1>2. CASE stack # NoStack
  BY <1>2, StackFacts DEF Current, Disk
<1> QED
  BY <1>1, <1>2

LEMMA SaveStart == SaveInit => SaveInv
<1> SUFFICES ASSUME SaveInit PROVE SaveInv
  OBVIOUS
<1> USE DEF SaveInit
<1>1. SaveTypeOK
  BY DEF SaveTypeOK, Steps, Idle
<1>2. Disk
  <2>1. Current = EmptyStack
    BY DEF Current
  <2> QED
    BY <2>1, StackFacts DEF Disk
<1>3. OneWriter /\ Progress
  BY DEF OneWriter, Progress, Writing, Idle
<1>4. Loading /\ AcknowledgedStays
  BY DEF Loading, AcknowledgedStays
<1> QED
  BY <1>1, <1>2, <1>3, <1>4 DEF SaveInv

(* One lemma per part of the invariant, one step per action.               *)

\* While pushes do not overlap, whoever is writing is alone.
LEMMA WriterNext == SaveInv /\ Alone /\ [SaveNext \/ SaveCrash]_saveVars => OneWriter'
<1> SUFFICES ASSUME SaveTypeOK, OneWriter, Alone, [SaveNext \/ SaveCrash]_saveVars PROVE OneWriter'
  BY DEF SaveInv
<1>1. ASSUME NEW p \in Players, SaveState(p) PROVE OneWriter'
  BY <1>1 DEF OneWriter, Writing, SaveTypeOK, Idle, SaveState, At
<1>2. ASSUME NEW p \in Players, ReadStack(p) PROVE OneWriter'
  BY <1>2 DEF OneWriter, Writing, SaveTypeOK, Idle, ReadStack, At
<1>3. ASSUME NEW p \in Players, CutState(p) PROVE OneWriter'
  BY <1>3 DEF OneWriter, Writing, SaveTypeOK, Idle, CutState, At, Go, Steps
<1>4. ASSUME NEW p \in Players, FillState(p) PROVE OneWriter'
  BY <1>4 DEF OneWriter, Writing, SaveTypeOK, Idle, FillState, At, Go, Beside
<1>5. ASSUME NEW p \in Players, RenameState(p) PROVE OneWriter'
  BY <1>5 DEF OneWriter, Writing, SaveTypeOK, Idle, RenameState, At, Go
<1>6. ASSUME NEW p \in Players, CutStack(p) PROVE OneWriter'
  BY <1>6 DEF OneWriter, Writing, SaveTypeOK, Idle, CutStack, At, Go, Steps
<1>7. ASSUME NEW p \in Players, FillStack(p) PROVE OneWriter'
  BY <1>7 DEF OneWriter, Writing, SaveTypeOK, Idle, FillStack, At, Go, Beside, Steps
<1>8. ASSUME NEW p \in Players, RenameStack(p) PROVE OneWriter'
  BY <1>8 DEF OneWriter, Writing, SaveTypeOK, Idle, RenameStack, At, Go
<1>9. ASSUME NEW p \in Players, Acknowledge(p) PROVE OneWriter'
  BY <1>9 DEF OneWriter, Writing, SaveTypeOK, Idle, Acknowledge, At
<1>10. ASSUME NEW p \in Players, PushFails(p) PROVE OneWriter'
  BY <1>10 DEF OneWriter, Writing, SaveTypeOK, Idle, PushFails, Steps
<1>11. ASSUME LoadLatest PROVE OneWriter'
  BY <1>11 DEF OneWriter, Writing, SaveTypeOK, Idle, LoadLatest
<1>12. ASSUME LoadRead PROVE OneWriter'
  BY <1>12 DEF OneWriter, Writing, SaveTypeOK, Idle, LoadRead
<1>13. ASSUME LoadEnds PROVE OneWriter'
  BY <1>13 DEF OneWriter, Writing, SaveTypeOK, Idle, LoadEnds
<1>14. ASSUME SaveCrash PROVE OneWriter'
  BY <1>14 DEF OneWriter, Writing, SaveTypeOK, Idle, SaveCrash
<1>15. ASSUME UNCHANGED saveVars PROVE OneWriter'
  BY <1>15 DEF OneWriter, Writing, SaveTypeOK, Idle, saveVars
<1>16. ASSUME LoadListed PROVE OneWriter'
  BY <1>16 DEF OneWriter, Writing, SaveTypeOK, Idle, LoadListed
<1> QED
  BY <1>1, <1>2, <1>3, <1>4, <1>5, <1>6, <1>7, <1>8, <1>9, <1>10,
     <1>11, <1>12, <1>13, <1>14, <1>15, <1>16
  DEF SaveNext, PushStep

\* A push that has read stack.json writes to an index that no entry has.
LEMMA ReadingFacts ==
  ASSUME SaveInv, NEW p \in Players, Reading(p)
  PROVE  /\ p \in Writing /\ push[p].mem = Pushed(Current)
         /\ Current \in Stacks /\ Current.next =< MaxSaves
         /\ Current.have = 1 .. Current.next - 1 /\ stack.have = Current.have
         /\ push[p].mem \in Stacks /\ push[p].mem # NoStack
         /\ push[p].mem.next = Current.next + 1
         /\ push[p].mem.have = 1 .. Current.next
         /\ push[p].mem.have = 1 .. push[p].mem.next - 1
         /\ Index(p) = Current.next
         /\ Index(p) \in 1 .. MaxSaves /\ Index(p) \notin stack.have
         /\ Index(p) \in push[p].mem.have
         /\ stack.have \subseteq push[p].mem.have
<1>1. p \in Writing
  BY DEF Reading, Writing
<1>2. push[p].mem = Pushed(Current) /\ Current.next =< made
  BY <1>1 DEF SaveInv, Progress, Sound
<1>3. Current \in Stacks /\ stack.have = Current.have /\ Current.next \in 1 .. MaxSaves + 1
  BY CurrentFacts DEF SaveInv
<1>4. Current.have = 1 .. Current.next - 1
  BY DEF SaveInv, Disk
<1>5. made \in 0 .. MaxSaves
  BY DEF SaveInv, SaveTypeOK
<1>6. Current.next \in 1 .. MaxSaves
  BY <1>2, <1>3, <1>5
<1>7. /\ push[p].mem \in Stacks /\ push[p].mem # NoStack
      /\ push[p].mem.next = Current.next + 1
      /\ push[p].mem.have = 1 .. Current.next
      /\ push[p].mem.next - 1 = Current.next
  BY <1>2, <1>3, <1>4, <1>6, PushedFacts
<1>8. Index(p) = Current.next
  BY <1>7 DEF Index
<1>9. push[p].mem.have = 1 .. push[p].mem.next - 1
  BY <1>7
<1> QED
  BY <1>1, <1>2, <1>3, <1>4, <1>6, <1>7, <1>8, <1>9

\* The step of a push that no other push runs beside.
LEMMA AloneFacts ==
  ASSUME SaveInv, NEW p \in Writing
  PROVE  /\ Beside(p, "state cut", "state full") = {}
         /\ Beside(p, "stack cut", "stack full") = {}
BY DEF SaveInv, OneWriter, Writing, Beside

\* The records of push.
Records == [step : Steps, save : 0 .. MaxSaves, mem : Stacks \cup {NoStack}]

LEMMA IdleRecord == Idle \in Records /\ Idle.step = "idle"
BY DEF Idle, Records, Steps

\* What a step of a push leaves of its record.
LEMMA GoFacts ==
  ASSUME NEW p \in Players, NEW to \in Steps, push \in [Players -> Records], Go(p, to)
  PROVE  /\ push'[p].step = to /\ push'[p].save = push[p].save
         /\ push'[p].mem = push[p].mem /\ Index(p)' = Index(p)
<1>1. push'[p] = [push[p] EXCEPT !.step = to]
  BY DEF Go
<1>2. /\ push'[p].step = to /\ push'[p].save = push[p].save
      /\ push'[p].mem = push[p].mem
  BY <1>1 DEF Records
<1> QED
  BY <1>2 DEF Index

\* A push that goes on keeps its type.
LEMMA GoTyped ==
  ASSUME push \in [Players -> Records], NEW p \in Players, NEW to \in Steps, Go(p, to)
  PROVE  push' \in [Players -> Records]
<1>1. [push[p] EXCEPT !.step = to] \in Records
  BY DEF Records
<1> QED
  BY <1>1 DEF Go

LEMMA TypesNext == SaveInv /\ [SaveNext \/ SaveCrash]_saveVars => SaveTypeOK'
<1> SUFFICES ASSUME SaveInv, SaveTypeOK, push \in [Players -> Records],
                    [SaveNext \/ SaveCrash]_saveVars
             PROVE SaveTypeOK'
  BY DEF SaveInv, SaveTypeOK, Records
<1>1. ASSUME NEW p \in Players, SaveState(p) PROVE SaveTypeOK'
  <2>1. [step |-> "asked", save |-> made + 1, mem |-> NoStack] \in Records
    <3>1. made + 1 \in 0 .. MaxSaves
      BY <1>1 DEF SaveTypeOK, SaveState
    <3> QED
      BY <3>1 DEF Records, Steps
  <2>2. push' \in [Players -> Records]
    BY <1>1, <2>1 DEF SaveState
  <2>3. made' \in 0 .. MaxSaves
    BY <1>1 DEF SaveTypeOK, SaveState
  <2> QED
    BY <1>1, <2>2, <2>3 DEF SaveTypeOK, SaveState, Records
<1>2. ASSUME NEW p \in Players, ReadStack(p) PROVE SaveTypeOK'
  <2>1. Idle \in Records
    BY IdleRecord
  <2>2. Pushed(Current) \in Stacks
    <3>1. p \in Writing /\ Current.next =< made
      BY <1>2 DEF ReadStack, At, Writing, SaveInv, Progress, Sound
    <3> QED
      BY <3>1, CurrentFacts, PushedFacts DEF SaveInv, Disk, SaveTypeOK
  <2>3. [push[p] EXCEPT !.step = "read", !.mem = Pushed(Current)] \in Records
    <3>1. push[p] \in Records /\ "read" \in Steps
      BY DEF Steps
    <3> QED
      BY <2>2, <3>1 DEF Records
  <2>4. push' \in [Players -> Records]
    BY <1>2, <2>1, <2>3 DEF ReadStack, Current
  <2> QED
    BY <1>2, <2>4 DEF SaveTypeOK, ReadStack, Records
<1>3. ASSUME NEW p \in Players, CutState(p) PROVE SaveTypeOK'
  <2>1. "state cut" \in Steps
    BY DEF Steps
  <2>2. push' \in [Players -> Records]
    BY <1>3, <2>1, GoTyped DEF CutState
  <2>3. tmpState' \in [Indices -> Saves \cup {NoFile, Torn}]
    BY <1>3 DEF CutState, SaveTypeOK
  <2> QED
    BY <1>3, <2>2, <2>3 DEF SaveTypeOK, CutState, Records
<1>4. ASSUME NEW p \in Players, FillState(p) PROVE SaveTypeOK'
  <2>1. push' \in [Players -> Records]
    <3>1. "state full" \in Steps
      BY DEF Steps
    <3> QED
      BY <1>4, <3>1, GoTyped DEF FillState
  <2>2. push[p].save \in Saves
    BY <1>4 DEF FillState, At, SaveInv, Progress, Sound, Writing
  <2>3. tmpState' \in [Indices -> Saves \cup {NoFile, Torn}]
    BY <1>4, <2>2 DEF FillState, SaveTypeOK
  <2> QED
    BY <1>4, <2>1, <2>3 DEF SaveTypeOK, FillState, Records
<1>5. ASSUME NEW p \in Players, RenameState(p) PROVE SaveTypeOK'
  <2>1. push' \in [Players -> Records]
    <3>1. [push[p] EXCEPT !.step = "state in place"] \in Records
      BY DEF Records, Steps
    <3> QED
      BY <1>5, <3>1, IdleRecord DEF RenameState, Go
  <2>2. /\ state' \in [Indices -> Saves \cup {NoFile, Torn}]
        /\ tmpState' \in [Indices -> Saves \cup {NoFile, Torn}]
    <3>1. Index(p) \in Indices
      BY <1>5, ReadingFacts DEF RenameState, At, Reading
    <3> QED
      BY <1>5, <3>1 DEF RenameState, SaveTypeOK
  <2> QED
    BY <1>5, <2>1, <2>2 DEF SaveTypeOK, RenameState, Records
<1>6. ASSUME NEW p \in Players, CutStack(p) PROVE SaveTypeOK'
  <2>1. "stack cut" \in Steps
    BY DEF Steps
  <2>2. push' \in [Players -> Records]
    BY <1>6, <2>1, GoTyped DEF CutStack
  <2> QED
    BY <1>6, <2>2 DEF SaveTypeOK, CutStack, Records
<1>7. ASSUME NEW p \in Players, FillStack(p) PROVE SaveTypeOK'
  <2>1. "stack full" \in Steps
    BY DEF Steps
  <2>2. push' \in [Players -> Records]
    BY <1>7, <2>1, GoTyped DEF FillStack
  <2>3. tmpStack' \in Stacks \cup {NoStack, TornStack}
    BY <1>7 DEF SaveTypeOK, FillStack
  <2> QED
    BY <1>7, <2>2, <2>3 DEF SaveTypeOK, FillStack, Records
<1>8. ASSUME NEW p \in Players, RenameStack(p) PROVE SaveTypeOK'
  <2>1. push' \in [Players -> Records]
    <3>1. [push[p] EXCEPT !.step = "done"] \in Records
      BY DEF Records, Steps
    <3> QED
      BY <1>8, <3>1, IdleRecord DEF RenameStack, Go
  <2> QED
    BY <1>8, <2>1 DEF SaveTypeOK, RenameStack, Records
<1>9. ASSUME NEW p \in Players, Acknowledge(p) PROVE SaveTypeOK'
  <2>1. push' \in [Players -> Records]
    BY <1>9, IdleRecord DEF Acknowledge
  <2>2. p \in Writing /\ push[p].save \in Saves /\ Index(p) \in stack.have
    BY <1>9 DEF Acknowledge, At, Writing, SaveInv, Progress, Sound
  <2>3. Index(p) \in Indices
    BY <2>2, CurrentFacts DEF SaveInv
  <2>4. acked' \in SUBSET (Indices \X Saves)
    BY <1>9, <2>2, <2>3 DEF Acknowledge, SaveTypeOK
  <2> QED
    BY <1>9, <2>1, <2>4 DEF SaveTypeOK, Acknowledge, Records
<1>10. ASSUME NEW p \in Players, PushFails(p) PROVE SaveTypeOK'
  <2>1. push' \in [Players -> Records]
    BY <1>10, IdleRecord DEF PushFails
  <2> QED
    BY <1>10, <2>1 DEF SaveTypeOK, PushFails, Records
<1>11. ASSUME LoadLatest PROVE SaveTypeOK'
  <2>1. Top(stack) \in stack.have
    <3>1. stack \in Stacks /\ stack.have = 1 .. stack.next - 1
      BY <1>11, StackFacts DEF LoadLatest, SaveInv, Disk, Current
    <3> QED
      BY <1>11, <3>1, TopFacts DEF LoadLatest
  <2>2. Top(stack) \in Indices
    BY <2>1, CurrentFacts DEF SaveInv
  <2> QED
    BY <1>11, <2>2 DEF SaveTypeOK, LoadLatest
<1>12. ASSUME LoadRead PROVE SaveTypeOK'
  BY <1>12 DEF SaveTypeOK, LoadRead
<1>13. ASSUME LoadEnds PROVE SaveTypeOK'
  BY <1>13 DEF SaveTypeOK, LoadEnds
<1>14. ASSUME SaveCrash PROVE SaveTypeOK'
  <2>1. push' \in [Players -> Records]
    BY <1>14, IdleRecord DEF SaveCrash
  <2> QED
    BY <1>14, <2>1 DEF SaveTypeOK, SaveCrash, Records
<1>15. ASSUME UNCHANGED saveVars PROVE SaveTypeOK'
  BY <1>15 DEF SaveTypeOK, saveVars
<1>16. ASSUME LoadListed PROVE SaveTypeOK'
  BY <1>16, CurrentFacts DEF SaveInv, SaveTypeOK, LoadListed
<1> QED
  BY <1>1, <1>2, <1>3, <1>4, <1>5, <1>6, <1>7, <1>8, <1>9, <1>10,
     <1>11, <1>12, <1>13, <1>14, <1>15, <1>16
  DEF SaveNext, PushStep

\* Disk is about stack.json and the files; only the two renames change them.
LEMMA DiskSame ==
  ASSUME SaveInv, UNCHANGED <<stack, state>>, made' \in {made, made + 1}
  PROVE  Disk'
<1>1. made \in 0 .. MaxSaves /\ Current.next \in 1 .. MaxSaves + 1
  BY CurrentFacts DEF SaveInv, SaveTypeOK
<1>2. Current' = Current
  BY DEF Current
<1> QED
  BY <1>1, <1>2 DEF SaveInv, Disk

LEMMA DiskNext == SaveInv /\ [SaveNext \/ SaveCrash]_saveVars => Disk'
<1> SUFFICES ASSUME SaveInv, [SaveNext \/ SaveCrash]_saveVars PROVE Disk'
  OBVIOUS
<1>1. ASSUME NEW p \in Players, SaveState(p) PROVE Disk'
  BY <1>1, DiskSame DEF SaveState
<1>2. ASSUME NEW p \in Players, ReadStack(p) PROVE Disk'
  BY <1>2, DiskSame DEF ReadStack
<1>3. ASSUME NEW p \in Players, CutState(p) PROVE Disk'
  BY <1>3, DiskSame DEF CutState
<1>4. ASSUME NEW p \in Players, FillState(p) PROVE Disk'
  BY <1>4, DiskSame DEF FillState
<1>5. ASSUME NEW p \in Players, RenameState(p) PROVE Disk'
  <2>1. Index(p) \notin stack.have
    BY <1>5, ReadingFacts DEF RenameState, At, Reading
  <2>2. \A i \in stack.have : state'[i] = state[i]
    BY <1>5, <2>1, CurrentFacts DEF RenameState, SaveInv, SaveTypeOK
  <2>3. Current' = Current
    BY <1>5 DEF RenameState, Current
  <2> QED
    BY <1>5, <2>2, <2>3 DEF RenameState, SaveInv, Disk
<1>6. ASSUME NEW p \in Players, CutStack(p) PROVE Disk'
  BY <1>6, DiskSame DEF CutStack
<1>7. ASSUME NEW p \in Players, FillStack(p) PROVE Disk'
  BY <1>7, DiskSame DEF FillStack
<1>8. ASSUME NEW p \in Players, RenameStack(p) PROVE Disk'
  <2>1. Reading(p) /\ p \in Writing
    BY <1>8 DEF RenameStack, At, Reading, Writing
  <2>2. /\ tmpStack = push[p].mem /\ state[Index(p)] \in Saves
        /\ Current.next =< made
    BY <1>8, <2>1 DEF RenameStack, At, SaveInv, Progress, Sound
  <2>3. stack' = push[p].mem /\ Current' = push[p].mem
    BY <1>8, <2>1, <2>2, ReadingFacts DEF RenameStack, Current
  <2>4. Current.next \in 1 .. MaxSaves + 1 /\ made \in 0 .. MaxSaves
    BY CurrentFacts DEF SaveInv, SaveTypeOK
  <2>5. /\ push[p].mem \in Stacks /\ push[p].mem.next = Current.next + 1
        /\ push[p].mem.have = 1 .. Current.next /\ Index(p) = Current.next
        /\ stack.have = 1 .. Current.next - 1
    BY <2>1, ReadingFacts
  <2>6. \A i \in push[p].mem.have : i \in stack.have \/ i = Index(p)
    BY <2>4, <2>5
  <2>7. \A i \in stack'.have : state'[i] \in Saves
    BY <1>8, <2>2, <2>3, <2>6 DEF RenameStack, SaveInv, Disk
  <2>8. Current'.have = 1 .. Current'.next - 1 /\ Current'.next =< made' + 1
    <3>1. Current'.next = Current.next + 1 /\ Current'.have = 1 .. Current.next
      BY <2>3, <2>5
    <3>2. Current.next + 1 - 1 = Current.next /\ Current.next + 1 =< made + 1
      BY <2>2, <2>4
    <3>3. made' = made
      BY <1>8 DEF RenameStack
    <3>4. Current'.have = 1 .. Current'.next - 1
      BY <2>1, <2>3, ReadingFacts
    <3> QED
      BY <3>1, <3>2, <3>3, <3>4
  <2> QED
    BY <2>3, <2>5, <2>7, <2>8 DEF Disk
<1>9. ASSUME NEW p \in Players, Acknowledge(p) PROVE Disk'
  BY <1>9, DiskSame DEF Acknowledge
<1>10. ASSUME NEW p \in Players, PushFails(p) PROVE Disk'
  BY <1>10, DiskSame DEF PushFails
<1>11. ASSUME LoadLatest PROVE Disk'
  BY <1>11, DiskSame DEF LoadLatest
<1>12. ASSUME LoadRead PROVE Disk'
  BY <1>12, DiskSame DEF LoadRead
<1>13. ASSUME LoadEnds PROVE Disk'
  BY <1>13, DiskSame DEF LoadEnds
<1>14. ASSUME SaveCrash PROVE Disk'
  BY <1>14, DiskSame DEF SaveCrash
<1>15. ASSUME UNCHANGED saveVars PROVE Disk'
  BY <1>15, DiskSame DEF saveVars
<1>16. ASSUME LoadListed PROVE Disk'
  BY <1>16, DiskSame DEF LoadListed
<1> QED
  BY <1>1, <1>2, <1>3, <1>4, <1>5, <1>6, <1>7, <1>8, <1>9, <1>10,
     <1>11, <1>12, <1>13, <1>14, <1>15, <1>16
  DEF SaveNext, PushStep

\* Where pushes do not overlap, the only push is the one that takes the step.
LEMMA OnlyPush ==
  ASSUME SaveInv, NEW p \in Players, Writing' \subseteq {p}, Sound(p)' \/ p \notin Writing'
  PROVE  Progress'
BY DEF Progress

LEMMA ProgressNext == SaveInv /\ Alone /\ [SaveNext \/ SaveCrash]_saveVars => Progress'
<1> SUFFICES ASSUME SaveInv, SaveTypeOK, Alone, push \in [Players -> Records],
                    [SaveNext \/ SaveCrash]_saveVars
             PROVE Progress'
  BY DEF SaveInv, SaveTypeOK, Records
<1> DEFINE Only(p) == Writing' \subseteq {p}
<1>1. ASSUME NEW p \in Players, SaveState(p) PROVE Progress'
  <2>1. Only(p)
    BY <1>1 DEF SaveState, At, Writing, SaveInv, OneWriter, Idle
  <2>2. push'[p].step = "asked" /\ push'[p].save = made + 1 /\ made + 1 \in Saves
    BY <1>1 DEF SaveState, SaveTypeOK
  <2>3. Current'.next =< made'
    BY <1>1 DEF SaveState, SaveInv, Disk, Current
  <2> QED
    BY <2>1, <2>2, <2>3, OnlyPush DEF Sound, Reading
<1>2. ASSUME NEW p \in Players, ReadStack(p) PROVE Progress'
  <2>1. Only(p)
    BY <1>2 DEF ReadStack, At, Writing, SaveInv, OneWriter, Idle
  <2>2. p \in Writing /\ Sound(p) /\ Current' = Current /\ stack # TornStack
    BY <1>2, CurrentFacts DEF ReadStack, At, Writing, SaveInv, Progress, Current
  <2>3. push'[p] = [push[p] EXCEPT !.step = "read", !.mem = Pushed(Current)]
    BY <1>2, <2>2, CurrentFacts, StackFacts DEF ReadStack, Current, SaveInv
  <2>4. push'[p].step = "read" /\ push'[p].mem = Pushed(Current') /\ push'[p].save = push[p].save
    BY <2>2, <2>3 DEF Records
  <2> QED
    BY <1>2, <2>1, <2>2, <2>4, OnlyPush DEF Sound, Reading, ReadStack, At
<1>3. ASSUME NEW p \in Players, CutState(p) PROVE Progress'
  <2>1. Only(p)
    BY <1>3 DEF CutState, At, Go, Writing, SaveInv, OneWriter, Idle
  <2>2. /\ push'[p].step = "state cut" /\ push'[p].save = push[p].save
        /\ push'[p].mem = push[p].mem /\ Index(p)' = Index(p) /\ Current' = Current
    BY <1>3, GoFacts DEF CutState, Steps, Current
  <2>3. p \in Writing /\ Sound(p)
    BY <1>3 DEF CutState, At, Writing, SaveInv, Progress
  <2> QED
    BY <1>3, <2>1, <2>2, <2>3, OnlyPush DEF Sound, Reading, CutState, At
<1>4. ASSUME NEW p \in Players, FillState(p) PROVE Progress'
  <2>1. Only(p)
    BY <1>4 DEF FillState, At, Go, Writing, SaveInv, OneWriter, Idle
  <2>2. /\ push'[p].step = "state full" /\ push'[p].save = push[p].save
        /\ push'[p].mem = push[p].mem /\ Index(p)' = Index(p) /\ Current' = Current
    BY <1>4, GoFacts DEF FillState, Steps, Current
  <2>3. p \in Writing /\ Sound(p)
    BY <1>4 DEF FillState, At, Writing, SaveInv, Progress
  <2>4. Reading(p) /\ Index(p) \in Indices
    BY <1>4, ReadingFacts DEF FillState, At, Reading
  <2>5. Beside(p, "state cut", "state full") = {}
    BY <2>3, AloneFacts
  <2>6. tmpState'[Index(p)] = push[p].save
    BY <1>4, <2>4, <2>5 DEF FillState, SaveTypeOK
  <2> QED
    BY <1>4, <2>1, <2>2, <2>3, <2>6, OnlyPush DEF Sound, Reading, FillState, At
<1>5. ASSUME NEW p \in Players, RenameState(p) PROVE Progress'
  <2>1. Only(p)
    BY <1>5 DEF RenameState, At, Go, Writing, SaveInv, OneWriter, Idle
  <2>2. CASE tmpState[Index(p)] = NoFile
    <3>1. p \notin Writing'
      <4>1. push'[p] = Idle
        BY <1>5, <2>2 DEF RenameState
      <4> QED
        BY <4>1, IdleRecord DEF Writing
    <3> QED
      BY <2>1, <3>1, OnlyPush
  <2>3. CASE tmpState[Index(p)] # NoFile
    <3>1. /\ push'[p].step = "state in place" /\ push'[p].save = push[p].save
          /\ push'[p].mem = push[p].mem /\ Index(p)' = Index(p) /\ Current' = Current
      BY <1>5, <2>3, GoFacts DEF RenameState, Steps, Current
    <3>2. Sound(p) /\ Index(p) \in Indices
      BY <1>5, ReadingFacts DEF RenameState, At, Reading, Writing, SaveInv, Progress
    <3>3. state'[Index(p)] = push[p].save
      BY <1>5, <2>3, <3>2 DEF RenameState, At, Sound, SaveTypeOK
    <3> QED
      BY <1>5, <2>1, <3>1, <3>2, <3>3, OnlyPush DEF Sound, Reading, RenameState, At
  <2> QED
    BY <2>2, <2>3
<1>6. ASSUME NEW p \in Players, CutStack(p) PROVE Progress'
  <2>1. Only(p)
    BY <1>6 DEF CutStack, At, Go, Writing, SaveInv, OneWriter, Idle
  <2>2. /\ push'[p].step = "stack cut" /\ push'[p].save = push[p].save
        /\ push'[p].mem = push[p].mem /\ Index(p)' = Index(p) /\ Current' = Current
    BY <1>6, GoFacts DEF CutStack, Steps, Current
  <2>3. p \in Writing /\ Sound(p)
    BY <1>6 DEF CutStack, At, Writing, SaveInv, Progress
  <2> QED
    BY <1>6, <2>1, <2>2, <2>3, OnlyPush DEF Sound, Reading, CutStack, At
<1>7. ASSUME NEW p \in Players, FillStack(p) PROVE Progress'
  <2>1. Only(p)
    BY <1>7 DEF FillStack, At, Go, Writing, SaveInv, OneWriter, Idle
  <2>2. /\ push'[p].step = "stack full" /\ push'[p].save = push[p].save
        /\ push'[p].mem = push[p].mem /\ Index(p)' = Index(p) /\ Current' = Current
    BY <1>7, GoFacts DEF FillStack, Steps, Current
  <2>3. p \in Writing /\ Sound(p)
    BY <1>7 DEF FillStack, At, Writing, SaveInv, Progress
  <2>5. Beside(p, "stack cut", "stack full") = {}
    BY <2>3, AloneFacts
  <2>6. tmpStack' = push[p].mem
    BY <1>7, <2>5 DEF FillStack
  <2> QED
    BY <1>7, <2>1, <2>2, <2>3, <2>6, OnlyPush DEF Sound, Reading, FillStack, At
<1>8. ASSUME NEW p \in Players, RenameStack(p) PROVE Progress'
  <2>1. Only(p)
    BY <1>8 DEF RenameStack, At, Go, Writing, SaveInv, OneWriter, Idle
  <2>2. Reading(p) /\ Sound(p)
    BY <1>8 DEF RenameStack, At, Reading, Writing, SaveInv, Progress
  <2>3. stack' = push[p].mem /\ push'[p] = [push[p] EXCEPT !.step = "done"]
    BY <1>8, <2>2, ReadingFacts DEF RenameStack, At, Sound, Go
  <2>4. Index(p) \in push[p].mem.have /\ Index(p)' = Index(p)
    BY <2>2, <2>3, ReadingFacts DEF Index
  <2>5. /\ push'[p].step = "done" /\ push'[p].save = push[p].save
        /\ push'[p].mem = push[p].mem
    BY <2>3 DEF Records
  <2>6. push[p].save \in Saves /\ state'[Index(p)] = push[p].save
    BY <1>8, <2>2 DEF RenameStack, At, Sound
  <2>7. ~Reading(p)'
    BY <2>5 DEF Reading
  <2>8. Sound(p)'
    BY <2>3, <2>4, <2>5, <2>6, <2>7 DEF Sound
  <2> QED
    BY <2>1, <2>8, OnlyPush
<1>9. ASSUME NEW p \in Players, Acknowledge(p) PROVE Progress'
  <2>1. Only(p)
    BY <1>9 DEF Acknowledge, At, Steps, Writing, SaveInv, OneWriter, Idle
  <2>2. p \notin Writing'
    BY <1>9 DEF Acknowledge, Writing, Idle
  <2> QED
    BY <2>1, <2>2, OnlyPush
<1>10. ASSUME NEW p \in Players, PushFails(p) PROVE Progress'
  <2>1. Only(p)
    BY <1>10 DEF PushFails, At, Steps, Writing, SaveInv, OneWriter, Idle
  <2>2. p \notin Writing'
    BY <1>10 DEF PushFails, Writing, Idle
  <2> QED
    BY <2>1, <2>2, OnlyPush
<1>11. ASSUME LoadLatest PROVE Progress'
  BY <1>11 DEF LoadLatest, SaveInv, Progress, Writing, Sound, Reading, Current, Index, Pushed
<1>12. ASSUME LoadRead PROVE Progress'
  BY <1>12 DEF LoadRead, SaveInv, Progress, Writing, Sound, Reading, Current, Index, Pushed
<1>13. ASSUME LoadEnds PROVE Progress'
  BY <1>13 DEF LoadEnds, SaveInv, Progress, Writing, Sound, Reading, Current, Index, Pushed
<1>14. ASSUME SaveCrash PROVE Progress'
  BY <1>14 DEF SaveCrash, Progress, Writing, Idle
<1>15. ASSUME UNCHANGED saveVars PROVE Progress'
  BY <1>15 DEF saveVars, SaveInv, Progress, Writing, Sound, Reading, Current, Index, Pushed
<1>16. ASSUME LoadListed PROVE Progress'
  BY <1>16 DEF LoadListed, SaveInv, Progress, Writing, Sound, Reading, Current, Index, Pushed
<1> QED
  BY <1>1, <1>2, <1>3, <1>4, <1>5, <1>6, <1>7, <1>8, <1>9, <1>10,
     <1>11, <1>12, <1>13, <1>14, <1>15, <1>16
  DEF SaveNext, PushStep

\* An index that was looked up stays in stack.json, whatever is pushed meanwhile.
LEMMA StackGrows == ASSUME SaveInv, NEW p \in Players, RenameStack(p)
                    PROVE  stack.have \subseteq stack'.have
BY ReadingFacts DEF RenameStack, At, Reading, SaveInv, Progress, Sound

LEMMA LoadingNext == SaveInv /\ [SaveNext \/ SaveCrash]_saveVars => Loading'
<1> SUFFICES ASSUME SaveInv, [SaveNext \/ SaveCrash]_saveVars PROVE Loading'
  OBVIOUS
<1>1. ASSUME NEW p \in Players, SaveState(p) PROVE Loading'
  BY <1>1 DEF SaveState, SaveInv, Loading
<1>2. ASSUME NEW p \in Players, ReadStack(p) PROVE Loading'
  BY <1>2 DEF ReadStack, SaveInv, Loading
<1>3. ASSUME NEW p \in Players, CutState(p) PROVE Loading'
  BY <1>3 DEF CutState, SaveInv, Loading
<1>4. ASSUME NEW p \in Players, FillState(p) PROVE Loading'
  BY <1>4 DEF FillState, SaveInv, Loading
<1>5. ASSUME NEW p \in Players, RenameState(p) PROVE Loading'
  BY <1>5 DEF RenameState, SaveInv, Loading
<1>6. ASSUME NEW p \in Players, CutStack(p) PROVE Loading'
  BY <1>6 DEF CutStack, SaveInv, Loading
<1>7. ASSUME NEW p \in Players, FillStack(p) PROVE Loading'
  BY <1>7 DEF FillStack, SaveInv, Loading
<1>8. ASSUME NEW p \in Players, RenameStack(p) PROVE Loading'
  BY <1>8, StackGrows DEF RenameStack, SaveInv, Loading
<1>9. ASSUME NEW p \in Players, Acknowledge(p) PROVE Loading'
  BY <1>9 DEF Acknowledge, SaveInv, Loading
<1>10. ASSUME NEW p \in Players, PushFails(p) PROVE Loading'
  BY <1>10 DEF PushFails, SaveInv, Loading
<1>11. ASSUME LoadLatest PROVE Loading'
  <2>1. stack \in Stacks /\ stack.have = 1 .. stack.next - 1
    BY <1>11, StackFacts DEF LoadLatest, SaveInv, Disk, Current
  <2> QED
    BY <1>11, <2>1, TopFacts DEF LoadLatest, Loading
<1>12. ASSUME LoadRead PROVE Loading'
  BY <1>12 DEF LoadRead, SaveInv, SaveTypeOK, Loading
<1>13. ASSUME LoadEnds PROVE Loading'
  BY <1>13 DEF LoadEnds, SaveInv, Loading
<1>14. ASSUME SaveCrash PROVE Loading'
  BY <1>14 DEF SaveCrash, SaveInv, Loading
<1>15. ASSUME UNCHANGED saveVars PROVE Loading'
  BY <1>15 DEF saveVars, SaveInv, Loading
<1>16. ASSUME LoadListed PROVE Loading'
  BY <1>16 DEF LoadListed, Loading
<1> QED
  BY <1>1, <1>2, <1>3, <1>4, <1>5, <1>6, <1>7, <1>8, <1>9, <1>10,
     <1>11, <1>12, <1>13, <1>14, <1>15, <1>16
  DEF SaveNext, PushStep

LEMMA AckNext == SaveInv /\ [SaveNext \/ SaveCrash]_saveVars => AcknowledgedStays'
<1> SUFFICES ASSUME SaveInv, [SaveNext \/ SaveCrash]_saveVars PROVE AcknowledgedStays'
  OBVIOUS
<1>1. ASSUME NEW p \in Players, SaveState(p) PROVE AcknowledgedStays'
  BY <1>1 DEF SaveState, SaveInv, AcknowledgedStays
<1>2. ASSUME NEW p \in Players, ReadStack(p) PROVE AcknowledgedStays'
  BY <1>2 DEF ReadStack, SaveInv, AcknowledgedStays
<1>3. ASSUME NEW p \in Players, CutState(p) PROVE AcknowledgedStays'
  BY <1>3 DEF CutState, SaveInv, AcknowledgedStays
<1>4. ASSUME NEW p \in Players, FillState(p) PROVE AcknowledgedStays'
  BY <1>4 DEF FillState, SaveInv, AcknowledgedStays
<1>5. ASSUME NEW p \in Players, RenameState(p) PROVE AcknowledgedStays'
  <2>1. Index(p) \notin stack.have
    BY <1>5, ReadingFacts DEF RenameState, At, Reading
  <2> QED
    BY <1>5, <2>1 DEF RenameState, SaveInv, SaveTypeOK, AcknowledgedStays
<1>6. ASSUME NEW p \in Players, CutStack(p) PROVE AcknowledgedStays'
  BY <1>6 DEF CutStack, SaveInv, AcknowledgedStays
<1>7. ASSUME NEW p \in Players, FillStack(p) PROVE AcknowledgedStays'
  BY <1>7 DEF FillStack, SaveInv, AcknowledgedStays
<1>8. ASSUME NEW p \in Players, RenameStack(p) PROVE AcknowledgedStays'
  BY <1>8, StackGrows DEF RenameStack, SaveInv, AcknowledgedStays
<1>9. ASSUME NEW p \in Players, Acknowledge(p) PROVE AcknowledgedStays'
  <2>1. Index(p) \in stack.have /\ state[Index(p)] = push[p].save
    BY <1>9 DEF Acknowledge, At, Writing, SaveInv, Progress, Sound
  <2> QED
    BY <1>9, <2>1 DEF Acknowledge, SaveInv, AcknowledgedStays
<1>10. ASSUME NEW p \in Players, PushFails(p) PROVE AcknowledgedStays'
  BY <1>10 DEF PushFails, SaveInv, AcknowledgedStays
<1>11. ASSUME LoadLatest PROVE AcknowledgedStays'
  BY <1>11 DEF LoadLatest, SaveInv, AcknowledgedStays
<1>12. ASSUME LoadRead PROVE AcknowledgedStays'
  BY <1>12 DEF LoadRead, SaveInv, AcknowledgedStays
<1>13. ASSUME LoadEnds PROVE AcknowledgedStays'
  BY <1>13 DEF LoadEnds, SaveInv, AcknowledgedStays
<1>14. ASSUME SaveCrash PROVE AcknowledgedStays'
  BY <1>14 DEF SaveCrash, SaveInv, AcknowledgedStays
<1>15. ASSUME UNCHANGED saveVars PROVE AcknowledgedStays'
  BY <1>15 DEF saveVars, SaveInv, AcknowledgedStays
<1>16. ASSUME LoadListed PROVE AcknowledgedStays'
  BY <1>16 DEF LoadListed, SaveInv, AcknowledgedStays
<1> QED
  BY <1>1, <1>2, <1>3, <1>4, <1>5, <1>6, <1>7, <1>8, <1>9, <1>10,
     <1>11, <1>12, <1>13, <1>14, <1>15, <1>16
  DEF SaveNext, PushStep

(* Theorems.                                                               *)

LEMMA SaveStep == SaveInv /\ Alone /\ [SaveNext \/ SaveCrash]_saveVars => SaveInv'
BY TypesNext, DiskNext, WriterNext, ProgressNext, LoadingNext, AckNext DEF SaveInv

LEMMA SaveKeeps == SaveInv => SavesKept
<1> SUFFICES ASSUME SaveInv PROVE SavesKept
  OBVIOUS
<1>1. EntriesAreWhole
  BY CurrentFacts DEF SaveInv, Disk, EntriesAreWhole
<1>2. LoadsAreWhole
  BY DEF SaveInv, Disk, Loading, LoadsAreWhole
<1> QED
  BY <1>1, <1>2 DEF SaveInv, SavesKept

\* The files, the pushes and the loads stay what SaveTypeOK says.
THEOREM SaveTypeCorrect == ASSUME Alone PROVE SaveSpec => []SaveTypeOK
<1>1. SaveInv => SaveTypeOK
  BY DEF SaveInv
<1> QED
  BY <1>1, SaveStart, SaveStep, PTL DEF SaveSpec

\* save_stack_push one after another, each failing or dying anywhere: an
\* acknowledged save stays, and every entry listed can be loaded.
THEOREM SavesAreKept == ASSUME Alone PROVE SaveSpec => []SavesKept
BY SaveStart, SaveStep, SaveKeeps, PTL DEF SaveSpec

HIDE SaveAssumption DEF Saves, Indices

-----------------------------------------------------------------------------
(* The installed pair of binaries.                                         *)

\* The jobs of install_staged_pair, under its guard.
Guarded == {"core backup", "server backup", "core", "server", "cleanup", "undo"}

\* What makes PairMatches inductive.  While a pair is being installed no signal
\* ends the process, the staged server is there until it is in place, and the
\* backup of the core, if there was a core, is the version the server still has.
Links ==
  /\ proc # "on" => job = "idle"
  /\ job \in Guarded => guard
  /\ job \in Guarded \ {"cleanup"} => "sc-server" \in staged
  /\ job = "server" => bin["sc-core"] = "new"
  /\ job \in {"server backup", "core", "server", "undo"} /\ ~litter /\ ~unrolled
     => backup["sc-core"] \in {"none", bin["sc-server"]}
  /\ job = "leaving" => told = "done"

\* What makes ToldIsInstalled inductive: behind the two renames both binaries are new,
\* and nothing was told while an upgrade is under way.
Installed ==
  /\ job \in {"cleanup", "done"} => bin["sc-core"] = "new" /\ bin["sc-server"] = "new"
  /\ job \in Guarded \cup {"staging", "failed", "done"} => told = "none"

UpgradeInv == UpgradeTypeOK /\ Links /\ PairMatches /\ RestartIsKnown /\ Installed /\ ToldIsInstalled

USE DEF Bins, Jobs, Guarded

LEMMA UpgradeStart == UpgradeInit => UpgradeInv
<1> SUFFICES ASSUME UpgradeInit PROVE UpgradeInv
  OBVIOUS
<1> USE UpgradeAssumption DEF UpgradeInit
<1>1. UpgradeTypeOK
  <2>1. /\ bin \in [Bins -> {"none", "old", "new"}] /\ bin["sc-server"] # "none"
        /\ backup \in [Bins -> {"none", "old", "new"}]
    BY DEF NoBackup
  <2>2. /\ litter \in BOOLEAN /\ guard \in BOOLEAN /\ signal \in BOOLEAN /\ playing \in BOOLEAN
        /\ unrolled \in BOOLEAN /\ unit \in BOOLEAN
    OBVIOUS
  <2>3. asked \in 0 .. MaxUpgrades
    BY DEF UpgradeAssumption
  <2> QED
    BY <2>1, <2>2, <2>3 DEF UpgradeTypeOK
<1>2. Links /\ PairMatches /\ RestartIsKnown /\ Installed /\ ToldIsInstalled
  BY DEF Links, PairMatches, RestartIsKnown, Mixed, Installed, ToldIsInstalled
<1> QED
  BY <1>1, <1>2 DEF UpgradeInv

LEMMA UpgradeTypes == UpgradeInv /\ [UpgradeNext]_upgradeVars => UpgradeTypeOK'
<1> SUFFICES ASSUME UpgradeTypeOK, Links, [UpgradeNext]_upgradeVars PROVE UpgradeTypeOK'
  BY DEF UpgradeInv
<1> USE UpgradeAssumption
<1>1. ASSUME NEW shown \in BOOLEAN, Deliver(shown) PROVE UpgradeTypeOK'
  BY <1>1 DEF UpgradeTypeOK, Deliver, On, KeepsFiles
<1>2. ASSUME NEW ok \in BOOLEAN, Stage(ok) PROVE UpgradeTypeOK'
  BY <1>2 DEF UpgradeTypeOK, Stage, MayLeave, On, KeepsRest
<1>3. ASSUME NEW ok \in BOOLEAN, BackUpCore(ok) PROVE UpgradeTypeOK'
  BY <1>3 DEF UpgradeTypeOK, BackUpCore, On, Returns
<1>4. ASSUME NEW ok \in BOOLEAN, BackUpServer(ok) PROVE UpgradeTypeOK'
  BY <1>4 DEF UpgradeTypeOK, BackUpServer, On, Returns, NoBackup
<1>5. ASSUME NEW ok \in BOOLEAN, RenameCore(ok) PROVE UpgradeTypeOK'
  BY <1>5 DEF UpgradeTypeOK, RenameCore, On, Returns, NoBackup
<1>6. ASSUME NEW ok \in BOOLEAN, RenameServer(ok) PROVE UpgradeTypeOK'
  BY <1>6 DEF UpgradeTypeOK, RenameServer, On, KeepsRest
<1>7. ASSUME NEW ok \in BOOLEAN, Undo(ok) PROVE UpgradeTypeOK'
  BY <1>7 DEF UpgradeTypeOK, Undo, MayLeave, Links, On, Returns, NoBackup
<1>8. ASSUME NEW fate \in Fates, Report(fate) PROVE UpgradeTypeOK'
  BY <1>8 DEF UpgradeTypeOK, Report, Told, KeepsFiles, KeepsRest
<1>9. ASSUME CleanUp PROVE UpgradeTypeOK'
  BY <1>9 DEF UpgradeTypeOK, CleanUp, MayLeave, On, Returns, NoBackup
<1>10. ASSUME Leave PROVE UpgradeTypeOK'
  BY <1>10 DEF UpgradeTypeOK, Leave, On, KeepsFiles
<1>11. ASSUME StartGame PROVE UpgradeTypeOK'
  BY <1>11 DEF UpgradeTypeOK, StartGame, KeepsFiles
<1>12. ASSUME StopGame PROVE UpgradeTypeOK'
  BY <1>12 DEF UpgradeTypeOK, StopGame, KeepsFiles
<1>13. ASSUME Signal PROVE UpgradeTypeOK'
  <2>1. CASE guard
    BY <1>13, <2>1 DEF UpgradeTypeOK, Signal, KeepsFiles
  <2>2. CASE ~guard
    BY <1>13, <2>2 DEF UpgradeTypeOK, Signal, KeepsFiles
  <2> QED
    BY <2>1, <2>2
<1>14. ASSUME Kill PROVE UpgradeTypeOK'
  BY <1>14 DEF UpgradeTypeOK, Kill, KeepsFiles
<1>15. ASSUME Boot PROVE UpgradeTypeOK'
  <2>1. NoBackup \in [Bins -> {"none", "old", "new"}]
    BY DEF NoBackup
  <2>2. bin["sc-server"] \in {"old", "new"}
    BY DEF UpgradeTypeOK
  <2> QED
    BY <1>15, <2>1, <2>2 DEF UpgradeTypeOK, Boot
<1>16. ASSUME UNCHANGED upgradeVars PROVE UpgradeTypeOK'
  <2>1. /\ bin' = bin /\ staged' = staged /\ backup' = backup /\ litter' = litter
        /\ unrolled' = unrolled /\ unit' = unit
        /\ proc' = proc /\ image' = image /\ job' = job /\ guard' = guard
        /\ signal' = signal /\ told' = told /\ playing' = playing /\ asked' = asked
    BY <1>16 DEF upgradeVars
  <2>2. job' \in Jobs /\ told' \in {"none", "done", "unheard", "failed"}
        /\ proc' \in {"on", "restart", "signalled", "killed"}
    BY <2>1 DEF UpgradeTypeOK
  <2>3. /\ bin' \in [Bins -> {"none", "old", "new"}] /\ bin'["sc-server"] # "none" /\ staged' \subseteq Bins
        /\ backup' \in [Bins -> {"none", "old", "new"}]
        /\ image' \in {"old", "new"} /\ asked' \in 0 .. MaxUpgrades
    BY <2>1 DEF UpgradeTypeOK
  <2>4. /\ litter' \in BOOLEAN /\ guard' \in BOOLEAN /\ signal' \in BOOLEAN
        /\ playing' \in BOOLEAN /\ unrolled' \in BOOLEAN /\ unit' \in BOOLEAN
    BY <2>1 DEF UpgradeTypeOK
  <2> QED
    BY <2>2, <2>3, <2>4 DEF UpgradeTypeOK
<1> QED
  BY <1>1, <1>2, <1>3, <1>4, <1>5, <1>6, <1>7, <1>8, <1>9, <1>10,
     <1>11, <1>12, <1>13, <1>14, <1>15, <1>16
  DEF UpgradeNext, Upgrading, Installing, Ends

LEMMA UpgradeLinks == UpgradeInv /\ [UpgradeNext]_upgradeVars => Links'
<1> SUFFICES ASSUME UpgradeTypeOK, Links, PairMatches, [UpgradeNext]_upgradeVars PROVE Links'
  BY DEF UpgradeInv
<1>1. ASSUME NEW shown \in BOOLEAN, Deliver(shown) PROVE Links'
  BY <1>1 DEF Links, UpgradeTypeOK, PairMatches, Mixed, Deliver, On, KeepsFiles
<1>2. ASSUME NEW ok \in BOOLEAN, Stage(ok) PROVE Links'
  BY <1>2 DEF Links, UpgradeTypeOK, PairMatches, Mixed, Stage, MayLeave, On, KeepsRest
<1>3. ASSUME NEW ok \in BOOLEAN, BackUpCore(ok) PROVE Links'
  BY <1>3 DEF Links, UpgradeTypeOK, PairMatches, Mixed, BackUpCore, On, Returns
<1>4. ASSUME NEW ok \in BOOLEAN, BackUpServer(ok) PROVE Links'
  BY <1>4 DEF Links, UpgradeTypeOK, PairMatches, Mixed, BackUpServer, On, Returns, NoBackup
<1>5. ASSUME NEW ok \in BOOLEAN, RenameCore(ok) PROVE Links'
  BY <1>5 DEF Links, UpgradeTypeOK, PairMatches, Mixed, RenameCore, On, Returns, NoBackup
<1>6. ASSUME NEW ok \in BOOLEAN, RenameServer(ok) PROVE Links'
  BY <1>6 DEF Links, UpgradeTypeOK, PairMatches, Mixed, RenameServer, On, KeepsRest
<1>7. ASSUME NEW ok \in BOOLEAN, Undo(ok) PROVE Links'
  BY <1>7 DEF Links, UpgradeTypeOK, PairMatches, Mixed, Undo, MayLeave, Links, On, Returns, NoBackup
<1>8. ASSUME NEW fate \in Fates, Report(fate) PROVE Links'
  BY <1>8 DEF Links, UpgradeTypeOK, PairMatches, Mixed, Report, Told, KeepsFiles, KeepsRest
<1>9. ASSUME CleanUp PROVE Links'
  BY <1>9 DEF Links, UpgradeTypeOK, PairMatches, Mixed, CleanUp, MayLeave, On, Returns, NoBackup
<1>10. ASSUME Leave PROVE Links'
  BY <1>10 DEF Links, UpgradeTypeOK, PairMatches, Mixed, Leave, On, KeepsFiles
<1>11. ASSUME StartGame PROVE Links'
  BY <1>11 DEF Links, UpgradeTypeOK, PairMatches, Mixed, StartGame, KeepsFiles
<1>12. ASSUME StopGame PROVE Links'
  BY <1>12 DEF Links, UpgradeTypeOK, PairMatches, Mixed, StopGame, KeepsFiles
<1>13. ASSUME Signal PROVE Links'
  BY <1>13 DEF Links, UpgradeTypeOK, PairMatches, Mixed, Signal, KeepsFiles
<1>14. ASSUME Kill PROVE Links'
  BY <1>14 DEF Links, UpgradeTypeOK, PairMatches, Mixed, Kill, KeepsFiles
<1>15. ASSUME Boot PROVE Links'
  BY <1>15 DEF Links, UpgradeTypeOK, PairMatches, Mixed, Boot, NoBackup
<1>16. ASSUME UNCHANGED upgradeVars PROVE Links'
  BY <1>16 DEF Links, UpgradeTypeOK, PairMatches, Mixed, upgradeVars
<1> QED
  BY <1>1, <1>2, <1>3, <1>4, <1>5, <1>6, <1>7, <1>8, <1>9, <1>10,
     <1>11, <1>12, <1>13, <1>14, <1>15, <1>16
  DEF UpgradeNext, Upgrading, Installing, Ends

LEMMA UpgradePair == UpgradeInv /\ [UpgradeNext]_upgradeVars => PairMatches'
<1> SUFFICES ASSUME UpgradeTypeOK, Links, Installed, PairMatches, [UpgradeNext]_upgradeVars
             PROVE PairMatches'
  BY DEF UpgradeInv
<1>1. ASSUME NEW shown \in BOOLEAN, Deliver(shown) PROVE PairMatches'
  BY <1>1 DEF Links, UpgradeTypeOK, PairMatches, Mixed, Deliver, On, KeepsFiles
<1>2. ASSUME NEW ok \in BOOLEAN, Stage(ok) PROVE PairMatches'
  BY <1>2 DEF Links, UpgradeTypeOK, PairMatches, Mixed, Stage, MayLeave, On, KeepsRest
<1>3. ASSUME NEW ok \in BOOLEAN, BackUpCore(ok) PROVE PairMatches'
  BY <1>3 DEF Links, UpgradeTypeOK, PairMatches, Mixed, BackUpCore, On, Returns
<1>4. ASSUME NEW ok \in BOOLEAN, BackUpServer(ok) PROVE PairMatches'
  BY <1>4 DEF Links, UpgradeTypeOK, PairMatches, Mixed, BackUpServer, On, Returns, NoBackup
<1>5. ASSUME NEW ok \in BOOLEAN, RenameCore(ok) PROVE PairMatches'
  BY <1>5 DEF Links, UpgradeTypeOK, PairMatches, Mixed, RenameCore, On, Returns, NoBackup
<1>6. ASSUME NEW ok \in BOOLEAN, RenameServer(ok) PROVE PairMatches'
  BY <1>6 DEF Links, UpgradeTypeOK, PairMatches, Mixed, RenameServer, On, KeepsRest
<1>7. ASSUME NEW ok \in BOOLEAN, Undo(ok) PROVE PairMatches'
  BY <1>7 DEF Links, UpgradeTypeOK, PairMatches, Mixed, Undo, MayLeave, Links, On, Returns, NoBackup
<1>8. ASSUME NEW fate \in Fates, Report(fate) PROVE PairMatches'
  BY <1>8 DEF Links, UpgradeTypeOK, PairMatches, Mixed, Report, Told, KeepsFiles, KeepsRest
<1>9. ASSUME CleanUp PROVE PairMatches'
  <2>1. bin["sc-core"] = "new" /\ bin["sc-server"] = "new" /\ bin' = bin
    BY <1>9 DEF CleanUp, On, Installed
  <2> QED
    BY <2>1 DEF PairMatches, Mixed
<1>10. ASSUME Leave PROVE PairMatches'
  BY <1>10 DEF Links, UpgradeTypeOK, PairMatches, Mixed, Leave, On, KeepsFiles
<1>11. ASSUME StartGame PROVE PairMatches'
  BY <1>11 DEF Links, UpgradeTypeOK, PairMatches, Mixed, StartGame, KeepsFiles
<1>12. ASSUME StopGame PROVE PairMatches'
  BY <1>12 DEF Links, UpgradeTypeOK, PairMatches, Mixed, StopGame, KeepsFiles
<1>13. ASSUME Signal PROVE PairMatches'
  BY <1>13 DEF Links, UpgradeTypeOK, PairMatches, Mixed, Signal, KeepsFiles
<1>14. ASSUME Kill PROVE PairMatches'
  BY <1>14 DEF Links, UpgradeTypeOK, PairMatches, Mixed, Kill, KeepsFiles
<1>15. ASSUME Boot PROVE PairMatches'
  BY <1>15 DEF Links, UpgradeTypeOK, PairMatches, Mixed, Boot, NoBackup
<1>16. ASSUME UNCHANGED upgradeVars PROVE PairMatches'
  BY <1>16 DEF Links, UpgradeTypeOK, PairMatches, Mixed, upgradeVars
<1> QED
  BY <1>1, <1>2, <1>3, <1>4, <1>5, <1>6, <1>7, <1>8, <1>9, <1>10,
     <1>11, <1>12, <1>13, <1>14, <1>15, <1>16
  DEF UpgradeNext, Upgrading, Installing, Ends

LEMMA UpgradeKnown == UpgradeInv /\ [UpgradeNext]_upgradeVars => RestartIsKnown'
<1> SUFFICES ASSUME Links, RestartIsKnown, [UpgradeNext]_upgradeVars PROVE RestartIsKnown'
  BY DEF UpgradeInv
<1>1. ASSUME NEW shown \in BOOLEAN, Deliver(shown) PROVE RestartIsKnown'
  BY <1>1 DEF Links, RestartIsKnown, Deliver, On, KeepsFiles
<1>2. ASSUME NEW ok \in BOOLEAN, Stage(ok) PROVE RestartIsKnown'
  BY <1>2 DEF Links, RestartIsKnown, Stage, MayLeave, On, KeepsRest
<1>3. ASSUME NEW ok \in BOOLEAN, BackUpCore(ok) PROVE RestartIsKnown'
  BY <1>3 DEF Links, RestartIsKnown, BackUpCore, On, Returns
<1>4. ASSUME NEW ok \in BOOLEAN, BackUpServer(ok) PROVE RestartIsKnown'
  BY <1>4 DEF Links, RestartIsKnown, BackUpServer, On, Returns, NoBackup
<1>5. ASSUME NEW ok \in BOOLEAN, RenameCore(ok) PROVE RestartIsKnown'
  BY <1>5 DEF Links, RestartIsKnown, RenameCore, On, Returns, NoBackup
<1>6. ASSUME NEW ok \in BOOLEAN, RenameServer(ok) PROVE RestartIsKnown'
  BY <1>6 DEF Links, RestartIsKnown, RenameServer, On, KeepsRest
<1>7. ASSUME NEW ok \in BOOLEAN, Undo(ok) PROVE RestartIsKnown'
  BY <1>7 DEF Links, RestartIsKnown, Undo, MayLeave, Links, On, Returns, NoBackup
<1>8. ASSUME NEW fate \in Fates, Report(fate) PROVE RestartIsKnown'
  BY <1>8 DEF Links, RestartIsKnown, Report, Told, KeepsFiles, KeepsRest
<1>9. ASSUME CleanUp PROVE RestartIsKnown'
  BY <1>9 DEF Links, RestartIsKnown, CleanUp, MayLeave, On, Returns, NoBackup
<1>10. ASSUME Leave PROVE RestartIsKnown'
  BY <1>10 DEF Links, RestartIsKnown, Leave, On, KeepsFiles
<1>11. ASSUME StartGame PROVE RestartIsKnown'
  BY <1>11 DEF Links, RestartIsKnown, StartGame, KeepsFiles
<1>12. ASSUME StopGame PROVE RestartIsKnown'
  BY <1>12 DEF Links, RestartIsKnown, StopGame, KeepsFiles
<1>13. ASSUME Signal PROVE RestartIsKnown'
  BY <1>13 DEF Links, RestartIsKnown, Signal, KeepsFiles
<1>14. ASSUME Kill PROVE RestartIsKnown'
  BY <1>14 DEF Links, RestartIsKnown, Kill, KeepsFiles
<1>15. ASSUME Boot PROVE RestartIsKnown'
  BY <1>15 DEF Links, RestartIsKnown, Boot, NoBackup
<1>16. ASSUME UNCHANGED upgradeVars PROVE RestartIsKnown'
  BY <1>16 DEF Links, RestartIsKnown, upgradeVars
<1> QED
  BY <1>1, <1>2, <1>3, <1>4, <1>5, <1>6, <1>7, <1>8, <1>9, <1>10,
     <1>11, <1>12, <1>13, <1>14, <1>15, <1>16
  DEF UpgradeNext, Upgrading, Installing, Ends

LEMMA UpgradeInstalled == UpgradeInv /\ [UpgradeNext]_upgradeVars => (Installed /\ ToldIsInstalled)'
<1> SUFFICES ASSUME UpgradeTypeOK, Installed, ToldIsInstalled, Links, [UpgradeNext]_upgradeVars PROVE (Installed /\ ToldIsInstalled)'
  BY DEF UpgradeInv
<1>1. ASSUME NEW shown \in BOOLEAN, Deliver(shown) PROVE (Installed /\ ToldIsInstalled)'
  BY <1>1 DEF Links, UpgradeTypeOK, Installed, ToldIsInstalled, Deliver, On, KeepsFiles
<1>2. ASSUME NEW ok \in BOOLEAN, Stage(ok) PROVE (Installed /\ ToldIsInstalled)'
  BY <1>2 DEF Links, UpgradeTypeOK, Installed, ToldIsInstalled, Stage, MayLeave, On, KeepsRest
<1>3. ASSUME NEW ok \in BOOLEAN, BackUpCore(ok) PROVE (Installed /\ ToldIsInstalled)'
  BY <1>3 DEF Links, UpgradeTypeOK, Installed, ToldIsInstalled, BackUpCore, On, Returns
<1>4. ASSUME NEW ok \in BOOLEAN, BackUpServer(ok) PROVE (Installed /\ ToldIsInstalled)'
  BY <1>4 DEF Links, UpgradeTypeOK, Installed, ToldIsInstalled, BackUpServer, On, Returns, NoBackup
<1>5. ASSUME NEW ok \in BOOLEAN, RenameCore(ok) PROVE (Installed /\ ToldIsInstalled)'
  BY <1>5 DEF Links, UpgradeTypeOK, Installed, ToldIsInstalled, RenameCore, On, Returns, NoBackup
<1>6. ASSUME NEW ok \in BOOLEAN, RenameServer(ok) PROVE (Installed /\ ToldIsInstalled)'
  BY <1>6 DEF Links, UpgradeTypeOK, Installed, ToldIsInstalled, RenameServer, On, KeepsRest
<1>7. ASSUME NEW ok \in BOOLEAN, Undo(ok) PROVE (Installed /\ ToldIsInstalled)'
  BY <1>7 DEF Links, UpgradeTypeOK, Installed, ToldIsInstalled, Undo, MayLeave, Links, On, Returns, NoBackup
<1>8. ASSUME NEW fate \in Fates, Report(fate) PROVE (Installed /\ ToldIsInstalled)'
  BY <1>8 DEF Links, UpgradeTypeOK, Installed, ToldIsInstalled, Report, Told, KeepsFiles, KeepsRest
<1>9. ASSUME CleanUp PROVE (Installed /\ ToldIsInstalled)'
  BY <1>9 DEF Links, UpgradeTypeOK, Installed, ToldIsInstalled, CleanUp, MayLeave, On, Returns, NoBackup
<1>10. ASSUME Leave PROVE (Installed /\ ToldIsInstalled)'
  BY <1>10 DEF Links, UpgradeTypeOK, Installed, ToldIsInstalled, Leave, On, KeepsFiles
<1>11. ASSUME StartGame PROVE (Installed /\ ToldIsInstalled)'
  BY <1>11 DEF Links, UpgradeTypeOK, Installed, ToldIsInstalled, StartGame, KeepsFiles
<1>12. ASSUME StopGame PROVE (Installed /\ ToldIsInstalled)'
  BY <1>12 DEF Links, UpgradeTypeOK, Installed, ToldIsInstalled, StopGame, KeepsFiles
<1>13. ASSUME Signal PROVE (Installed /\ ToldIsInstalled)'
  BY <1>13 DEF Links, UpgradeTypeOK, Installed, ToldIsInstalled, Signal, KeepsFiles
<1>14. ASSUME Kill PROVE (Installed /\ ToldIsInstalled)'
  BY <1>14 DEF Links, UpgradeTypeOK, Installed, ToldIsInstalled, Kill, KeepsFiles
<1>15. ASSUME Boot PROVE (Installed /\ ToldIsInstalled)'
  BY <1>15 DEF Links, UpgradeTypeOK, Installed, ToldIsInstalled, Boot, NoBackup
<1>16. ASSUME UNCHANGED upgradeVars PROVE (Installed /\ ToldIsInstalled)'
  BY <1>16 DEF Links, UpgradeTypeOK, Installed, ToldIsInstalled, upgradeVars
<1> QED
  BY <1>1, <1>2, <1>3, <1>4, <1>5, <1>6, <1>7, <1>8, <1>9, <1>10,
     <1>11, <1>12, <1>13, <1>14, <1>15, <1>16
  DEF UpgradeNext, Upgrading, Installing, Ends

LEMMA UpgradeKeeps == UpgradeInv /\ [UpgradeNext]_upgradeVars => UpgradeInv'
<1> QED
  BY UpgradeTypes, UpgradeLinks, UpgradePair, UpgradeKnown, UpgradeInstalled DEF UpgradeInv

LEMMA UpgradeAlways == UpgradeSpec => []UpgradeInv
<1> QED
  BY UpgradeStart, UpgradeKeeps, PTL DEF UpgradeSpec

\* Every reachable state of the installation and of the process around it is well typed.
THEOREM UpgradeTypeCorrect == UpgradeSpec => []UpgradeTypeOK
<1>1. UpgradeInv => UpgradeTypeOK
  BY DEF UpgradeInv
<1> QED
  BY <1>1, UpgradeAlways, PTL

\* The binaries are of one release outside the two renames, whatever fails: a mixture
\* leaves the files behind that tell of a kill or of a failed rollback.
THEOREM PairAlwaysMatches == UpgradeSpec => []PairMatches
<1>1. UpgradeInv => PairMatches
  BY DEF UpgradeInv
<1> QED
  BY <1>1, UpgradeAlways, PTL

\* The process leaves for a new version only with the gateway's acknowledgement, and what
\* the gateway takes for done is installed, also when the host never hears of it.
THEOREM RestartAcknowledged == UpgradeSpec => [](RestartIsKnown /\ ToldIsInstalled)
<1>1. UpgradeInv => RestartIsKnown /\ ToldIsInstalled
  BY DEF UpgradeInv
<1> QED
  BY <1>1, UpgradeAlways, PTL

HIDE DEF Bins, Jobs, Guarded

-----------------------------------------------------------------------------
(* The daemon.                                                             *)

-----------------------------------------------------------------------------
(* Every step of the daemon is a step of each part, or none of it.         *)

LEMMA PoolPart == PoolInv /\ [DaemonNext]_allVars => [PoolNext]_poolVars \/ PoolInit'
<1> SUFFICES ASSUME PoolInv, [DaemonNext]_allVars PROVE [PoolNext]_poolVars \/ PoolInit'
  OBVIOUS
<1>1. CASE StartOrFail
  BY <1>1 DEF StartOrFail, PoolNext, Acquire
<1>2. CASE StartDirect \/ LanGame
  BY <1>2 DEF StartDirect, LanGame
<1>3. CASE WaitForStack
  BY <1>3 DEF WaitForStack, PoolNext, Acquire
<1>4. CASE Refill
  BY <1>4 DEF Refill, PoolNext
<1>5. CASE Saving \/ Command
  BY <1>5 DEF Saving, Command
<1>6. CASE UpgradeStep \/ Die
  <2>1. ASSUME PoolOf(0) PROVE PoolInit'
    BY <2>1, PoolAssumption DEF PoolOf, PoolInit, PoolInv, PoolTypeOK
  <2> QED
    BY <1>6, <2>1 DEF UpgradeStep, Die, EndsWithProcess
<1>7. CASE Restart
  <2>1. PICK n \in 0 .. PoolSize : (~Buildable(ice) => n = 0) /\ PoolOf(n)
    BY <1>7 DEF Restart
  <2> QED
    BY <2>1 DEF PoolOf, PoolInit, PoolInv, PoolTypeOK
<1>8. CASE UNCHANGED allVars
  BY <1>8 DEF allVars
<1> QED
  BY <1>1, <1>2, <1>3, <1>4, <1>5, <1>6, <1>7, <1>8 DEF DaemonNext

LEMMA SavePart == [DaemonNext]_allVars => [SaveNext \/ SaveCrash]_saveVars
<1> SUFFICES ASSUME [DaemonNext]_allVars PROVE [SaveNext \/ SaveCrash]_saveVars
  OBVIOUS
<1>1. CASE StartOrFail \/ StartDirect \/ LanGame \/ WaitForStack \/ Refill \/ Command \/ Restart
  BY <1>1 DEF StartOrFail, StartDirect, LanGame, WaitForStack, Refill, Command, Restart
<1>2. CASE Saving
  BY <1>2 DEF Saving, SaveNext
<1>3. CASE UpgradeStep \/ Die
  BY <1>3 DEF UpgradeStep, Die, EndsWithProcess
<1>4. CASE UNCHANGED allVars
  BY <1>4 DEF allVars
<1> QED
  BY <1>1, <1>2, <1>3, <1>4 DEF DaemonNext

LEMMA UpgradePart == [DaemonNext]_allVars => [UpgradeNext]_upgradeVars
<1> SUFFICES ASSUME [DaemonNext]_allVars PROVE [UpgradeNext]_upgradeVars
  OBVIOUS
<1>1. CASE StartOrFail \/ StartDirect \/ LanGame \/ WaitForStack \/ Refill \/ Saving
  BY <1>1 DEF StartOrFail, StartDirect, LanGame, WaitForStack, Refill, Saving, UpgradeNext
<1>2. CASE Command
  BY <1>2 DEF Command, UpgradeNext
<1>3. CASE UpgradeStep
  BY <1>3 DEF UpgradeStep, UpgradeNext
<1>4. CASE Die \/ Restart
  BY <1>4 DEF Die, Restart, UpgradeNext, Ends
<1>5. CASE UNCHANGED allVars
  BY <1>5 DEF allVars
<1> QED
  BY <1>1, <1>2, <1>3, <1>4, <1>5 DEF DaemonNext

-----------------------------------------------------------------------------
(* Theorems.                                                               *)

\* Games that start or fail, updates, kills and restarts leave the pool sound.
THEOREM DaemonPoolSound == DaemonSpec => []PoolSound
<1>1. DaemonInit => PoolInv
  BY PoolStart DEF DaemonInit
<1>2. PoolInv /\ [DaemonNext]_allVars => PoolInv'
  <2>1. PoolInit' => PoolInv'
    BY PoolStart, PTL
  <2> QED
    BY <2>1, PoolPart, PoolStep
<1> QED
  BY <1>1, <1>2, PoolKeeps, PTL DEF DaemonSpec

\* A save that was acknowledged survives every update and every end of the process.
THEOREM DaemonSavesKept == ASSUME Alone PROVE DaemonSpec => []SavesKept
<1>1. DaemonInit => SaveInv
  BY SaveStart DEF DaemonInit
<1>2. SaveInv /\ [DaemonNext]_allVars => SaveInv'
  BY SavePart, SaveStep
<1> QED
  BY <1>1, <1>2, SaveKeeps, PTL DEF DaemonSpec

\* Also the parts together keep to the order of an upgrade and to their types.
LEMMA DaemonUpgradeInv == DaemonSpec => []UpgradeInv
<1>1. DaemonInit => UpgradeInv
  BY UpgradeStart DEF DaemonInit
<1>2. UpgradeInv /\ [DaemonNext]_allVars => UpgradeInv'
  BY UpgradePart, UpgradeKeeps
<1> QED
  BY <1>1, <1>2, PTL DEF DaemonSpec

\* The stages of an upgrade the gateway has not been told the result of.
Busy == Jobs \ {"idle", "failed", "leaving"}

LEMMA BusyJobs ==
  /\ {"staging", "core backup", "server backup", "core", "server", "undo", "cleanup"} \subseteq Busy
  /\ "failed" \notin Busy /\ "idle" \notin Busy /\ "leaving" \notin Busy
BY DEF Busy, Jobs

\* Steps of an installation start no game and go on from an upgrade that is under way.
LEMMA InstallStep ==
  ASSUME Upgrading \/ Ends
  PROVE  playing' = playing /\ (job' \in Busy => job \in Busy /\ proc' = proc)
<1> DEFINE Goal == playing' = playing /\ (job' \in Busy => job \in Busy /\ proc' = proc)
<1> USE BusyJobs DEF On, KeepsRest, KeepsFiles, Returns
<1>1. ASSUME NEW ok \in BOOLEAN, Stage(ok) PROVE Goal
  BY <1>1 DEF Stage
<1>2. ASSUME NEW ok \in BOOLEAN, BackUpCore(ok) \/ BackUpServer(ok) PROVE Goal
  BY <1>2 DEF BackUpCore, BackUpServer
<1>3. ASSUME NEW ok \in BOOLEAN, RenameCore(ok) PROVE Goal
  BY <1>3 DEF RenameCore
<1>4. ASSUME NEW ok \in BOOLEAN, RenameServer(ok) \/ Undo(ok) PROVE Goal
  BY <1>4 DEF RenameServer, Undo
<1>5. ASSUME NEW fate \in Fates, Report(fate) PROVE Goal
  BY <1>5 DEF Report
<1>6. ASSUME CleanUp PROVE Goal
  BY <1>6 DEF CleanUp
<1>7. ASSUME Leave \/ Signal \/ Kill PROVE Goal
  BY <1>7 DEF Leave, Signal, Kill
<1> HIDE DEF Goal
<1>8. Goal
  BY <1>1, <1>2, <1>3, <1>4, <1>5, <1>6, <1>7 DEF Upgrading, Installing, Ends
<1> QED
  BY <1>8 DEF Goal

\* The loop takes an upgrade only when no launch waits, and starts no launch during one.
AloneInv == /\ job \in Busy => proc = "on" /\ ~playing /\ ~Acquiring
            /\ proc # "on" => job = "idle"

LEMMA AloneStep == UpgradeInv /\ AloneInv /\ [DaemonNext]_allVars => AloneInv'
<1> SUFFICES ASSUME UpgradeInv, AloneInv, [DaemonNext]_allVars PROVE AloneInv'
  OBVIOUS
<1>0. (proc # "on" => job = "idle")'
  BY UpgradePart, UpgradeKeeps DEF UpgradeInv, Links
<1> USE BusyJobs DEF AloneInv
<1>1. CASE StartOrFail \/ StartDirect \/ WaitForStack
  <2>1. job' = job /\ job \notin Busy
    BY <1>1 DEF StartOrFail, StartDirect, WaitForStack, Looping, StartGame, upgradeVars
  <2> QED
    BY <1>0, <2>1
<1>2. CASE Refill
  <2>1. Acquiring' => Acquiring
    BY <1>2 DEF Refill, Replenish, StartBuild, BuildDone, Wake, BuildFails, Acquiring
  <2>2. UNCHANGED <<job, proc, playing>>
    BY <1>2 DEF Refill, upgradeVars
  <2> QED
    BY <1>0, <2>1, <2>2
<1>3. CASE Saving \/ LanGame
  <2>1. UNCHANGED <<want, job, proc, playing>>
    BY <1>3 DEF Saving, LanGame, poolVars, upgradeVars
  <2> QED
    BY <1>0, <2>1 DEF Acquiring
<1>4. CASE Command
  <2>1. UNCHANGED want /\ ~Acquiring
    BY <1>4 DEF Command, poolVars
  <2>2. ASSUME NEW shown \in BOOLEAN, Deliver(shown)
        PROVE  proc' = proc /\ proc = "on" /\ playing' = playing /\ (job' \in Busy => ~playing)
    BY <2>2 DEF Deliver, On
  <2>3. ASSUME StopGame PROVE job' = job /\ job \notin Busy
    BY <2>3 DEF StopGame
  <2> QED
    BY <1>0, <1>4, <2>1, <2>2, <2>3 DEF Command, Acquiring
<1>5. CASE UpgradeStep \/ Die
  <2>1. want' = want \/ want' = "none"
    BY <1>5 DEF UpgradeStep, Die, EndsWithProcess, PoolOf, poolVars
  <2>2. playing' = playing /\ (job' \in Busy => job \in Busy /\ proc' = proc)
    BY <1>5, InstallStep DEF UpgradeStep, Die
  <2> QED
    BY <1>0, <2>1, <2>2 DEF Acquiring
<1>6. CASE Restart
  <2>1. job' = job /\ proc # "on"
    BY <1>6 DEF Restart, Boot
  <2> QED
    BY <1>0, <2>1
<1>7. CASE UNCHANGED allVars
  BY <1>7 DEF allVars, poolVars, upgradeVars, Acquiring
<1> QED
  BY <1>1, <1>2, <1>3, <1>4, <1>5, <1>6, <1>7 DEF DaemonNext

\* No game, save or launch that runs beside an update mixes the two binaries, and no game of
\* the command loop is played, and none of its launches waits for a connection, while they
\* are replaced.  The LAN player's games are not covered: the update does not look at them.
THEOREM DaemonUpdateHolds == DaemonSpec => []UpdateHolds
<1>1. DaemonInit => AloneInv
  BY BusyJobs DEF DaemonInit, UpgradeInit, AloneInv
<1>2. UpgradeInv /\ AloneInv => UpdateHolds
  BY DEF UpgradeInv, AloneInv, Busy, InstallIsAlone, UpdateHolds
<1> QED
  BY <1>1, <1>2, AloneStep, DaemonUpgradeInv, PTL DEF DaemonSpec

\* With games, saves and launches beside it, the process leaves for a new version only
\* when the gateway has taken the result, and a result the gateway took is installed.
THEOREM DaemonRestartAcknowledged == DaemonSpec => [](RestartIsKnown /\ ToldIsInstalled)
<1>1. UpgradeInv => RestartIsKnown /\ ToldIsInstalled
  BY DEF UpgradeInv
<1> QED
  BY <1>1, DaemonUpgradeInv, PTL
=============================================================================
