----------------------------- MODULE SaveStack ------------------------------
(***************************************************************************)
(* The save states of one account for one ROM: a directory with            *)
(* stack.json and one file per entry, written by save_stack_push through   *)
(* write_atomic (truncate and fill a temporary file, sync, rename) and     *)
(* read by save_stack_load_latest.  A save is a number, in the order the   *)
(* core produced it.  Nothing locks the directory.                         *)
(***************************************************************************)
EXTENDS Integers

CONSTANTS
  Players,    \* sessions that save into this directory; the saves of one are serialized
  MaxSaves,   \* bound: saves asked for
  Alone       \* TRUE: a push ends before the next one starts

ASSUME SaveAssumption == MaxSaves \in Nat \ {0} /\ Alone \in BOOLEAN

Saves   == 1 .. MaxSaves
Indices == 1 .. MaxSaves
NoFile == 0
Torn   == -1        \* truncated, or filled in part

\* SaveStack::new; have is the set of indices in entries, whose order is theirs.
EmptyStack == [next |-> 1, have |-> {}]
Stacks == [next : 1 .. MaxSaves + 1, have : SUBSET Indices]
NoStack   == [next |-> 0, have |-> {}]
TornStack == [next |-> -1, have |-> {}]

VARIABLES
  stack,      \* stack.json
  tmpStack,   \* stack.tmp
  state,      \* state-NNNN.state
  tmpState,   \* state-NNNN.tmp
  push,       \* per player: the step of save_stack_push, the save, the stack read
  load,       \* the load in progress: the index it read, and what it found
  made,       \* saves asked for so far
  acked       \* save_result ok: pairs of index and save

saveVars == <<stack, tmpStack, state, tmpState, push, load, made, acked>>

Steps == {"idle", "asked", "read", "state cut", "state full", "state in place",
          "stack cut", "stack full", "done"}
Idle == [step |-> "idle", save |-> 0, mem |-> NoStack]

SaveInit ==
  /\ stack = NoStack /\ tmpStack = NoStack
  /\ state = [i \in Indices |-> NoFile] /\ tmpState = [i \in Indices |-> NoFile]
  /\ push = [p \in Players |-> Idle]
  /\ load = [index |-> 0, found |-> NoFile]
  /\ made = 0 /\ acked = {}

Writing == {p \in Players : push[p].step # "idle"}

At(p, from) == push[p].step = from
Go(p, to)   == push' = [push EXCEPT ![p].step = to]

\* The entry the push adds: SaveStack::push took next_index.
Index(p) == push[p].mem.next - 1

-----------------------------------------------------------------------------
\* The core's snapshot arrived: spawn_blocking(save_stack_push).
SaveState(p) ==
  /\ At(p, "idle") /\ made < MaxSaves
  /\ Alone => Writing = {}
  /\ made' = made + 1
  /\ push' = [push EXCEPT ![p] = [step |-> "asked", save |-> made + 1, mem |-> NoStack]]
  /\ UNCHANGED <<stack, tmpStack, state, tmpState, load, acked>>

\* SaveStack::push on the stack that was read.
Pushed(s) == [next |-> s.next + 1, have |-> s.have \cup {s.next}]

\* read_stack: a missing file is an empty stack, a torn one is an error for good.
ReadStack(p) ==
  /\ At(p, "asked")
  /\ LET read == IF stack = NoStack THEN EmptyStack ELSE stack
     IN  push' = [push EXCEPT ![p] =
                    IF read = TornStack THEN Idle
                    ELSE [@ EXCEPT !.step = "read", !.mem = Pushed(read)]]
  /\ UNCHANGED <<stack, tmpStack, state, tmpState, load, made, acked>>

CutState(p) ==
  /\ At(p, "read") /\ Go(p, "state cut")
  /\ tmpState' = [tmpState EXCEPT ![Index(p)] = Torn]
  /\ UNCHANGED <<stack, tmpStack, state, load, made, acked>>

\* Whose push, beside that of p, fills a temporary file.
Beside(p, cut, full) == {q \in Players \ {p} : push[q].step \in {cut, full}}

\* Two writers of one temporary file leave a mixture of both.
FillState(p) ==
  /\ At(p, "state cut") /\ Go(p, "state full")
  /\ \E data \in {push[p].save}
       \cup {Torn : q \in {r \in Beside(p, "state cut", "state full") : Index(r) = Index(p)}} :
       tmpState' = [tmpState EXCEPT ![Index(p)] = data]
  /\ UNCHANGED <<stack, tmpStack, state, load, made, acked>>

\* Mutant of RenameState: the entry is written in place, before it is full.
RenameStateEarly(p) ==
  /\ At(p, "state cut") /\ Go(p, "state in place")
  /\ state' = [state EXCEPT ![Index(p)] = tmpState[Index(p)]]
  /\ tmpState' = [tmpState EXCEPT ![Index(p)] = NoFile]
  /\ UNCHANGED <<stack, tmpStack, load, made, acked>>

\* rename replaces an entry a push left behind that never reached stack.json.
RenameState(p) ==
  /\ At(p, "state full")
  /\ IF tmpState[Index(p)] = NoFile
     THEN push' = [push EXCEPT ![p] = Idle] /\ UNCHANGED <<state, tmpState>>
     ELSE /\ Go(p, "state in place")
          /\ state' = [state EXCEPT ![Index(p)] = tmpState[Index(p)]]
          /\ tmpState' = [tmpState EXCEPT ![Index(p)] = NoFile]
  /\ UNCHANGED <<stack, tmpStack, load, made, acked>>

CutStack(p) ==
  /\ At(p, "state in place") /\ Go(p, "stack cut")
  /\ tmpStack' = TornStack
  /\ UNCHANGED <<stack, state, tmpState, load, made, acked>>

FillStack(p) ==
  /\ At(p, "stack cut") /\ Go(p, "stack full")
  /\ tmpStack' \in {push[p].mem}
       \cup {TornStack : q \in Beside(p, "stack cut", "stack full")}
  /\ UNCHANGED <<stack, state, tmpState, load, made, acked>>

RenameStack(p) ==
  /\ At(p, "stack full")
  /\ IF tmpStack = NoStack
     THEN push' = [push EXCEPT ![p] = Idle] /\ UNCHANGED <<stack, tmpStack>>
     ELSE Go(p, "done") /\ stack' = tmpStack /\ tmpStack' = NoStack
  /\ UNCHANGED <<state, tmpState, load, made, acked>>

\* save_result with the new index.
Acknowledge(p) ==
  /\ At(p, "done")
  /\ acked' = acked \cup {<<Index(p), push[p].save>>}
  /\ push' = [push EXCEPT ![p] = Idle]
  /\ UNCHANGED <<stack, tmpStack, state, tmpState, load, made>>

\* An I/O error: "disk write failed"; what was written stays.
PushFails(p) ==
  /\ push[p].step \in Steps \ {"idle", "done"}
  /\ push' = [push EXCEPT ![p] = Idle]
  /\ UNCHANGED <<stack, tmpStack, state, tmpState, load, made, acked>>

-----------------------------------------------------------------------------
(* load_state, without an index or with one.                               *)

Top(s) == CHOOSE i \in s.have : \A j \in s.have : j <= i

LoadLatest ==
  /\ load.index = 0 /\ stack.have # {}
  /\ load' = [index |-> Top(stack), found |-> NoFile]
  /\ UNCHANGED <<stack, tmpStack, state, tmpState, push, made, acked>>

\* The player names an entry of the list that handle_list_saves sent.
LoadListed ==
  /\ load.index = 0
  /\ \E i \in stack.have : load' = [index |-> i, found |-> NoFile]
  /\ UNCHANGED <<stack, tmpStack, state, tmpState, push, made, acked>>

\* LoadState is sent to the core with these bytes.
LoadRead ==
  /\ load.index # 0 /\ load.found = NoFile
  /\ load' = [load EXCEPT !.found = state[load.index]]
  /\ UNCHANGED <<stack, tmpStack, state, tmpState, push, made, acked>>

LoadEnds ==
  /\ load.found # NoFile
  /\ load' = [index |-> 0, found |-> NoFile]
  /\ UNCHANGED <<stack, tmpStack, state, tmpState, push, made, acked>>

-----------------------------------------------------------------------------
PushStep(p) ==
  \/ SaveState(p) \/ ReadStack(p)
  \/ CutState(p) \/ FillState(p) \/ RenameState(p)
  \/ CutStack(p) \/ FillStack(p) \/ RenameStack(p)
  \/ Acknowledge(p) \/ PushFails(p)

SaveNext ==
  (\E p \in Players : PushStep(p)) \/ LoadLatest \/ LoadListed \/ LoadRead \/ LoadEnds

\* The process ends anywhere in a push; the disk keeps what was written.
SaveCrash ==
  /\ push' = [p \in Players |-> Idle]
  /\ load' = [index |-> 0, found |-> NoFile]
  /\ UNCHANGED <<stack, tmpStack, state, tmpState, made, acked>>

SaveSpec == SaveInit /\ [][SaveNext \/ SaveCrash]_saveVars

-----------------------------------------------------------------------------
(* Properties.                                                             *)

SaveTypeOK ==
  /\ stack \in Stacks \cup {NoStack, TornStack}
  /\ tmpStack \in Stacks \cup {NoStack, TornStack}
  /\ state \in [Indices -> Saves \cup {NoFile, Torn}]
  /\ tmpState \in [Indices -> Saves \cup {NoFile, Torn}]
  /\ push \in [Players -> [step : Steps, save : 0 .. MaxSaves,
                           mem : Stacks \cup {NoStack}]]
  /\ load \in [index : {0} \cup Indices, found : Saves \cup {NoFile, Torn}]
  /\ made \in 0 .. MaxSaves
  /\ acked \in SUBSET (Indices \X Saves)

\* A save the player was told of is never lost, overwritten or moved to another
\* index: whatever fails or dies later, stack.json lists it and its file holds it.
AcknowledgedStays ==
  \A a \in acked : a[1] \in stack.have /\ state[a[1]] = a[2]

\* Every entry of stack.json can be loaded, at every instant, the one of a push
\* that died before its acknowledgement included.
EntriesAreWhole ==
  /\ stack # TornStack
  /\ \A i \in stack.have : state[i] \in Saves

\* A load that looked the index up before a push and reads the file after it
\* gets a save, never a file that is missing or half written.
LoadsAreWhole == load.index # 0 => state[load.index] \in Saves

\* What was saved is kept, and can be loaded.
SavesKept == AcknowledgedStays /\ EntriesAreWhole /\ LoadsAreWhole
=============================================================================
