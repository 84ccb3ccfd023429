------------------------------- MODULE PcPool -------------------------------
(***************************************************************************)
(* The stock of prepared peer connections (PcPool).  Only the serial       *)
(* command loop takes stacks; every stack it takes spawns one task that    *)
(* builds another.  The ICE configuration, read once per process, decides  *)
(* what a build yields, and whether it can succeed at all.  Stacks are     *)
(* alike, so the queue is their number.                                    *)
(***************************************************************************)
EXTENDS Naturals

CONSTANTS
  PoolSize,     \* GV_PC_POOL_SIZE
  IceConfigs    \* environments: which of the GV_ICE_ variables are set

IceSettings == [stun : BOOLEAN, turn : BOOLEAN, creds : BOOLEAN,
                policy : {"all", "relay"}]

ASSUME PoolAssumption == PoolSize \in Nat \ {0} /\ IceConfigs \subseteq IceSettings

VARIABLES
  ice,        \* runtime_ice_config(), a process-wide constant
  queue,      \* how many stacks wait
  permit,     \* the wake-up that Notify keeps while nobody waits
  spawned,    \* replenish tasks that have not looked at the queue yet
  building,   \* those in build_session_pc
  lost,       \* builds that failed: nobody starts another
  want        \* the command loop's acquire, and how the last one ended

poolVars == <<ice, queue, permit, spawned, building, lost, want>>

Ended == {"none", "served", "timeout", "bug"}

-----------------------------------------------------------------------------
(* The ICE configuration and what is built from it.                        *)

\* RuntimeIceConfig::load, what the startup log and `verify` show.
Status(c) ==
  IF c.turn THEN IF c.creds THEN "turn_ready" ELSE "turn_partial_invalid"
  ELSE IF c.stun THEN "stun_only" ELSE "default_fallback"

\* effective_stun_urls: the public STUN server stands in only when nothing is
\* configured.
Stun(c) == IF c.stun \/ ~c.turn THEN {"stun"} ELSE {}

\* ice_config: TURN is passed on with or without credentials.
Servers(c) ==
  Stun(c)
  \cup (IF c.turn THEN {IF c.creds THEN "turn" ELSE "turn without credentials"} ELSE {})

\* build_webrtc_stack takes every configured server.
StackServers(c) == Servers(c)

\* RTCPeerConnection refuses a TURN server without credentials.
Buildable(c) == "turn without credentials" \notin StackServers(c)

-----------------------------------------------------------------------------
\* PcPool::new: all builds are awaited, failed ones are only logged.
PoolInit ==
  /\ ice \in IceConfigs
  /\ queue \in 0 .. PoolSize /\ (~Buildable(ice) => queue = 0)
  /\ lost = PoolSize - queue
  /\ permit = FALSE /\ spawned = 0 /\ building = 0 /\ want = "none"

\* Mutant of Taken: the stack is popped without a task to replace it.
TakenQuietly == queue' = queue - 1 /\ UNCHANGED spawned

\* pop_front and replenish_background.
Taken == queue' = queue - 1 /\ spawned' = spawned + 1

AcquireFast ==
  /\ want \in Ended /\ queue > 0
  /\ Taken /\ want' = "served"
  /\ UNCHANGED <<ice, permit, building, lost>>

\* The lock is released before notified() exists.
AcquireDry ==
  /\ want \in Ended /\ queue = 0
  /\ want' = "dry"
  /\ UNCHANGED <<ice, queue, permit, spawned, building, lost>>

\* The first poll of notified() takes a stored permit or starts to wait.
Listen ==
  /\ want = "dry"
  /\ want' = IF permit THEN "woken" ELSE "wait"
  /\ permit' = FALSE
  /\ UNCHANGED <<ice, queue, spawned, building, lost>>

AcquireWoken ==
  /\ want \in {"notified", "woken"}
  /\ IF queue > 0 THEN Taken /\ want' = "served"
                  ELSE want' = "bug" /\ UNCHANGED <<queue, spawned>>
  /\ UNCHANGED <<ice, permit, building, lost>>

\* The 10 s of the select, which chooses at random when the wake-up came as well; the
\* notified() it drops then gives the wake-up back.
AcquireTimeout ==
  /\ want \in {"wait", "notified"} /\ want' = "timeout"
  /\ permit' = (permit \/ want = "notified")
  /\ UNCHANGED <<ice, queue, spawned, building, lost>>

\* The task looks at the queue once, before it builds.
StartBuild ==
  /\ spawned > 0 /\ spawned' = spawned - 1
  /\ building' = IF queue >= PoolSize THEN building ELSE building + 1
  /\ UNCHANGED <<ice, queue, permit, lost, want>>

\* Mutant of Wake: notify_waiters, which leaves nothing for a later waiter.
WakeOnly ==
  /\ want' = IF want = "wait" THEN "notified" ELSE want
  /\ UNCHANGED permit

\* notify_one: the waiter wakes, or the permit is kept.
Wake ==
  /\ want' = IF want = "wait" THEN "notified" ELSE want
  /\ permit' = (permit \/ want # "wait")

BuildDone ==
  /\ building > 0 /\ Buildable(ice)
  /\ building' = building - 1 /\ queue' = queue + 1
  /\ Wake
  /\ UNCHANGED <<ice, spawned, lost>>

BuildFails ==
  /\ building > 0
  /\ building' = building - 1 /\ lost' = lost + 1
  /\ UNCHANGED <<ice, queue, permit, spawned, want>>

Acquire == AcquireFast \/ AcquireDry \/ Listen \/ AcquireWoken \/ AcquireTimeout
Replenish == StartBuild \/ BuildDone \/ BuildFails
PoolNext == Acquire \/ Replenish

\* Spawned tasks run and builds end; the loop need not ask for another stack.
PoolFairness ==
  /\ WF_poolVars(Replenish)
  /\ WF_poolVars(Listen \/ AcquireWoken \/ AcquireTimeout)

PoolSpec == PoolInit /\ [][PoolNext]_poolVars /\ PoolFairness

-----------------------------------------------------------------------------
(* Properties.                                                             *)

PoolTypeOK ==
  /\ ice \in IceConfigs
  /\ queue \in Nat /\ spawned \in Nat /\ building \in Nat /\ lost \in Nat
  /\ permit \in BOOLEAN
  /\ want \in Ended \cup {"dry", "wait", "notified", "woken"}

\* The stock is conserved: a stack is in the queue, on its way, or its build
\* failed.  The pool never holds more than it was made for, and only failed
\* builds make it smaller (for the rest of the process: nobody counts them).
StockConserved == queue + spawned + building + lost = PoolSize

\* No wake-up is lost between the look at the empty queue and the wait: nobody
\* waits beside a stack, and who is about to wait will not.
NoLostWakeup ==
  /\ want = "wait" => queue = 0
  /\ want = "dry" /\ queue > 0 => permit

\* A configuration that the startup log reports as invalid yields no stack at all: no
\* launch is served a connection without the relay it was configured to use.
InvalidServesNothing == Status(ice) = "turn_partial_invalid" => queue = 0 /\ want # "served"

\* The pool accounts for its stacks, wakes who waits, and serves nothing that the
\* startup log reports as invalid.
PoolSound == StockConserved /\ NoLostWakeup /\ InvalidServesNothing
=============================================================================
