------------------------ MODULE CommandQueue_proofs ------------------------
(***************************************************************************)
(* Theorems about CommandQueue: for every number of users, games, rows,    *)
(* sessions, boots and attempts the gateway's tables keep their types, a   *)
(* settled command and a finished session stay what they are, a lease      *)
(* means something to both sides, and the sessions of a user and of an     *)
(* always-on game exclude each other.                                      *)
(*                                                                         *)
(* None of it is inductive alone.  QueueInv adds how the two tables refer  *)
(* to each other (a session names the row that started it, the row names   *)
(* the session, and nothing refers to rows not inserted yet) and that a    *)
(* lease on an active session belongs to the recorded boot.  Evolves is    *)
(* what any step may do to rows and sessions that exist.                   *)
(***************************************************************************)
EXTENDS CommandQueue, FiniteSetTheorems, TLAPS

\* What a step may make of a row, and of a session.
RowEvolves(o, n) ==
  /\ n.resident = o.resident
  /\ o.status # "none" => n.status # "none" /\ n.game = o.game /\ n.attempts >= o.attempts
  /\ o.status \notin {"none", "preparing"} =>
       n.status # "preparing" /\ n.type = o.type /\ n.sid = o.sid
  /\ o.status \in Terminal => n = o

SessEvolves(o, n) ==
  /\ n.user = o.user /\ n.game = o.game /\ n.cmd = o.cmd
  /\ o.status = "none" <=> n.status = "none"
  /\ n.status \in Active => o.status \in Active
  /\ o.status \in Over => n = o
  /\ StageOf(n.status) >= StageOf(o.status)

Evolves ==
  /\ nc =< nc' /\ ns =< ns'
  /\ \A c \in CmdIds : c =< nc => RowEvolves(cmds[c], cmds'[c])
  /\ \A s \in SessIds : s =< ns => SessEvolves(sess[s], sess'[s])

\* Rows and sessions that were not inserted yet do not exist.
RowsBelow == \A c \in CmdIds : cmds[c].status # "none" => c =< nc
SessBelow == \A s \in SessIds : sess[s].status # "none" => s =< ns

\* The sessions that were created.
Started == {s \in SessIds : sess[s].status # "none"}

\* What a row says of its session: those in S exist, as ss has them, and the host runs boot b.
RowShape(row, S) ==
  /\ row.sid \in {0} \cup S
  /\ row.type \in Lifecycle /\ row.status # "preparing" => row.sid # 0
  /\ row.status = "none" => row.type = "task"
  /\ row.status = "preparing" => row.type = "start_game" /\ ~row.resident
  /\ row.resident => row.type = "start_game"

RowSound(row, ss, b) ==
  /\ row.sid # 0 => row.game = ss[row.sid].game
  /\ row.status = "completed" => row.by = row.attempts
  /\ row.status = "cancelled" /\ row.sid # 0 => ss[row.sid].status \in Over
  /\ row.status = "leased" /\ row.type \in Lifecycle =>
       /\ ss[row.sid].status \in Active => row.to = b
       /\ ~row.expired => ss[row.sid].status # "timed_out"

RowsOK == \A c \in CmdIds : RowShape(cmds[c], Started) /\ RowSound(cmds[c], sess, boot)

ReqsOK == \A r \in reqs : r.sid \in Started

\* A session names the start command that made it, and that one names the session.
NamesStart(s) ==
  /\ sess[s].cmd \in 1 .. nc
  /\ LET row == cmds[sess[s].cmd]
     IN  row.type = "start_game" /\ row.sid = s /\ row.status # "preparing"

SessionsNameStarts == \A s \in SessIds : sess[s].status # "none" => NamesStart(s)

\* Two active sessions that may be side by side.
Resident(s) == cmds[sess[s].cmd].resident

Excludes(r, s) ==
  /\ sess[r].user = sess[s].user => Resident(r) \/ Resident(s)
  /\ sess[r].game = sess[s].game => ~Resident(r) \/ ~Resident(s)

Tables == TypeOK /\ RowsBelow /\ SessBelow /\ RowsOK /\ ReqsOK /\ IsFiniteSet(always)
Singles == SessionsNameStarts /\ OneLaunchPerUser /\ OneResidentPerGame
QueueInv == Tables /\ Singles

-----------------------------------------------------------------------------
(* Rows and sessions, one at a time                                        *)

\* A row as it is inserted.
IsRow(row, type, status, sid, game) ==
  /\ row \in Command /\ row.type = type /\ row.status = status /\ row.sid = sid
  /\ row.game = game /\ row.attempts = 0 /\ row.by = 0

LEMMA RowType ==
  ASSUME NEW type \in Types, NEW status \in CmdStatus, NEW sid \in 0 .. MaxSess,
         NEW user \in Users, NEW game \in Games
  PROVE  /\ IsRow(Row(type, status, sid, user, game, FALSE), type, status, sid, game)
         /\ IsRow(Row(type, status, sid, user, game, TRUE), type, status, sid, game)
         /\ ~Row(type, status, sid, user, game, FALSE).resident
         /\ Row(type, status, sid, user, game, TRUE).resident
<1>1. 0 \in 0 .. MaxAttempts /\ 0 \in 0 .. MaxBoot /\ FALSE \in BOOLEAN /\ TRUE \in BOOLEAN
  BY QueueAssumption
<1> QED
  BY <1>1 DEF IsRow, Row, Command

LEMMA SettledType ==
  ASSUME NEW row \in Command, NEW status \in CmdStatus
  PROVE  /\ Settled(row, status) \in Command
         /\ LET n == Settled(row, status)
            IN  /\ n.status = status /\ n.type = row.type /\ n.sid = row.sid
                /\ n.resident = row.resident /\ n.attempts = row.attempts /\ n.by = row.by
                /\ n.game = row.game /\ n.expired = FALSE
<1> QED
  BY DEF Settled, Command

LEMMA SpawnedType ==
  ASSUME NEW user \in Users, NEW game \in Games, NEW cmd \in 0 .. MaxCmds
  PROVE  /\ Spawned(user, game, cmd) \in Session
         /\ LET n == Spawned(user, game, cmd)
            IN  n.status = "spawning" /\ n.user = user /\ n.game = game /\ n.cmd = cmd
<1> QED
  BY DEF Spawned, Session, Active, Stuck

\* A session that enters another state.
Entered(o, status) == [o EXCEPT !.status = status, !.stale = FALSE]

LEMMA EnteredType ==
  ASSUME NEW o \in Session, NEW status \in Active \cup Over
  PROVE  /\ Entered(o, status) \in Session
         /\ LET n == Entered(o, status)
            IN  n.status = status /\ n.user = o.user /\ n.game = o.game /\ n.cmd = o.cmd
<1> QED
  BY DEF Entered, Session

LEMMA EndedEvolves ==
  ASSUME NEW o \in Session, o.status \in Active, NEW status \in Over
  PROVE  SessEvolves(o, Entered(o, status))
<1>1. /\ Entered(o, status).status = status
      /\ Entered(o, status).user = o.user /\ Entered(o, status).game = o.game
      /\ Entered(o, status).cmd = o.cmd
  BY EnteredType
<1>2. StageOf(status) = 5 /\ StageOf(o.status) \in 0 .. 5
  BY DEF StageOf, Over, Active, Stuck
<1> QED
  BY <1>1, <1>2 DEF SessEvolves, Over, Active, Stuck

LEMMA SameEvolves ==
  /\ \A o \in Command : RowEvolves(o, o)
  /\ \A o \in Session : SessEvolves(o, o)
<1>1. \A o \in Command : RowEvolves(o, o)
  BY QueueAssumption DEF RowEvolves, Command
<1>2. ASSUME NEW o \in Session PROVE SessEvolves(o, o)
  <2>1. StageOf(o.status) \in 0 .. 5
    BY DEF StageOf
  <2> QED
    BY <2>1 DEF SessEvolves
<1> QED
  BY <1>1, <1>2

LEMMA SettledEvolves ==
  ASSUME NEW o \in Command, o.status \notin Terminal \cup {"none"}, NEW status \in Terminal
  PROVE  RowEvolves(o, Settled(o, status))
<1>1. status \in CmdStatus /\ status \notin {"none", "preparing"}
  BY DEF Terminal, CmdStatus
<1> DEFINE n == Settled(o, status)
<1>2. /\ n.status = status /\ n.type = o.type /\ n.sid = o.sid /\ n.resident = o.resident
      /\ n.game = o.game /\ n.attempts = o.attempts
  BY <1>1, SettledType
<1>3. n.attempts >= o.attempts
  BY <1>2, SameEvolves, QueueAssumption DEF Command
<1> HIDE DEF n
<1> QED
  BY <1>1, <1>2, <1>3 DEF RowEvolves, n

\* The position of a member of a finite set of numbers.
LEMMA Position ==
  ASSUME NEW S, IsFiniteSet(S), S \subseteq Int, NEW x \in S
  PROVE  At(x, S) \in 1 .. Cardinality(S) /\ Cardinality(S) \in Nat
<1> DEFINE T == {y \in S : y <= x}
<1>1. T \in SUBSET S /\ x \in T
  OBVIOUS
<1>2. IsFiniteSet(T) /\ Cardinality(T) <= Cardinality(S) /\ Cardinality(S) \in Nat
  BY <1>1, FS_Subset, FS_CardinalityType
<1>3. Cardinality(T) \in Nat /\ Cardinality(T) # 0
  BY <1>1, <1>2, FS_CardinalityType, FS_EmptySet
<1>4. At(x, S) = Cardinality(T)
  BY DEF At
<1> QED
  BY <1>2, <1>3, <1>4

LEMMA Positions ==
  ASSUME NEW S, IsFiniteSet(S), S \subseteq Int, NEW x \in S, NEW y \in S, At(x, S) = At(y, S)
  PROVE  x = y
<1>1. ASSUME NEW u \in S, NEW v \in S, u < v PROVE At(u, S) # At(v, S)
  <2> DEFINE U == {z \in S : z <= u}
             V == {z \in S : z <= v}
  <2>1. V \in SUBSET S /\ U \in SUBSET V /\ v \in V /\ v \notin U
    <3>1. u \in Int /\ v \in Int /\ v <= v /\ ~(v <= u)
      BY <1>1
    <3>2. \A z \in S : z <= u => z <= v
      BY <1>1, <3>1
    <3> QED
      BY <3>1, <3>2
  <2>2. At(u, S) = Cardinality(U) /\ At(v, S) = Cardinality(V)
    BY DEF At
  <2> HIDE DEF U, V
  <2>3. IsFiniteSet(V)
    BY <2>1, FS_Subset
  <2> QED
    BY <2>1, <2>2, <2>3, FS_Subset
<1>2. x \in Int /\ y \in Int
  OBVIOUS
<1> QED
  BY <1>1, <1>2

-----------------------------------------------------------------------------
(* What the actions have in common                                         *)

\* A session that becomes ready or connected is promoted by the current boot.
Promotes ==
  \A s \in SessIds :
     sess'[s].status # sess[s].status /\ sess'[s].status \in {"ready", "connected"}
     => \E c \in CmdIds : /\ cmds[c].sid = s /\ cmds[c].status = "leased"
                          /\ cmds[c].to = boot /\ cmds'[c].status = "completed"

Good == Tables' /\ Singles' /\ Evolves /\ Promotes

\* Sessions that evolve, none of them new; and none timed out.
Moving ==
  /\ sess' \in [SessIds -> Session]
  /\ \A s \in SessIds : SessEvolves(sess[s], sess'[s])

Settling ==
  /\ Moving
  /\ \A s \in SessIds : sess'[s].status = "timed_out" => sess[s].status = "timed_out"

LEMMA StillSettles == Tables /\ sess' = sess => Settling
<1> QED
  BY SameEvolves DEF Tables, TypeOK, Settling, Moving

LEMMA EndingSettles ==
  ASSUME Tables, NEW S, S \subseteq SessionsIn(Active),
         sess' = [s \in SessIds |-> IF s \in S THEN Entered(sess[s], "ended") ELSE sess[s]]
  PROVE  /\ Settling
         /\ \A s \in SessIds : sess'[s].status \in {"ready", "connected"} => sess'[s] = sess[s]
<1>1. \A s \in SessIds : sess[s] \in Session
  BY DEF Tables, TypeOK
<1>2. "ended" \in Over /\ "ended" \in Active \cup Over
  BY DEF Over
<1>3. ASSUME NEW s \in SessIds
      PROVE  /\ sess'[s] \in Session /\ SessEvolves(sess[s], sess'[s])
             /\ sess'[s].status = "timed_out" => sess[s].status = "timed_out"
             /\ sess'[s].status \in {"ready", "connected"} => sess'[s] = sess[s]
  <2>1. CASE s \in S
    <3>1. sess'[s] = Entered(sess[s], "ended") /\ sess[s].status \in Active
      BY <2>1 DEF SessionsIn
    <3>2. Entered(sess[s], "ended") \in Session /\ Entered(sess[s], "ended").status = "ended"
      BY <1>1, <1>2, EnteredType
    <3> QED
      BY <1>1, <1>2, <3>1, <3>2, EndedEvolves
  <2>2. CASE s \notin S
    BY <1>1, <2>2, SameEvolves
  <2> QED
    BY <2>1, <2>2
<1> QED
  BY <1>3 DEF Settling, Moving

\* No step but a report completes a row.
Quiet == \A c \in CmdIds : cmds'[c].status = "completed" => cmds[c].status = "completed"

\* A row that stays as it is stays in order while sessions settle.
LEMMA RowSettles ==
  ASSUME QueueInv, Settling, boot' = boot, NEW row \in Command,
         RowShape(row, Started), RowSound(row, sess, boot)
  PROVE  RowSound(row, sess', boot')
<1>1. ns \in 0 .. MaxSess /\ MaxSess \in Nat
  BY QueueAssumption DEF QueueInv, Tables, TypeOK
<1>2. CASE row.sid = 0
  BY <1>2 DEF RowShape, RowSound
<1>3. CASE row.sid # 0
  <2>1. row.sid \in SessIds
    BY <1>3 DEF RowShape, Started
  <2>2. /\ SessEvolves(sess[row.sid], sess'[row.sid])
        /\ sess'[row.sid].status = "timed_out" => sess[row.sid].status = "timed_out"
    BY <2>1 DEF Settling, Moving
  <2> QED
    BY <2>2 DEF RowSound, SessEvolves
<1> QED
  BY <1>2, <1>3

\* The sessions that exclude each other are among the old ones, unless a new one does.
LEMMA NewSessions ==
  ASSUME QueueInv, Evolves, nc' \in Nat,
         \A s \in SessIds : s =< ns \/ sess'[s].status = "none" \/ NamesStart(s)',
         \A r, s \in SessIds :
            /\ r # s /\ ~(s =< ns)
            /\ sess'[r].status \in Active /\ sess'[s].status \in Active
            => Excludes(r, s)' /\ Excludes(s, r)'
  PROVE  Singles'
<1>1. nc \in 0 .. MaxCmds /\ nc =< nc' /\ MaxCmds \in Nat
  BY QueueAssumption DEF QueueInv, Tables, TypeOK, Evolves
<1>2. ASSUME NEW s \in SessIds, s =< ns, sess'[s].status # "none"
      PROVE  /\ sess[s].status # "none" /\ sess'[s].cmd = sess[s].cmd
             /\ sess'[s].user = sess[s].user /\ sess'[s].game = sess[s].game
             /\ sess'[s].status \in Active => sess[s].status \in Active
             /\ sess[s].cmd \in CmdIds /\ sess[s].cmd =< nc
             /\ RowEvolves(cmds[sess[s].cmd], cmds'[sess[s].cmd])
             /\ cmds[sess[s].cmd].type = "start_game"
             /\ cmds[sess[s].cmd].sid = s /\ cmds[sess[s].cmd].status # "preparing"
  <2>1. SessEvolves(sess[s], sess'[s])
    BY <1>2 DEF Evolves
  <2>2. sess[s].status # "none"
    BY <1>2, <2>1 DEF SessEvolves
  <2>3. /\ sess[s].cmd \in CmdIds /\ sess[s].cmd =< nc
        /\ cmds[sess[s].cmd].type = "start_game" /\ cmds[sess[s].cmd].sid = s
        /\ cmds[sess[s].cmd].status # "preparing"
    BY <1>1, <2>2 DEF QueueInv, Singles, SessionsNameStarts, NamesStart, CmdIds
  <2> QED
    BY <2>1, <2>2, <2>3 DEF SessEvolves, Evolves
<1>3. SessionsNameStarts'
  <2> SUFFICES ASSUME NEW s \in SessIds, sess'[s].status # "none"
               PROVE  NamesStart(s)'
    BY DEF SessionsNameStarts
  <2>1. CASE s =< ns
    <3>1. cmds[sess[s].cmd].status # "none"
      BY <1>2, <2>1 DEF QueueInv, Tables, RowsOK, RowShape
    <3>2. sess'[s].cmd \in 1 .. nc'
      BY <1>1, <1>2, <2>1 DEF CmdIds
    <3> QED
      BY <1>2, <2>1, <3>1, <3>2 DEF RowEvolves, NamesStart
  <2> QED
    BY <2>1
<1>4. \A s \in SessIds : sess'[s].status \in Active => sess'[s].status # "none"
  BY DEF Active, Stuck
<1>5. ASSUME NEW r \in SessIds, NEW s \in SessIds, r # s,
             sess'[r].status \in Active, sess'[s].status \in Active
      PROVE  Excludes(r, s)'
  <2>1. CASE r =< ns /\ s =< ns
    <3>1. /\ Resident(r)' = Resident(r) /\ Resident(s)' = Resident(s)
          /\ sess[r].status \in Active /\ sess[s].status \in Active
          /\ sess'[r].user = sess[r].user /\ sess'[r].game = sess[r].game
          /\ sess'[s].user = sess[s].user /\ sess'[s].game = sess[s].game
      BY <1>2, <1>4, <1>5, <2>1 DEF RowEvolves, Resident
    <3>2. Excludes(r, s)
      BY <1>5, <3>1 DEF Excludes, Resident, QueueInv, Singles, OneLaunchPerUser,
                        OneResidentPerGame, SessionsIn
    <3> QED
      BY <3>1, <3>2 DEF Excludes
  <2> QED
    BY <1>5, <2>1
<1>6. OneLaunchPerUser' /\ OneResidentPerGame'
  BY <1>5 DEF Excludes, Resident, OneLaunchPerUser, OneResidentPerGame, SessionsIn
<1> QED
  BY <1>3, <1>6 DEF Singles

LEMMA NoNewSession ==
  ASSUME QueueInv, Evolves, Moving, nc' \in Nat
  PROVE  Singles'
<1>1. \A s \in SessIds : s =< ns \/ sess'[s].status = "none"
  BY DEF Moving, SessEvolves, QueueInv, Tables, SessBelow
<1>2. "none" \notin Active
  BY DEF Active, Stuck
<1> QED
  BY <1>1, <1>2, NewSessions

\* Rows are inserted or rewritten, and no session is new.
LEMMA SameStarted == Moving => Started' = Started
<1> QED
  BY DEF Moving, Started, SessEvolves

LEMMA ManyRows ==
  ASSUME QueueInv, Moving, cmds' \in [CmdIds -> Command], nc' \in 0 .. MaxCmds, nc =< nc',
         \A c \in CmdIds : /\ c =< nc => RowEvolves(cmds[c], cmds'[c])
                           /\ cmds'[c].status # "none" => c =< nc'
                           /\ RowShape(cmds'[c], Started) /\ RowSound(cmds'[c], sess', boot'),
         ns' = ns, boot' \in 0 .. MaxBoot,
         reqs' \subseteq reqs, always' = always, proc' = proc, ran' = ran
  PROVE  Tables' /\ Singles' /\ Evolves
<1>1. /\ sess \in [SessIds -> Session] /\ nc \in 0 .. MaxCmds /\ ns \in 0 .. MaxSess
      /\ MaxCmds \in Nat /\ MaxSess \in Nat
  BY QueueAssumption DEF QueueInv, Tables, TypeOK
<1>2. TypeOK'
  BY <1>1 DEF QueueInv, Tables, TypeOK, Moving
<1>3. Evolves
  <2>1. ns =< ns'
    BY <1>1
  <2> QED
    BY <2>1 DEF Evolves, Moving
<1>4. SessBelow'
  BY DEF QueueInv, Tables, SessBelow, Moving, SessEvolves
<1>5. RowsBelow' /\ RowsOK' /\ ReqsOK'
  BY SameStarted DEF QueueInv, Tables, RowsBelow, RowsOK, ReqsOK
<1>6. Tables'
  BY <1>2, <1>4, <1>5 DEF QueueInv, Tables
<1>7. Singles'
  <2>1. nc' \in Nat
    BY <1>1
  <2> QED
    BY <1>3, <2>1, NoNewSession
<1> QED
  BY <1>3, <1>6, <1>7

LEMMA OneRow ==
  ASSUME QueueInv, Settling, NEW c \in CmdIds, NEW row \in Command,
         cmds' = [cmds EXCEPT ![c] = row], nc' \in 0 .. MaxCmds, nc =< nc', c =< nc',
         c =< nc => RowEvolves(cmds[c], row),
         RowShape(row, Started), RowSound(row, sess', boot),
         ns' = ns, boot' = boot, reqs' \subseteq reqs, always' = always, proc' = proc, ran' = ran
  PROVE  Tables' /\ Singles' /\ Evolves
<1>1. /\ cmds \in [CmdIds -> Command] /\ nc \in 0 .. MaxCmds /\ ns \in Nat
      /\ boot' \in 0 .. MaxBoot
  BY QueueAssumption DEF QueueInv, Tables, TypeOK
<1>2. cmds' \in [CmdIds -> Command] /\ cmds'[c] = row
  BY <1>1
<1>3. ASSUME NEW d \in CmdIds, d # c
      PROVE  /\ cmds'[d] = cmds[d] /\ RowEvolves(cmds[d], cmds[d])
             /\ cmds[d].status # "none" => d =< nc'
             /\ RowShape(cmds[d], Started) /\ RowSound(cmds[d], sess', boot')
  <2>1. cmds'[d] = cmds[d] /\ cmds[d] \in Command
    BY <1>1, <1>3
  <2>2. cmds[d].status # "none" => d =< nc'
    BY <1>1 DEF QueueInv, Tables, RowsBelow, CmdIds
  <2>3. RowShape(cmds[d], Started) /\ RowSound(cmds[d], sess, boot)
    BY DEF QueueInv, Tables, RowsOK
  <2>4. RowSound(cmds[d], sess', boot')
    BY <2>1, <2>3, RowSettles
  <2> QED
    BY <2>1, <2>2, <2>3, <2>4, SameEvolves
<1>4. \A d \in CmdIds : /\ d =< nc => RowEvolves(cmds[d], cmds'[d])
                        /\ cmds'[d].status # "none" => d =< nc'
                        /\ RowShape(cmds'[d], Started) /\ RowSound(cmds'[d], sess', boot')
  BY <1>2, <1>3
<1> QED
  BY <1>1, <1>2, <1>4, ManyRows DEF Settling

\* Sessions change alone.
LEMMA NoRows ==
  ASSUME QueueInv, Settling, UNCHANGED <<cmds, nc, ns, boot, always, proc, ran, reqs>>
  PROVE  Tables' /\ Singles' /\ Evolves
<1>1. /\ cmds' \in [CmdIds -> Command] /\ nc' \in 0 .. MaxCmds /\ nc =< nc' /\ ns \in Nat
      /\ boot' \in 0 .. MaxBoot
  BY QueueAssumption DEF QueueInv, Tables, TypeOK
<1>2. ASSUME NEW c \in CmdIds
      PROVE  /\ c =< nc => RowEvolves(cmds[c], cmds'[c])
             /\ cmds'[c].status # "none" => c =< nc'
             /\ RowShape(cmds'[c], Started) /\ RowSound(cmds'[c], sess', boot')
  <2>1. cmds[c] \in Command /\ RowShape(cmds[c], Started) /\ RowSound(cmds[c], sess, boot)
    BY DEF QueueInv, Tables, TypeOK, RowsOK
  <2>2. RowSound(cmds[c], sess', boot')
    BY <2>1, RowSettles
  <2> QED
    BY <2>1, <2>2, SameEvolves DEF QueueInv, Tables, RowsBelow
<1> QED
  BY <1>1, <1>2, ManyRows DEF Settling

\* Neither rows nor sessions change.
LEMMA NoRow ==
  ASSUME QueueInv, UNCHANGED <<cmds, nc, sess, ns, boot>>, TypeOK', ReqsOK', IsFiniteSet(always)'
  PROVE  Good /\ Quiet
<1>1. Evolves
  BY SameEvolves, QueueAssumption DEF QueueInv, Tables, TypeOK, Evolves
<1>2. Tables'
  BY DEF QueueInv, Tables, RowsBelow, SessBelow, RowsOK, Started
<1>3. Singles'
  BY DEF QueueInv, Singles, SessionsNameStarts, NamesStart, OneLaunchPerUser, OneResidentPerGame,
         SessionsIn
<1>4. Promotes
  BY DEF Promotes
<1> QED
  BY <1>1, <1>2, <1>3, <1>4 DEF Good, Quiet

-----------------------------------------------------------------------------
(* POST /api/server/command, without the launch transaction                *)

LEMMA TypeNames ==
  /\ Lifecycle \subseteq Types /\ "task" \in Types /\ "task" \notin Lifecycle
  /\ {"start_game", "stop_game", "sdp_offer"} \subseteq Types
  /\ InFlight \cup Terminal \cup {"none", "preparing"} \subseteq CmdStatus
  /\ NoGame \in Games /\ Owner \in Users
<1>1. NoGame \in Games
  BY QueueAssumption DEF NoGame
<1> QED
  BY <1>1, QueueAssumption DEF Lifecycle, Types, InFlight, Terminal, CmdStatus

\* A row that is inserted, for a session or for none.
LEMMA InsertKeeps ==
  ASSUME QueueInv, nc < MaxCmds, NEW row \in Command, RowShape(row, Started),
         row.status \in {"preparing", "pending"}, row.sid # 0 => row.game = sess[row.sid].game,
         cmds' = [cmds EXCEPT ![nc + 1] = row], nc' = nc + 1, reqs' \subseteq reqs,
         UNCHANGED <<sess, ns, always, boot, proc, ran>>
  PROVE  Good /\ Quiet
<1>1. /\ nc + 1 \in CmdIds /\ nc' \in 0 .. MaxCmds /\ nc =< nc' /\ nc + 1 =< nc'
      /\ ~(nc + 1 =< nc)
  BY QueueAssumption DEF QueueInv, Tables, TypeOK, CmdIds
<1>2. RowSound(row, sess', boot)
  BY DEF RowSound
<1>3. Tables' /\ Singles' /\ Evolves
  BY <1>1, <1>2, StillSettles, OneRow DEF QueueInv
<1>4. Quiet
  <2>1. cmds \in [CmdIds -> Command]
    BY DEF QueueInv, Tables, TypeOK
  <2> QED
    BY <1>1, <2>1 DEF Quiet
<1> QED
  BY <1>3, <1>4 DEF Good, Promotes

LEMMA InsertStartKeeps ==
  ASSUME QueueInv, NEW u \in Users, NEW g \in Games, InsertStart(u, g)
  PROVE  Good /\ Quiet
<1> DEFINE row == Row("start_game", "preparing", 0, u, g, FALSE)
<1>1. 0 \in 0 .. MaxSess /\ "preparing" \in CmdStatus
  BY QueueAssumption, TypeNames DEF QueueInv, Tables, TypeOK
<1>2. IsRow(row, "start_game", "preparing", 0, g) /\ ~row.resident
  BY <1>1, TypeNames, RowType
<1>3. /\ nc < MaxCmds /\ cmds' = [cmds EXCEPT ![nc + 1] = row] /\ nc' = nc + 1
      /\ UNCHANGED <<sess, ns, always, boot, proc, ran, reqs>>
  BY DEF InsertStart
<1> HIDE DEF row
<1>4. RowShape(row, Started)
  BY <1>1, <1>2 DEF RowShape, IsRow
<1> QED
  BY <1>2, <1>3, <1>4, InsertKeeps DEF IsRow

LEMMA InsertTaskKeeps ==
  ASSUME QueueInv, InsertTask
  PROVE  Good /\ Quiet
<1> DEFINE row == Row("task", "pending", 0, Owner, NoGame, FALSE)
<1>1. 0 \in 0 .. MaxSess /\ "pending" \in CmdStatus
  BY QueueAssumption DEF QueueInv, Tables, TypeOK, CmdStatus
<1>2. IsRow(row, "task", "pending", 0, NoGame) /\ ~row.resident
  BY <1>1, TypeNames, RowType
<1>3. /\ nc < MaxCmds /\ cmds' = [cmds EXCEPT ![nc + 1] = row] /\ nc' = nc + 1
      /\ UNCHANGED <<sess, ns, always, boot, proc, ran, reqs>>
  BY DEF InsertTask
<1> HIDE DEF row
<1>4. RowShape(row, Started)
  BY <1>1, <1>2, TypeNames DEF RowShape, IsRow
<1> QED
  BY <1>2, <1>3, <1>4, InsertKeeps DEF IsRow

LEMMA InsertTargetedKeeps ==
  ASSUME QueueInv, NEW r \in reqs, InsertTargeted(r)
  PROVE  Good /\ Quiet
<1> DEFINE row == Row(r.type, "pending", r.sid, sess[r.sid].user, sess[r.sid].game, FALSE)
<1>1. /\ r.type \in {"stop_game", "sdp_offer"} /\ r.sid \in SessIds /\ r.sid \in Started
      /\ ns \in 0 .. MaxSess /\ MaxSess \in Nat
  BY QueueAssumption DEF QueueInv, Tables, TypeOK, ReqsOK
<1>2. /\ r.type \in Types /\ "pending" \in CmdStatus /\ r.sid \in 0 .. MaxSess /\ r.sid # 0
      /\ sess[r.sid].user \in Users /\ sess[r.sid].game \in Games
  BY <1>1, TypeNames DEF QueueInv, Tables, TypeOK, Session, SessIds, CmdStatus
<1>3. IsRow(row, r.type, "pending", r.sid, sess[r.sid].game) /\ ~row.resident
  BY <1>2, RowType
<1>4. /\ nc < MaxCmds /\ cmds' = [cmds EXCEPT ![nc + 1] = row] /\ nc' = nc + 1
      /\ reqs' \subseteq reqs /\ UNCHANGED <<sess, ns, always, boot, proc, ran>>
  BY DEF InsertTargeted
<1> HIDE DEF row
<1>5. RowShape(row, Started)
  BY <1>1, <1>2, <1>3 DEF RowShape, IsRow
<1> QED
  BY <1>3, <1>4, <1>5, InsertKeeps DEF IsRow

LEMMA ReadTargetKeeps ==
  ASSUME QueueInv, NEW type \in {"stop_game", "sdp_offer"}, NEW s \in SessIds,
         ReadTarget(type, s)
  PROVE  Good /\ Quiet
<1>1. sess[s].status # "none"
  BY DEF ReadTarget, SessionsIn, Active, Stuck
<1>2. s \in Started
  BY <1>1 DEF Started
<1>3. reqs' = reqs \cup {[type |-> type, sid |-> s]}
  BY DEF ReadTarget
<1>4. TypeOK'
  BY <1>3 DEF ReadTarget, QueueInv, Tables, TypeOK
<1>5. ReqsOK'
  BY <1>2, <1>3 DEF ReadTarget, QueueInv, Tables, ReqsOK, Started
<1> QED
  BY <1>4, <1>5, NoRow DEF ReadTarget, QueueInv, Tables

\* The reconnect branch changes its own row only.
LEMMA ReconnectKeeps ==
  ASSUME QueueInv, NEW c \in CmdIds, ReadReusable(c) \/ PublishReconnect(c)
  PROVE  Good /\ Quiet
<1>1. /\ cmds \in [CmdIds -> Command] /\ nc \in 0 .. MaxCmds /\ ns \in 0 .. MaxSess
      /\ MaxSess \in Nat
  BY QueueAssumption DEF QueueInv, Tables, TypeOK
<1>2. /\ cmds[c].status = "preparing" /\ c =< nc
      /\ UNCHANGED <<nc, sess, ns, always, boot, proc, ran, reqs>>
  BY DEF ReadReusable, PublishReconnect, QueueInv, Tables, RowsBelow
<1>3. RowShape(cmds[c], Started) /\ cmds[c].type = "start_game" /\ ~cmds[c].resident
  BY <1>2 DEF QueueInv, Tables, RowsOK, RowShape
<1>4. ASSUME NEW row \in Command, cmds' = [cmds EXCEPT ![c] = row], RowShape(row, Started),
             row.resident = cmds[c].resident, row.status \in {"preparing", "pending"},
             row.game = cmds[c].game, row.attempts = cmds[c].attempts,
             row.sid # 0 => row.game = sess[row.sid].game
      PROVE  Good /\ Quiet
  <2>1. RowEvolves(cmds[c], row) /\ RowSound(row, sess', boot)
    BY <1>1, <1>2, <1>4 DEF RowEvolves, RowSound, Terminal, Command
  <2>2. Settling /\ nc' \in 0 .. MaxCmds /\ nc =< nc' /\ c =< nc' /\ reqs' \subseteq reqs
    BY <1>1, <1>2, StillSettles DEF QueueInv
  <2>3. Tables' /\ Singles' /\ Evolves
    BY <1>2, <1>4, <2>1, <2>2, OneRow
  <2>4. Quiet
    BY <1>1, <1>4 DEF Quiet
  <2> QED
    BY <1>2, <2>3, <2>4 DEF Good, Promotes
<1>5. CASE ReadReusable(c)
  <2>1. PICK s \in SessIds : /\ s \in Reusable(cmds[c].user, cmds[c].game)
                             /\ cmds' = [cmds EXCEPT ![c].sid = s]
    BY <1>5 DEF ReadReusable, Reusable
  <2>2. s \in Started
    BY <2>1 DEF Reusable, Stuck, Started
  <2> DEFINE row == [cmds[c] EXCEPT !.sid = s]
  <2>3. /\ row \in Command /\ row.sid = s /\ row.status = "preparing"
        /\ row.type = "start_game" /\ row.resident = cmds[c].resident
        /\ row.game = cmds[c].game /\ row.attempts = cmds[c].attempts
    BY <1>1, <1>2, <1>3 DEF Command, SessIds
  <2>4. RowShape(row, Started)
    BY <1>1, <1>3, <2>2, <2>3 DEF RowShape, SessIds
  <2>5. cmds' = [cmds EXCEPT ![c] = row]
    BY <2>1
  <2>6. cmds[c].game = sess[s].game
    BY <2>1 DEF Reusable
  <2> QED
    BY <1>4, <2>3, <2>4, <2>5, <2>6
<1>6. CASE PublishReconnect(c)
  <2> DEFINE row == [cmds[c] EXCEPT !.type = "sdp_offer", !.status = "pending"]
  <2>1. /\ row \in Command /\ row.sid = cmds[c].sid /\ row.status = "pending"
        /\ row.type = "sdp_offer" /\ row.resident = cmds[c].resident
        /\ row.game = cmds[c].game /\ row.attempts = cmds[c].attempts
    <3>1. "sdp_offer" \in Types /\ "pending" \in CmdStatus
      BY TypeNames DEF CmdStatus
    <3>2. row = [[cmds[c] EXCEPT !.type = "sdp_offer"] EXCEPT !.status = "pending"]
      OBVIOUS
    <3>3. cmds[c] \in Command
      BY <1>1
    <3> QED
      BY <3>1, <3>2, <3>3 DEF Command
  <2>2. cmds[c].sid # 0
    BY <1>6 DEF PublishReconnect
  <2>3. RowShape(row, Started)
    BY <1>3, <2>1, <2>2 DEF RowShape
  <2>4. cmds' = [cmds EXCEPT ![c] = row]
    BY <1>1, <1>6 DEF PublishReconnect
  <2>5. cmds[c].sid # 0 => cmds[c].game = sess[cmds[c].sid].game
    BY DEF QueueInv, Tables, RowsOK, RowSound
  <2> QED
    BY <1>4, <2>1, <2>3, <2>4, <2>5
<1> QED
  BY <1>5, <1>6

-----------------------------------------------------------------------------
(* POST /api/server/notify and /api/server/result                          *)

\* What a report with the row's current lease makes of the row.
LEMMA ReportedRow ==
  ASSUME QueueInv, NEW c \in CmdIds, NEW k \in 1 .. cmds[c].attempts, LeaseHeld(c, k),
         cmds' = Completed(c, k)
  PROVE  \E row \in Command :
           /\ cmds' = [cmds EXCEPT ![c] = row] /\ row.status = "completed"
           /\ RowEvolves(cmds[c], row) /\ RowShape(row, Started)
           /\ \A ss, b : RowSound(cmds[c], ss, b) => RowSound(row, ss, b)
           /\ c =< nc
<1>1. cmds \in [CmdIds -> Command] /\ cmds[c] \in Command /\ cmds[c].attempts \in 0 .. MaxAttempts
  BY DEF QueueInv, Tables, TypeOK, Command
<1>2. cmds[c].status = "leased" /\ cmds[c].attempts = k
  BY DEF LeaseHeld
<1> DEFINE done == Settled(cmds[c], "completed")
           row == [done EXCEPT !.by = k]
<1>3. /\ done \in Command /\ done.status = "completed" /\ done.type = cmds[c].type
      /\ done.sid = cmds[c].sid /\ done.resident = cmds[c].resident
      /\ done.attempts = cmds[c].attempts /\ done.game = cmds[c].game
  BY <1>1, SettledType DEF CmdStatus
<1> HIDE DEF done
<1>4. /\ row \in Command /\ row.status = "completed" /\ row.type = cmds[c].type
      /\ row.sid = cmds[c].sid /\ row.resident = cmds[c].resident
      /\ row.attempts = k /\ row.by = k /\ row.game = cmds[c].game
  BY <1>1, <1>2, <1>3 DEF Command
<1>5. cmds' = [cmds EXCEPT ![c] = row]
  BY <1>1 DEF Completed, done
<1> HIDE DEF row
<1>6. RowEvolves(cmds[c], row)
  BY <1>1, <1>2, <1>4, QueueAssumption DEF RowEvolves, Terminal
<1>7. RowShape(row, Started)
  <2>1. RowShape(cmds[c], Started)
    BY DEF QueueInv, Tables, RowsOK
  <2> QED
    BY <1>2, <1>4, <2>1 DEF RowShape
<1>8. \A ss, b : RowSound(cmds[c], ss, b) => RowSound(row, ss, b)
  BY <1>4 DEF RowSound
<1>9. c =< nc
  BY <1>2 DEF QueueInv, Tables, RowsBelow
<1> QED
  BY <1>4, <1>5, <1>6, <1>7, <1>8, <1>9

LEMMA ReportKeeps ==
  ASSUME QueueInv, Settling, NEW c \in CmdIds, NEW k \in 1 .. cmds[c].attempts, LeaseHeld(c, k),
         cmds' = Completed(c, k), UNCHANGED <<nc, ns, always, boot, proc, ran, reqs>>
  PROVE  Tables' /\ Singles' /\ Evolves /\ cmds'[c].status = "completed"
<1>1. PICK row \in Command :
           /\ cmds' = [cmds EXCEPT ![c] = row] /\ row.status = "completed"
           /\ RowEvolves(cmds[c], row) /\ RowShape(row, Started) /\ c =< nc
           /\ \A ss, b : RowSound(cmds[c], ss, b) => RowSound(row, ss, b)
  BY ReportedRow
<1>2. /\ nc' \in 0 .. MaxCmds /\ nc =< nc' /\ c =< nc'
      /\ cmds \in [CmdIds -> Command]
  BY <1>1, QueueAssumption DEF QueueInv, Tables, TypeOK
<1>3. RowSound(row, sess', boot)
  <2>1. cmds[c] \in Command /\ RowShape(cmds[c], Started) /\ RowSound(cmds[c], sess, boot)
    BY DEF QueueInv, Tables, TypeOK, RowsOK
  <2> QED
    BY <1>1, <2>1, RowSettles
<1>4. Tables' /\ Singles' /\ Evolves
  BY <1>1, <1>2, <1>3, OneRow
<1> QED
  BY <1>1, <1>2, <1>4

\* A session that enters a state of its own future, by a report or an end.
LEMMA EnteringSettles ==
  ASSUME Tables, NEW s \in SessIds, NEW status \in (Active \cup Over) \ {"timed_out"},
         SessEvolves(sess[s], Entered(sess[s], status)),
         sess' = [sess EXCEPT ![s] = Entered(sess[s], status)]
  PROVE  /\ Settling /\ sess'[s].status = status
         /\ \A r \in SessIds : r # s => sess'[r] = sess[r]
<1>1. sess \in [SessIds -> Session] /\ sess[s] \in Session
  BY DEF Tables, TypeOK
<1>2. Entered(sess[s], status) \in Session /\ Entered(sess[s], status).status = status
  BY <1>1, EnteredType
<1>3. sess' \in [SessIds -> Session] /\ sess'[s] = Entered(sess[s], status)
  BY <1>1, <1>2
<1>4. \A r \in SessIds : r # s => sess'[r] = sess[r]
  BY <1>1
<1>5. \A r \in SessIds : SessEvolves(sess[r], sess'[r])
  BY <1>1, <1>3, <1>4, SameEvolves
<1> QED
  BY <1>2, <1>3, <1>4, <1>5 DEF Settling, Moving

\* What readiness or an answer makes of the session.
LEMMA NotifyEvolves ==
  ASSUME NEW o \in Session, NEW sdp \in BOOLEAN, NotifyTarget(o.status, sdp) # "refused"
  PROVE  LET t == NotifyTarget(o.status, sdp)
         IN  /\ t \in {"ready", "connected", "playing"} /\ o.status \in Active
             /\ SessEvolves(o, Entered(o, t))
<1> DEFINE t == NotifyTarget(o.status, sdp)
<1>1. /\ o.status \in Active
      /\ t \in {"ready", "connected", "playing"}
      /\ StageOf(t) >= StageOf(o.status)
  <2>1. CASE sdp
    BY <2>1 DEF NotifyTarget, Active, Stuck, StageOf
  <2>2. CASE ~sdp
    BY <2>2 DEF NotifyTarget, Active, Stuck, StageOf
  <2> QED
    BY <2>1, <2>2
<1>2. t \in Active \cup Over
  BY <1>1 DEF Active, Stuck
<1> HIDE DEF t
<1>3. /\ Entered(o, t).status = t /\ Entered(o, t).user = o.user
      /\ Entered(o, t).game = o.game /\ Entered(o, t).cmd = o.cmd
  BY <1>2, EnteredType
<1>4. SessEvolves(o, Entered(o, t))
  BY <1>1, <1>3 DEF SessEvolves, Active, Stuck, Over
<1> QED
  BY <1>1, <1>4 DEF t

LEMMA NotifyGameKeeps ==
  ASSUME QueueInv, NEW c \in CmdIds, NEW k \in 1 .. cmds[c].attempts, NEW sdp \in BOOLEAN,
         NotifyGame(c, k, sdp)
  PROVE  Good
<1> DEFINE s == cmds[c].sid
           t == NotifyTarget(sess[s].status, sdp)
<1>1. /\ cmds[c].type \in {"start_game", "sdp_offer"} /\ s # 0 /\ t # "refused"
      /\ cmds[c].status = "leased" /\ LeaseHeld(c, k) /\ cmds' = Completed(c, k)
      /\ UNCHANGED <<nc, ns, always, boot, proc, ran, reqs>>
  BY DEF NotifyGame, NotifyAccepted, LeaseHeld
<1>2. RowShape(cmds[c], Started) /\ RowSound(cmds[c], sess, boot)
  BY DEF QueueInv, Tables, RowsOK
<1>3. s \in SessIds /\ sess \in [SessIds -> Session] /\ sess[s] \in Session
  <2>2. s \in SessIds
    BY <1>1, <1>2 DEF RowShape, Started
  <2> QED
    BY <2>2 DEF QueueInv, Tables, TypeOK
<1>4. /\ t \in {"ready", "connected", "playing"} /\ sess[s].status \in Active
      /\ SessEvolves(sess[s], Entered(sess[s], t))
  BY <1>1, <1>3, NotifyEvolves
<1>5. sess' = [sess EXCEPT ![s] = Entered(sess[s], t)]
  BY <1>3 DEF NotifyGame, Entered
<1>6. t \in (Active \cup Over) \ {"timed_out"}
  BY <1>4 DEF Active, Stuck
<1>7. /\ Settling /\ \A r \in SessIds : r # s => sess'[r] = sess[r]
  BY <1>3, <1>4, <1>5, <1>6, EnteringSettles DEF QueueInv
<1>8. Tables' /\ Singles' /\ Evolves /\ cmds'[c].status = "completed"
  BY <1>1, <1>7, ReportKeeps
<1>9. cmds[c].to = boot
  BY <1>1, <1>2, <1>4 DEF RowSound, Lifecycle
<1>10. Promotes
  BY <1>1, <1>7, <1>8, <1>9 DEF Promotes
<1> QED
  BY <1>8, <1>10 DEF Good

LEMMA NotifyStopKeeps ==
  ASSUME QueueInv, NEW c \in CmdIds, NEW k \in 1 .. cmds[c].attempts, NotifyStop(c, k)
  PROVE  Good
<1> DEFINE s == cmds[c].sid
<1>1. /\ s # 0 /\ cmds[c].status = "leased" /\ LeaseHeld(c, k) /\ cmds' = Completed(c, k)
      /\ UNCHANGED <<nc, ns, always, boot, proc, ran, reqs>>
  BY DEF NotifyStop, LeaseHeld
<1>2. /\ s \in SessIds /\ s \in Started /\ sess \in [SessIds -> Session] /\ sess[s] \in Session
  <2>1. s \in Started
    BY <1>1 DEF QueueInv, Tables, RowsOK, RowShape
  <2>2. s \in SessIds
    BY <2>1 DEF Started
  <2> QED
    BY <2>1, <2>2 DEF QueueInv, Tables, TypeOK
<1>3. CASE sess' = sess
  <2>1. Tables' /\ Singles' /\ Evolves
    BY <1>1, <1>3, StillSettles, ReportKeeps DEF QueueInv
  <2> QED
    BY <1>3, <2>1 DEF Good, Promotes
<1>4. CASE /\ sess[s].status \notin Over
           /\ sess' = [sess EXCEPT ![s].status = "ended", ![s].stale = FALSE]
  <2>1. sess' = [sess EXCEPT ![s] = Entered(sess[s], "ended")]
    BY <1>2, <1>4 DEF Entered
  <2>2. "ended" \in (Active \cup Over) \ {"timed_out"} /\ "ended" \in Over
    BY DEF Over
  <2>3. SessEvolves(sess[s], Entered(sess[s], "ended"))
    <3>1. sess[s].status \in Active
      BY <1>2, <1>4 DEF Started, Session
    <3> QED
      BY <1>2, <2>2, <3>1, EndedEvolves
  <2>4. /\ Settling /\ sess'[s].status = "ended" /\ \A r \in SessIds : r # s => sess'[r] = sess[r]
    BY <1>2, <2>1, <2>2, <2>3, EnteringSettles DEF QueueInv
  <2>5. Tables' /\ Singles' /\ Evolves
    BY <1>1, <2>4, ReportKeeps
  <2>6. Promotes
    BY <2>4 DEF Promotes
  <2> QED
    BY <2>5, <2>6 DEF Good
<1> QED
  BY <1>3, <1>4 DEF NotifyStop

LEMMA ResultKeeps ==
  ASSUME QueueInv, NEW c \in CmdIds, NEW k \in 1 .. cmds[c].attempts, Result(c, k)
  PROVE  Good
<1>1. LeaseHeld(c, k) /\ cmds' = Completed(c, k) /\ sess' = sess
      /\ UNCHANGED <<nc, ns, always, boot, proc, ran, reqs>>
  BY DEF Result
<1>2. Tables' /\ Singles' /\ Evolves
  BY <1>1, StillSettles, ReportKeeps DEF QueueInv
<1> QED
  BY <1>1, <1>2 DEF Good, Promotes

LEMMA WorkerDeadKeeps ==
  ASSUME QueueInv, NEW s \in SessIds, WorkerDead(s)
  PROVE  Good /\ Quiet
<1>1. /\ sess[s].status \in Active /\ sess \in [SessIds -> Session] /\ sess[s] \in Session
      /\ UNCHANGED <<cmds, nc, ns, always, boot, proc, ran, reqs>>
  BY DEF WorkerDead, SessionsIn, QueueInv, Tables, TypeOK
<1>2. sess' = [sess EXCEPT ![s] = Entered(sess[s], "ended")]
  BY <1>1 DEF WorkerDead, Entered
<1>3. "ended" \in (Active \cup Over) \ {"timed_out"} /\ "ended" \in Over
  BY DEF Over
<1>4. SessEvolves(sess[s], Entered(sess[s], "ended"))
  BY <1>1, <1>3, EndedEvolves
<1>5. Settling /\ sess'[s].status = "ended" /\ \A r \in SessIds : r # s => sess'[r] = sess[r]
  BY <1>2, <1>3, <1>4, EnteringSettles DEF QueueInv
<1>6. Tables' /\ Singles' /\ Evolves
  BY <1>1, <1>5, NoRows
<1> QED
  BY <1>1, <1>5, <1>6 DEF Good, Promotes, Quiet

-----------------------------------------------------------------------------
(* Cleanup, time, flags and the host's processes                           *)

\* A row that a step settles without a report.
LEMMA SettledKept ==
  ASSUME NEW o \in Command, NEW S, RowShape(o, S), o.status \in {"pending", "leased"},
         NEW status \in Terminal \ {"completed"}
  PROVE  /\ Settled(o, status) \in Command /\ Settled(o, status).status = status
         /\ RowEvolves(o, Settled(o, status)) /\ RowShape(Settled(o, status), S)
         /\ \A ss, b : /\ o.sid # 0 => o.game = ss[o.sid].game
                       /\ status = "cancelled" /\ o.sid # 0 => ss[o.sid].status \in Over
                       => RowSound(Settled(o, status), ss, b)
<1> DEFINE row == Settled(o, status)
<1>1. status \in CmdStatus /\ status \in Terminal
      /\ status \notin {"none", "preparing", "leased", "completed"}
  BY TypeNames DEF Terminal
<1>2. /\ row \in Command /\ row.status = status /\ row.type = o.type
      /\ row.sid = o.sid /\ row.resident = o.resident /\ row.game = o.game
  BY <1>1, SettledType
<1>3. RowEvolves(o, row)
  BY <1>1, SettledEvolves DEF Terminal
<1> HIDE DEF row
<1>4. RowShape(row, S)
  BY <1>1, <1>2 DEF RowShape
<1>5. \A ss, b : /\ o.sid # 0 => o.game = ss[o.sid].game
                 /\ status = "cancelled" /\ o.sid # 0 => ss[o.sid].status \in Over
                 => RowSound(row, ss, b)
  BY <1>1, <1>2 DEF RowSound
<1> QED
  BY <1>2, <1>3, <1>4, <1>5 DEF row

LEMMA SettledRow ==
  ASSUME QueueInv, NEW c \in CmdIds, cmds[c].status \in {"pending", "leased"},
         NEW status \in Terminal \ {"completed"},
         \A s \in SessIds : s =< ns => sess'[s].game = sess[s].game
  PROVE  /\ Settled(cmds[c], status) \in Command /\ Settled(cmds[c], status).status = status
         /\ RowEvolves(cmds[c], Settled(cmds[c], status))
         /\ RowShape(Settled(cmds[c], status), Started) /\ c =< nc
         /\ (status = "cancelled" /\ cmds[c].sid # 0 => sess'[cmds[c].sid].status \in Over)
              => RowSound(Settled(cmds[c], status), sess', boot')
<1>1. /\ cmds[c] \in Command /\ RowShape(cmds[c], Started) /\ RowSound(cmds[c], sess, boot)
      /\ c =< nc
  BY DEF QueueInv, Tables, TypeOK, RowsOK, RowsBelow
<1>2. cmds[c].sid # 0 => cmds[c].game = sess'[cmds[c].sid].game
  BY <1>1 DEF RowShape, RowSound, Started, QueueInv, Tables, SessBelow
<1> QED
  BY <1>1, <1>2, SettledKept

LEMMA CleanupKeeps ==
  ASSUME QueueInv, Cleanup
  PROVE  Good /\ Quiet
<1> DEFINE fenced(s) ==
             \E c \in CmdIds :
               /\ cmds[c].sid = s /\ cmds[c].type \in Lifecycle
               /\ \/ cmds[c].type = "stop_game" /\ cmds[c].status \in InFlight \cup {"failed"}
                  \/ cmds[c].status = "leased" /\ ~cmds[c].expired
           eligible == {s \in SessionsIn(Stuck) : sess[s].stale /\ ~fenced(s)}
           failing(c) == /\ cmds[c].type \in {"start_game", "sdp_offer"}
                         /\ cmds[c].sid \in eligible /\ Due(cmds[c])
<1>1. /\ sess' = [s \in SessIds |-> IF s \in eligible THEN Entered(sess[s], "timed_out")
                                    ELSE sess[s]]
      /\ cmds' = [c \in CmdIds |-> IF failing(c) THEN Settled(cmds[c], "failed") ELSE cmds[c]]
      /\ UNCHANGED <<nc, ns, always, boot, proc, ran, reqs>>
  BY DEF Cleanup, Entered
<1>2. \A s \in eligible : s \in SessIds /\ sess[s].status \in Active /\ ~fenced(s)
  BY DEF SessionsIn, Active
<1>3. /\ cmds \in [CmdIds -> Command] /\ sess \in [SessIds -> Session]
      /\ nc' \in 0 .. MaxCmds /\ nc =< nc' /\ boot' \in 0 .. MaxBoot
  BY <1>1, QueueAssumption DEF QueueInv, Tables, TypeOK
<1>4. \A c \in CmdIds : failing(c) => cmds[c].status \in {"pending", "leased"}
  BY DEF Due
<1>5. ASSUME NEW c \in CmdIds, cmds[c].sid \in eligible, cmds[c].type \in Lifecycle,
             cmds[c].status = "leased", ~cmds[c].expired
      PROVE  FALSE
  BY <1>2, <1>5
<1> HIDE DEF failing, eligible
<1>6. ASSUME NEW s \in SessIds
      PROVE  /\ sess'[s] \in Session /\ SessEvolves(sess[s], sess'[s])
             /\ sess'[s].status # sess[s].status => sess'[s].status = "timed_out"
             /\ s \notin eligible => sess'[s] = sess[s]
  <2>1. CASE s \in eligible
    <3>1. "timed_out" \in Over /\ "timed_out" \in Active \cup Over
      BY DEF Over
    <3>2. sess'[s] = Entered(sess[s], "timed_out")
      BY <1>1, <2>1
    <3> QED
      BY <1>2, <1>3, <2>1, <3>1, <3>2, EnteredType, EndedEvolves
  <2>2. CASE s \notin eligible
    BY <1>1, <1>3, <2>2, SameEvolves
  <2> QED
    BY <2>1, <2>2
<1>7. Moving
  BY <1>1, <1>6 DEF Moving
<1>8. ASSUME NEW c \in CmdIds
      PROVE  /\ cmds'[c] \in Command
             /\ c =< nc => RowEvolves(cmds[c], cmds'[c])
             /\ cmds'[c].status # "none" => c =< nc'
             /\ cmds'[c].status = "completed" => cmds[c].status = "completed"
             /\ RowShape(cmds'[c], Started) /\ RowSound(cmds'[c], sess', boot')
  <2>1. CASE failing(c)
    <3>1. cmds'[c] = Settled(cmds[c], "failed") /\ cmds[c].status \in {"pending", "leased"}
      BY <1>1, <1>4, <2>1
    <3>2. "failed" \in Terminal \ {"completed"} /\ "failed" # "cancelled"
      BY DEF Terminal
    <3>3. \A s \in SessIds : sess'[s].game = sess[s].game
      BY <1>6 DEF SessEvolves
    <3> QED
      BY <1>1, <3>1, <3>2, <3>3, SettledRow
  <2>2. CASE ~failing(c)
    <3>1. cmds'[c] = cmds[c] /\ cmds[c] \in Command /\ RowEvolves(cmds[c], cmds[c])
      BY <1>1, <1>3, <2>2, SameEvolves
    <3>2. RowShape(cmds[c], Started) /\ RowSound(cmds[c], sess, boot) /\ RowsBelow
      BY DEF QueueInv, Tables, RowsOK
    <3>3. RowSound(cmds[c], sess', boot')
      <4>1. CASE cmds[c].sid = 0
        BY <1>1, <3>2, <4>1 DEF RowShape, RowSound
      <4>2. CASE cmds[c].sid # 0
        <5>1. cmds[c].sid \in SessIds
          BY <3>2, <4>2 DEF RowShape, Started
        <5>2. SessEvolves(sess[cmds[c].sid], sess'[cmds[c].sid])
          BY <1>6, <5>1
        <5>3. /\ cmds[c].sid \notin eligible => sess'[cmds[c].sid] = sess[cmds[c].sid]
          BY <1>6, <5>1
        <5> QED
          BY <1>1, <1>5, <3>2, <5>2, <5>3 DEF RowSound, SessEvolves
      <4> QED
        BY <4>1, <4>2
    <3> QED
      BY <1>1, <3>1, <3>2, <3>3 DEF RowsBelow
  <2> QED
    BY <2>1, <2>2
<1>9. cmds' \in [CmdIds -> Command]
  BY <1>1, <1>8
<1>10. Tables' /\ Singles' /\ Evolves
  BY <1>1, <1>3, <1>7, <1>8, <1>9, ManyRows
<1>11. Promotes
  BY <1>6 DEF Promotes
<1> QED
  BY <1>8, <1>10, <1>11 DEF Good, Quiet

LEMMA ExpireKeeps ==
  ASSUME QueueInv, NEW c \in CmdIds, ExpireLease(c)
  PROVE  Good /\ Quiet
<1> DEFINE row == [cmds[c] EXCEPT !.expired = TRUE]
<1>1. /\ cmds[c].status = "leased" /\ cmds \in [CmdIds -> Command] /\ sess' = sess
      /\ UNCHANGED <<nc, ns, always, boot, proc, ran, reqs>>
  BY DEF ExpireLease, QueueInv, Tables, TypeOK
<1>2. cmds' = [cmds EXCEPT ![c] = row]
  BY <1>1 DEF ExpireLease
<1>3. /\ row \in Command /\ row.status = "leased" /\ row.type = cmds[c].type
      /\ row.sid = cmds[c].sid /\ row.resident = cmds[c].resident /\ row.to = cmds[c].to
      /\ row.game = cmds[c].game /\ row.attempts = cmds[c].attempts
      /\ row.expired = TRUE
  BY <1>1 DEF Command
<1>4. /\ RowShape(cmds[c], Started) /\ RowSound(cmds[c], sess, boot) /\ c =< nc
      /\ nc' \in 0 .. MaxCmds /\ nc =< nc' /\ c =< nc'
  BY <1>1, QueueAssumption DEF QueueInv, Tables, TypeOK, RowsOK, RowsBelow
<1> HIDE DEF row
<1>5. RowEvolves(cmds[c], row) /\ RowShape(row, Started)
  BY <1>1, <1>3, <1>4, SameEvolves DEF RowEvolves, RowShape, Terminal
<1>6. RowSound(row, sess', boot)
  BY <1>1, <1>3, <1>4 DEF RowSound
<1>7. Tables' /\ Singles' /\ Evolves
  BY <1>1, <1>2, <1>3, <1>4, <1>5, <1>6, StillSettles, OneRow DEF QueueInv
<1>8. Quiet
  BY <1>1, <1>2, <1>3 DEF Quiet
<1> QED
  BY <1>1, <1>7, <1>8 DEF Good, Promotes

LEMMA AgeKeeps ==
  ASSUME QueueInv, NEW s \in SessIds, AgeSession(s)
  PROVE  Good /\ Quiet
<1>1. /\ sess[s].status \in Stuck /\ sess \in [SessIds -> Session] /\ sess[s] \in Session
      /\ sess' = [sess EXCEPT ![s].stale = TRUE]
      /\ UNCHANGED <<cmds, nc, ns, always, boot, proc, ran, reqs>>
  BY DEF AgeSession, QueueInv, Tables, TypeOK
<1>2. /\ sess'[s] \in Session /\ sess' \in [SessIds -> Session]
      /\ sess'[s].status = sess[s].status /\ sess'[s].user = sess[s].user
      /\ sess'[s].game = sess[s].game /\ sess'[s].cmd = sess[s].cmd
      /\ \A r \in SessIds : r # s => sess'[r] = sess[r]
  BY <1>1 DEF Session
<1>3. StageOf(sess[s].status) \in 0 .. 5 /\ sess[s].status \notin Over
  BY <1>1 DEF StageOf, Stuck, Over
<1>4. SessEvolves(sess[s], sess'[s])
  BY <1>2, <1>3 DEF SessEvolves
<1>5. Settling
  BY <1>1, <1>2, <1>4, SameEvolves DEF Settling, Moving
<1>6. Tables' /\ Singles' /\ Evolves
  BY <1>1, <1>5, NoRows
<1>7. \A r \in SessIds : sess'[r].status = sess[r].status
  BY <1>2
<1> QED
  BY <1>1, <1>6, <1>7 DEF Good, Promotes, Quiet

LEMMA FlagKeeps ==
  ASSUME QueueInv, NEW g \in FlagGames, SetAlwaysOn(g)
  PROVE  Good /\ Quiet
<1>1. /\ always' \in {always \ {g}, always \cup {g}} /\ IsFiniteSet(always) /\ g \in Games
      /\ UNCHANGED <<cmds, nc, sess, ns, boot, proc, ran, reqs>>
  BY QueueAssumption DEF SetAlwaysOn, QueueInv, Tables
<1>2. IsFiniteSet(always')
  BY <1>1, FS_AddElement, FS_RemoveElement
<1>3. TypeOK'
  BY <1>1 DEF QueueInv, Tables, TypeOK
<1>4. ReqsOK'
  BY <1>1 DEF QueueInv, Tables, ReqsOK, Started
<1> QED
  BY <1>1, <1>2, <1>3, <1>4, NoRow

LEMMA RestartKeeps ==
  ASSUME QueueInv, RestartHost
  PROVE  Good /\ Quiet
<1>1. UNCHANGED <<cmds, nc, sess, ns, always, boot, reqs>>
  BY DEF RestartHost
<1>2. TypeOK'
  BY DEF RestartHost, QueueInv, Tables, TypeOK
<1>3. ReqsOK' /\ IsFiniteSet(always)'
  BY <1>1 DEF QueueInv, Tables, ReqsOK, Started
<1> QED
  BY <1>1, <1>2, <1>3, NoRow

-----------------------------------------------------------------------------
(* The takeover of a new boot                                              *)

LEMMA ResetKeeps ==
  ASSUME QueueInv, NEW b \in ran, ResetStaleRuntime(b)
  PROVE  Good /\ Quiet
<1> DEFINE cancelling(c) == /\ cmds[c].type \in Lifecycle /\ cmds[c].status \in InFlight
                            /\ cmds[c].sid \in SessionsIn(Active)
<1>1. /\ sess' = [s \in SessIds |-> IF s \in SessionsIn(Active) THEN Entered(sess[s], "ended")
                                    ELSE sess[s]]
      /\ cmds' = [c \in CmdIds |-> IF cancelling(c) THEN Settled(cmds[c], "cancelled")
                                   ELSE cmds[c]]
      /\ boot' = b /\ UNCHANGED <<nc, ns, always, proc, ran, reqs>>
  BY DEF ResetStaleRuntime, Entered
<1>2. /\ cmds \in [CmdIds -> Command] /\ sess \in [SessIds -> Session]
      /\ nc' \in 0 .. MaxCmds /\ nc =< nc' /\ boot' \in 0 .. MaxBoot
  <2>1. /\ cmds \in [CmdIds -> Command] /\ sess \in [SessIds -> Session]
        /\ nc \in 0 .. MaxCmds /\ ran \subseteq BootIds /\ MaxCmds \in Nat /\ MaxBoot \in Nat
    BY QueueAssumption DEF QueueInv, Tables, TypeOK
  <2> HIDE DEF cancelling
  <2> QED
    BY <1>1, <2>1 DEF BootIds
<1>3. /\ Settling
      /\ \A s \in SessIds : sess'[s].status \in {"ready", "connected"} => sess'[s] = sess[s]
  BY <1>1, EndingSettles DEF QueueInv
<1>4. \A s \in SessIds : sess'[s].status \notin Active
  <2>1. ASSUME NEW s \in SessIds PROVE sess'[s].status \notin Active
    <3>1. CASE s \in SessionsIn(Active)
      <4>1. sess'[s].status = "ended"
        BY <1>1, <1>2, <3>1, EnteredType DEF Over
      <4> QED
        BY <4>1 DEF Active, Stuck
    <3>2. CASE s \notin SessionsIn(Active)
      BY <1>1, <3>2 DEF SessionsIn
    <3> QED
      BY <3>1, <3>2
  <2> QED
    BY <2>1
<1>5. \A s \in SessIds : SessEvolves(sess[s], sess'[s])
  BY <1>3 DEF Settling, Moving
<1>6. ASSUME NEW c \in CmdIds
      PROVE  /\ cmds'[c] \in Command
             /\ c =< nc => RowEvolves(cmds[c], cmds'[c])
             /\ cmds'[c].status # "none" => c =< nc'
             /\ cmds'[c].status = "completed" => cmds[c].status = "completed"
             /\ RowShape(cmds'[c], Started) /\ RowSound(cmds'[c], sess', boot')
  <2>1. CASE cancelling(c)
    <3>1. /\ cmds'[c] = Settled(cmds[c], "cancelled")
          /\ cmds[c].status \in {"pending", "leased"}
          /\ cmds[c].sid \in SessIds /\ cmds[c].sid \in SessionsIn(Active)
      BY <1>1, <2>1 DEF InFlight, SessionsIn
    <3>2. "cancelled" \in Terminal \ {"completed"}
      BY DEF Terminal
    <3>3. sess'[cmds[c].sid].status \in Over
      BY <1>1, <1>2, <3>1, EnteredType DEF Over
    <3>4. \A s \in SessIds : sess'[s].game = sess[s].game
      BY <1>5 DEF SessEvolves
    <3> QED
      BY <1>1, <3>1, <3>2, <3>3, <3>4, SettledRow
  <2>2. CASE ~cancelling(c)
    <3>1. cmds'[c] = cmds[c] /\ cmds[c] \in Command /\ RowEvolves(cmds[c], cmds[c])
      BY <1>1, <1>2, <2>2, SameEvolves
    <3>2. RowShape(cmds[c], Started) /\ RowSound(cmds[c], sess, boot) /\ RowsBelow
      BY DEF QueueInv, Tables, RowsOK
    <3>3. RowSound(cmds[c], sess', boot')
      <4>1. CASE cmds[c].sid = 0
        BY <3>2, <4>1, TypeNames DEF RowShape, RowSound
      <4>2. CASE cmds[c].sid # 0
        <5>1. cmds[c].sid \in SessIds
          BY <3>2, <4>2 DEF RowShape, Started
        <5>2. /\ SessEvolves(sess[cmds[c].sid], sess'[cmds[c].sid])
              /\ sess'[cmds[c].sid].status \notin Active
              /\ sess'[cmds[c].sid].status = "timed_out" => sess[cmds[c].sid].status = "timed_out"
          BY <1>3, <1>4, <1>5, <5>1 DEF Settling
        <5> QED
          BY <3>2, <5>2 DEF RowSound, SessEvolves
      <4> QED
        BY <4>1, <4>2
    <3> QED
      BY <1>1, <3>1, <3>2, <3>3 DEF RowsBelow
  <2> QED
    BY <2>1, <2>2
<1>7. cmds' \in [CmdIds -> Command]
  BY <1>1, <1>6
<1>8. Tables' /\ Singles' /\ Evolves
  BY <1>1, <1>2, <1>3, <1>6, <1>7, ManyRows DEF Settling
<1>9. Promotes
  BY <1>3 DEF Promotes
<1> QED
  BY <1>6, <1>8, <1>9 DEF Good, Quiet

-----------------------------------------------------------------------------
(* Steps that create sessions                                              *)

Growing ==
  /\ sess' \in [SessIds -> Session] /\ ns' \in 0 .. MaxSess /\ ns =< ns'
  /\ \A s \in SessIds :
        /\ s =< ns => /\ SessEvolves(sess[s], sess'[s])
                      /\ sess'[s].status = "timed_out" => sess[s].status = "timed_out"
        /\ sess'[s].status # "none" => s =< ns'

LEMMA GrowingRow ==
  ASSUME QueueInv, Growing, boot' = boot, NEW row \in Command, RowShape(row, Started)
  PROVE  /\ RowShape(row, Started')
         /\ RowSound(row, sess, boot) => RowSound(row, sess', boot')
         /\ row.sid # 0 => row.sid \in SessIds /\ row.sid =< ns
<1>1. \A s \in Started : s \in SessIds /\ s =< ns /\ s \in Started'
  BY DEF Started, QueueInv, Tables, SessBelow, Growing, SessEvolves
<1>2. RowShape(row, Started')
  BY <1>1 DEF RowShape
<1>3. ASSUME RowSound(row, sess, boot) PROVE RowSound(row, sess', boot')
  <2>1. CASE row.sid = 0
    BY <1>3, <2>1 DEF RowShape, RowSound
  <2>2. CASE row.sid # 0
    <3>1. /\ SessEvolves(sess[row.sid], sess'[row.sid])
          /\ sess'[row.sid].status = "timed_out" => sess[row.sid].status = "timed_out"
      BY <1>1, <2>2 DEF RowShape, Growing
    <3> QED
      BY <1>3, <3>1 DEF RowSound, SessEvolves
  <2> QED
    BY <2>1, <2>2
<1> QED
  BY <1>1, <1>2, <1>3 DEF RowShape

LEMMA GrowingTables ==
  ASSUME QueueInv, Growing, cmds' \in [CmdIds -> Command], nc' \in 0 .. MaxCmds, nc =< nc',
         \A c \in CmdIds : /\ c =< nc => RowEvolves(cmds[c], cmds'[c])
                           /\ cmds'[c].status # "none" => c =< nc'
                           /\ RowShape(cmds'[c], Started') /\ RowSound(cmds'[c], sess', boot'),
         UNCHANGED <<always, boot, proc, ran, reqs>>
  PROVE  Tables' /\ Evolves
<1>1. TypeOK'
  BY DEF QueueInv, Tables, TypeOK, Growing
<1>2. Evolves
  BY DEF Evolves, Growing
<1>3. SessBelow' /\ RowsBelow' /\ RowsOK'
  BY DEF SessBelow, RowsBelow, RowsOK, Growing
<1>4. \A s \in Started : s \in Started'
  BY DEF Started, QueueInv, Tables, SessBelow, Growing, SessEvolves
<1>5. ReqsOK'
  BY <1>4 DEF QueueInv, Tables, ReqsOK
<1> QED
  BY <1>1, <1>2, <1>3, <1>5 DEF QueueInv, Tables

\* Sessions that a step queues stops for.
LEMMA SessionSets ==
  ASSUME NEW S, S \subseteq SessIds
  PROVE  IsFiniteSet(S) /\ S \subseteq Int /\ Cardinality(S) \in Nat
<1>1. IsFiniteSet(1 .. MaxSess) /\ 1 .. MaxSess \subseteq Int
  BY FS_Interval, QueueAssumption
<1>2. IsFiniteSet(S)
  BY <1>1, FS_Subset DEF SessIds
<1> QED
  BY <1>1, <1>2, FS_CardinalityType DEF SessIds

\* The stop_game rows after row n, one for each member of V.
Numbered(n, V, d) == CHOOSE s \in V : d = n + At(s, V)

StopOf(n, V, d, u) ==
  LET s == Numbered(n, V, d)
  IN  Row("stop_game", "pending", s, u, sess[s].game, FALSE)

LEMMA StopRow ==
  ASSUME QueueInv, NEW V, V \subseteq SessionsIn(Active), NEW n \in Nat, NEW d \in CmdIds,
         NEW u \in Users, \E s \in V : d = n + At(s, V)
  PROVE  /\ StopOf(n, V, d, u) \in Command /\ StopOf(n, V, d, u).status = "pending"
         /\ RowShape(StopOf(n, V, d, u), Started)
         /\ RowSound(StopOf(n, V, d, u), sess, boot)
         /\ StopOf(n, V, d, u).attempts = 0
         /\ n < d /\ d =< n + Cardinality(V)
<1> DEFINE s == Numbered(n, V, d)
           row == Row("stop_game", "pending", s, u, sess[s].game, FALSE)
<1>1. s \in V /\ d = n + At(s, V)
  BY DEF Numbered
<1> HIDE DEF s
<1>2. s \in SessIds /\ sess[s].status \in Active
  BY <1>1 DEF SessionsIn
<1>3. s \in Started /\ sess[s] \in Session
  BY <1>2 DEF Started, Active, Stuck, QueueInv, Tables, TypeOK
<1>4. s \in 0 .. MaxSess /\ s # 0
  BY <1>2, QueueAssumption DEF SessIds
<1>5. At(s, V) \in 1 .. Cardinality(V) /\ Cardinality(V) \in Nat
  <2>1. V \subseteq SessIds
    BY DEF SessionsIn
  <2> QED
    BY <1>1, <2>1, SessionSets, Position
<1>6. sess[s].game \in Games /\ "stop_game" \in Types /\ "pending" \in CmdStatus
  BY <1>3 DEF Session, Types, Lifecycle, CmdStatus
<1>7. IsRow(row, "stop_game", "pending", s, sess[s].game) /\ ~row.resident
  BY <1>4, <1>6, RowType
<1>8. row = StopOf(n, V, d, u)
  BY DEF StopOf, s
<1> HIDE DEF row
<1>9. RowShape(row, Started) /\ RowSound(row, sess, boot)
  BY <1>3, <1>4, <1>7 DEF IsRow, RowShape, RowSound
<1>10. n < d /\ d =< n + Cardinality(V)
  BY <1>1, <1>5
<1> QED
  BY <1>7, <1>8, <1>9, <1>10 DEF IsRow

LEMMA LaunchKeeps ==
  ASSUME QueueInv, NEW c \in CmdIds, PublishLaunch(c)
  PROVE  Good /\ Quiet
<1> DEFINE u == cmds[c].user
           V == {s \in SessionsIn(Active) : sess[s].user = u}
           added(d) == \E s \in V : d = nc + At(s, V)
           stop(d) == StopOf(nc, V, d, u)
           cancelling(d) == /\ \E s \in V : sess[s].cmd = d
                            /\ cmds[d].status \in {"preparing", "pending", "leased"}
           start == [cmds[c] EXCEPT !.status = "pending", !.sid = ns + 1]
<1>1. /\ cmds[c].status = "preparing" /\ cmds[c].sid = 0
      /\ nc + Cardinality(V) =< MaxCmds /\ ns < MaxSess
      /\ cmds' = [d \in CmdIds |-> IF d = c THEN start
                                   ELSE IF added(d) THEN stop(d)
                                   ELSE IF cancelling(d) THEN Settled(cmds[d], "cancelled")
                                   ELSE cmds[d]]
      /\ nc' = nc + Cardinality(V)
      /\ sess' = [s \in SessIds |-> IF s = ns + 1 THEN Spawned(u, cmds[c].game, c)
                                    ELSE IF s \in V THEN Entered(sess[s], "ended")
                                    ELSE sess[s]]
      /\ ns' = ns + 1
      /\ UNCHANGED <<always, boot, proc, ran, reqs>>
  BY DEF PublishLaunch, Entered, StopOf, Numbered
<1>2. /\ cmds \in [CmdIds -> Command] /\ sess \in [SessIds -> Session]
      /\ nc \in 0 .. MaxCmds /\ ns \in 0 .. MaxSess /\ MaxCmds \in Nat /\ MaxSess \in Nat
  BY QueueAssumption DEF QueueInv, Tables, TypeOK
<1>3. /\ cmds[c] \in Command /\ u \in Users /\ cmds[c].game \in Games /\ c \in 0 .. MaxCmds
      /\ ns + 1 \in SessIds /\ ns + 1 \in 0 .. MaxSess /\ ns + 1 # 0
  BY <1>1, <1>2 DEF Command, SessIds, CmdIds
<1>4. V \subseteq SessionsIn(Active) /\ V \subseteq SessIds /\ Cardinality(V) \in Nat
  <2>1. V \subseteq SessionsIn(Active) /\ V \subseteq SessIds
    BY DEF SessionsIn
  <2> QED
    BY <2>1, SessionSets
<1>5. \A s \in V : s \in SessIds /\ sess[s].status \in Active /\ s =< ns
  BY DEF SessionsIn, QueueInv, Tables, SessBelow, Active, Stuck
<1>6. /\ c =< nc /\ RowShape(cmds[c], Started)
      /\ cmds[c].type = "start_game" /\ ~cmds[c].resident
  BY <1>1 DEF QueueInv, Tables, RowsBelow, RowsOK, RowShape
<1>7. ASSUME NEW d \in CmdIds, added(d)
      PROVE  /\ stop(d) \in Command /\ stop(d).status = "pending"
             /\ RowShape(stop(d), Started) /\ RowSound(stop(d), sess, boot)
             /\ ~(d =< nc) /\ d =< nc'
  <2>1. /\ stop(d) \in Command /\ stop(d).status = "pending"
        /\ RowShape(stop(d), Started) /\ RowSound(stop(d), sess, boot)
        /\ nc < d /\ d =< nc + Cardinality(V)
    <3> HIDE DEF V, u
    <3>1. \E s \in V : d = nc + At(s, V)
      BY <1>7
    <3>2. nc \in Nat
      BY <1>2
    <3> QED
      BY <1>3, <1>4, <3>1, <3>2, StopRow
  <2> HIDE DEF stop, V
  <2> QED
    BY <1>1, <1>2, <1>4, <2>1 DEF CmdIds
<1>8. ASSUME NEW d \in CmdIds, cancelling(d)
      PROVE  /\ cmds[d].sid \in V /\ d =< nc
             /\ cmds[d].status \in {"pending", "leased"}
  <2>1. PICK s \in V : sess[s].cmd = d
    BY <1>8
  <2>2. sess[s].status # "none"
    BY <1>5 DEF Active, Stuck
  <2> QED
    BY <1>5, <1>8, <2>1, <2>2
    DEF QueueInv, Singles, SessionsNameStarts, NamesStart
<1> HIDE DEF V, added, stop, cancelling
<1>9. ASSUME NEW s \in SessIds
      PROVE  /\ sess'[s] \in Session
             /\ s = ns + 1 => sess'[s] = Spawned(u, cmds[c].game, c)
             /\ s \in V => sess'[s].status = "ended"
             /\ s # ns + 1 => /\ SessEvolves(sess[s], sess'[s])
                              /\ sess'[s].status # sess[s].status =>
                                   sess'[s].status = "ended" /\ s \in V
  <2>1. CASE s = ns + 1
    <3>1. sess'[s] = Spawned(u, cmds[c].game, c) /\ s \notin V
      BY <1>1, <1>2, <1>5, <2>1
    <3> QED
      BY <1>3, <2>1, <3>1, SpawnedType
  <2>2. CASE s # ns + 1 /\ s \in V
    <3>1. "ended" \in Over /\ "ended" \in Active \cup Over
      BY DEF Over
    <3>2. sess'[s] = Entered(sess[s], "ended") /\ sess[s] \in Session
      BY <1>1, <1>2, <2>2
    <3> QED
      BY <1>5, <2>2, <3>1, <3>2, EnteredType, EndedEvolves
  <2>3. CASE s # ns + 1 /\ s \notin V
    <3>1. sess'[s] = sess[s] /\ sess[s] \in Session
      BY <1>1, <1>2, <2>3
    <3> QED
      BY <2>3, <3>1, SameEvolves
  <2> QED
    BY <2>1, <2>2, <2>3
<1>10. Growing
  <2>1. ASSUME NEW s \in SessIds
        PROVE  /\ s =< ns => /\ SessEvolves(sess[s], sess'[s])
                             /\ sess'[s].status = "timed_out" => sess[s].status = "timed_out"
               /\ sess'[s].status # "none" => s =< ns'
    <3>1. CASE s = ns + 1
      BY <1>1, <1>2, <3>1
    <3>2. CASE s # ns + 1
      <4>1. sess[s].status # "none" => s =< ns
        BY DEF QueueInv, Tables, SessBelow
      <4>2. s =< ns => s =< ns'
        BY <1>1, <1>2 DEF SessIds
      <4> QED
        BY <1>9, <3>2, <4>1, <4>2 DEF SessEvolves
    <3> QED
      BY <3>1, <3>2
  <2>2. sess' \in [SessIds -> Session]
    <3>1. \E f : sess' = [s \in SessIds |-> f[s]]
      BY <1>1
    <3> QED
      BY <1>1, <1>9
  <2>3. ns' \in 0 .. MaxSess /\ ns =< ns'
    BY <1>1, <1>2
  <2> QED
    BY <2>1, <2>2, <2>3 DEF Growing
<1>11. start \in Command /\ start.status = "pending" /\ start.type = "start_game"
       /\ start.sid = ns + 1 /\ ~start.resident /\ start.resident = cmds[c].resident
       /\ start.game = cmds[c].game /\ start.attempts = cmds[c].attempts
  BY <1>3, <1>6 DEF Command, CmdStatus
<1>12. ns + 1 \in Started' /\ sess'[ns + 1].game = cmds[c].game
  BY <1>3, <1>9, SpawnedType DEF Started
<1> HIDE DEF start
<1>13. /\ RowEvolves(cmds[c], start) /\ RowShape(start, Started')
       /\ RowSound(start, sess', boot')
  BY <1>1, <1>3, <1>6, <1>11, <1>12, SameEvolves DEF RowEvolves, RowShape, RowSound, Terminal
<1>14. ASSUME NEW d \in CmdIds
       PROVE  /\ cmds'[d] \in Command
              /\ d =< nc => RowEvolves(cmds[d], cmds'[d])
              /\ cmds'[d].status # "none" => d =< nc'
              /\ cmds'[d].status = "completed" => cmds[d].status = "completed"
              /\ RowShape(cmds'[d], Started') /\ RowSound(cmds'[d], sess', boot')
  <2>1. CASE d = c
    <3>1. cmds'[d] = start /\ d =< nc'
      BY <1>1, <1>2, <1>4, <1>6, <2>1 DEF CmdIds
    <3> QED
      BY <1>11, <1>13, <2>1, <3>1
  <2>2. CASE d # c /\ added(d)
    <3>1. cmds'[d] = stop(d)
      BY <1>1, <2>2
    <3> QED
      BY <1>1, <1>7, <1>10, <2>2, <3>1, GrowingRow
  <2>3. CASE d # c /\ ~added(d) /\ cancelling(d)
    <3>1. cmds'[d] = Settled(cmds[d], "cancelled")
      BY <1>1, <2>3
    <3>2. /\ cmds[d].sid \in V /\ d =< nc /\ cmds[d].status \in {"pending", "leased"}
          /\ "cancelled" \in Terminal \ {"completed"} /\ d =< nc'
      BY <1>1, <1>2, <1>4, <1>8, <2>3 DEF Terminal, CmdIds
    <3>3. sess'[cmds[d].sid].status \in Over
      BY <1>5, <1>9, <3>2 DEF Over
    <3>4. \A s \in SessIds : s =< ns => sess'[s].game = sess[s].game
      BY <1>10 DEF Growing, SessEvolves
    <3>5. /\ cmds'[d].status = "cancelled"
          /\ cmds'[d] \in Command /\ RowEvolves(cmds[d], cmds'[d]) /\ RowShape(cmds'[d], Started)
          /\ RowSound(cmds'[d], sess', boot')
      BY <3>1, <3>2, <3>3, <3>4, SettledRow
    <3> QED
      BY <1>1, <1>10, <3>2, <3>5, GrowingRow
  <2>4. CASE d # c /\ ~added(d) /\ ~cancelling(d)
    <3>1. cmds'[d] = cmds[d] /\ cmds[d] \in Command /\ RowEvolves(cmds[d], cmds[d])
      BY <1>1, <1>2, <2>4, SameEvolves
    <3>2. RowShape(cmds[d], Started) /\ RowSound(cmds[d], sess, boot)
          /\ (cmds[d].status # "none" => d =< nc')
      BY <1>1, <1>2, <1>4 DEF QueueInv, Tables, RowsOK, RowsBelow, CmdIds
    <3> QED
      BY <1>1, <1>10, <3>1, <3>2, GrowingRow
  <2> QED
    BY <2>1, <2>2, <2>3, <2>4
<1>15. cmds' \in [CmdIds -> Command]
  BY <1>1, <1>14
<1>16. nc' \in 0 .. MaxCmds /\ nc =< nc'
  BY <1>1, <1>2, <1>4
<1>17. Tables' /\ Evolves
  BY <1>1, <1>10, <1>14, <1>15, <1>16, GrowingTables
<1>18. Singles'
  <2> PICK n \in SessIds : n = ns + 1
    BY <1>3
  <2>1. /\ sess'[n].cmd = c /\ sess'[n].user = u /\ cmds'[c] = start
    BY <1>1, <1>3, <1>9, SpawnedType
  <2>2. NamesStart(n)' /\ ~Resident(n)'
    BY <1>2, <1>6, <1>11, <1>16, <2>1 DEF NamesStart, Resident, CmdIds
  <2>3. \A s \in SessIds : s =< ns \/ sess'[s].status = "none" \/ NamesStart(s)'
    <3>1. \A s \in SessIds : s =< ns \/ s = n \/ sess'[s].status = "none"
      BY <1>9 DEF QueueInv, Tables, SessBelow, SessEvolves
    <3> QED
      BY <2>2, <3>1
  <2>4. ASSUME NEW r \in SessIds, NEW s \in SessIds, r # s, ~(s =< ns),
               sess'[r].status \in Active, sess'[s].status \in Active
        PROVE  Excludes(r, s)' /\ Excludes(s, r)'
    <3>1. s = n
      BY <1>9, <2>4 DEF QueueInv, Tables, SessBelow, SessEvolves, Active, Stuck
    <3>2. r # n
      BY <2>4, <3>1
    <3>3. r \notin V /\ sess[r].status \in Active /\ sess'[r].user = sess[r].user
      BY <1>9, <2>4, <3>2 DEF SessEvolves, Active, Stuck
    <3>4. sess'[r].user # sess'[s].user
      BY <2>1, <3>1, <3>3 DEF V, SessionsIn
    <3> QED
      BY <2>2, <3>1, <3>4 DEF Excludes
  <2>5. nc' \in Nat
    BY <1>16
  <2> QED
    BY <1>17, <2>3, <2>4, <2>5, NewSessions
<1>19. Promotes
  <2> SUFFICES ASSUME NEW s \in SessIds, sess'[s].status # sess[s].status,
                      sess'[s].status \in {"ready", "connected"}
               PROVE  FALSE
    BY DEF Promotes
  <2>1. CASE s = ns + 1
    BY <1>3, <1>9, <2>1, SpawnedType
  <2>2. CASE s # ns + 1
    BY <1>9, <2>2
  <2> QED
    BY <2>1, <2>2
<1> QED
  BY <1>14, <1>17, <1>18, <1>19 DEF Good, Quiet

-----------------------------------------------------------------------------
(* The main poll transaction                                               *)

LEMMA SweptRow ==
  ASSUME NEW cs, NEW ss, NEW c \in CmdIds
  PROVE  LET n   == Swept(cs, ss)[c]
             row == cs[c]
         IN  \/ /\ n = row
                /\ row.type \in Lifecycle /\ row.status \in InFlight /\ row.sid # 0
                     => ss[row.sid].status \notin Over
             \/ /\ n = Settled(row, "cancelled")
                /\ row.status \in InFlight /\ row.sid # 0 /\ ss[row.sid].status \in Over
             \/ n = Settled(row, "failed") /\ row.status \in InFlight
<1> DEFINE row == cs[c]
           over == row.sid # 0 /\ ss[row.sid].status \in Over
           active == row.sid # 0 /\ ss[row.sid].status \in Active
<1>1. Swept(cs, ss)[c] =
        IF row.type \in Lifecycle /\ row.status \in InFlight /\ over
        THEN Settled(row, "cancelled")
        ELSE IF row.type \in {"start_game", "sdp_offer"} /\ Due(row) /\ ~active
        THEN Settled(row, "failed")
        ELSE row
  BY DEF Swept
<1>2. Due(row) => row.status \in InFlight
  BY DEF Due, InFlight
<1> HIDE DEF row
<1>3. CASE row.type \in Lifecycle /\ row.status \in InFlight /\ over
  BY <1>1, <1>3 DEF row
<1>4. CASE ~(row.type \in Lifecycle /\ row.status \in InFlight /\ over)
  BY <1>1, <1>2, <1>4 DEF row
<1> QED
  BY <1>3, <1>4

LEMMA LeasedRow ==
  ASSUME NEW cs, NEW b, NEW c \in CmdIds
  PROVE  LET n   == Leased(cs, b)[c]
             row == cs[c]
         IN  \/ n = row
             \/ n = Settled(row, "failed") /\ Due(row)
             \/ /\ n = [row EXCEPT !.status = "leased", !.attempts = @ + 1,
                                   !.expired = FALSE, !.to = b]
                /\ Due(row) /\ ~(row.attempts >= MaxAttempts)
<1> DEFINE due       == {d \in CmdIds : Due(cs[d])}
           scanned   == {d \in due : Cardinality({e \in due : Before(cs, e, d)}) < ScanSize}
           exhausted == {d \in scanned : cs[d].attempts >= MaxAttempts}
           leaseable == scanned \ exhausted
           chosen    == {d \in leaseable : \A e \in leaseable : ~Before(cs, e, d)}
<1>1. Leased(cs, b)[c] =
        IF c \in exhausted THEN Settled(cs[c], "failed")
        ELSE IF c \in chosen
        THEN [cs[c] EXCEPT !.status = "leased", !.attempts = @ + 1,
                           !.expired = FALSE, !.to = b]
        ELSE cs[c]
  BY DEF Leased
<1>2. c \in exhausted => Due(cs[c])
  OBVIOUS
<1>3. c \in chosen => Due(cs[c]) /\ ~(cs[c].attempts >= MaxAttempts)
  OBVIOUS
<1> HIDE DEF due, scanned, exhausted, leaseable, chosen
<1> QED
  BY <1>1, <1>2, <1>3

LEMMA EvolvesOn ==
  ASSUME NEW o \in Command, NEW m \in Command, NEW n \in Command, RowEvolves(o, m), RowEvolves(m, n)
  PROVE  RowEvolves(o, n)
<1> QED
  BY QueueAssumption DEF RowEvolves, Terminal, Command

\* What sweeping and leasing make of a row that is in order.
LEMMA PolledRow ==
  ASSUME NEW cs, NEW ss, NEW b \in 0 .. MaxBoot, NEW c \in CmdIds, NEW S,
         cs[c] \in Command, RowShape(cs[c], S), RowSound(cs[c], ss, b)
  PROVE  LET n == Leased(Swept(cs, ss), b)[c]
         IN  /\ n \in Command /\ RowEvolves(cs[c], n) /\ RowShape(n, S) /\ RowSound(n, ss, b)
             /\ n.status = "completed" => cs[c].status = "completed"
             /\ n.attempts > cs[c].attempts =>
                  /\ n.status = "leased"
                  /\ n.type \in Lifecycle => ss[n.sid].status \notin Over
<1> DEFINE o == cs[c]
           m == Swept(cs, ss)[c]
           n == Leased(Swept(cs, ss), b)[c]
<1>1. o \in Command
  OBVIOUS
<1>2. /\ "cancelled" \in Terminal \ {"completed"} /\ "failed" \in Terminal \ {"completed"}
      /\ "cancelled" \in CmdStatus /\ "failed" \in CmdStatus
  BY DEF Terminal, CmdStatus
<1>3. /\ m \in Command /\ RowEvolves(o, m) /\ RowShape(m, S) /\ RowSound(m, ss, b)
      /\ m.type \in Lifecycle /\ m.status \in InFlight => ss[m.sid].status \notin Over
      /\ m.attempts = o.attempts /\ (m.status = "completed" => o.status = "completed")
  <2>1. CASE /\ m = o
             /\ o.type \in Lifecycle /\ o.status \in InFlight /\ o.sid # 0
                  => ss[o.sid].status \notin Over
    <3>1. o.type \in Lifecycle /\ o.status \in InFlight => o.sid # 0
      BY DEF RowShape, InFlight
    <3> HIDE DEF o, m
    <3> QED
      BY <2>1, <3>1, SameEvolves DEF o
  <2>2. CASE /\ m = Settled(o, "cancelled")
             /\ o.status \in InFlight /\ o.sid # 0 /\ ss[o.sid].status \in Over
    <3>1. o.status \in {"pending", "leased"} /\ o \in Command /\ RowShape(o, S)
      BY <2>2 DEF InFlight
    <3>2. o.sid # 0 => o.game = ss[o.sid].game
      BY DEF RowSound
    <3> HIDE DEF o, m
    <3>3. m.status = "cancelled" /\ m.attempts = o.attempts
      BY <1>2, <2>2, <3>1, SettledType
    <3> QED
      BY <1>2, <2>2, <3>1, <3>2, <3>3, SettledKept DEF InFlight
  <2>3. CASE m = Settled(o, "failed") /\ o.status \in InFlight
    <3>1. o.status \in {"pending", "leased"} /\ o \in Command /\ RowShape(o, S)
      BY <2>3 DEF InFlight
    <3>2. o.sid # 0 => o.game = ss[o.sid].game
      BY DEF RowSound
    <3> HIDE DEF o, m
    <3>3. m.status = "failed" /\ m.attempts = o.attempts
      BY <1>2, <2>3, <3>1, SettledType
    <3> QED
      BY <1>2, <2>3, <3>1, <3>2, <3>3, SettledKept DEF InFlight
  <2> QED
    BY <2>1, <2>2, <2>3, SweptRow
<1>4. \/ n = m
      \/ n = Settled(m, "failed") /\ Due(m)
      \/ /\ n = [m EXCEPT !.status = "leased", !.attempts = @ + 1, !.expired = FALSE, !.to = b]
         /\ Due(m) /\ ~(m.attempts >= MaxAttempts)
  BY LeasedRow
<1> HIDE DEF o, m, n
<1>5. Due(m) => m.status \in {"pending", "leased"}
  BY DEF Due
<1>6. /\ n \in Command /\ RowEvolves(m, n) /\ RowShape(n, S) /\ RowSound(n, ss, b)
      /\ n.status = "completed" => m.status = "completed"
      /\ n.attempts > m.attempts =>
           /\ n.status = "leased"
           /\ n.type \in Lifecycle => ss[n.sid].status \notin Over
  <2>1. CASE n = m
    <3>1. ~(m.attempts > m.attempts)
      BY <1>3, QueueAssumption DEF Command
    <3> QED
      BY <1>3, <2>1, <3>1, SameEvolves
  <2>2. CASE n = Settled(m, "failed") /\ Due(m)
    <3>1. m.sid # 0 => m.game = ss[m.sid].game
      BY <1>3 DEF RowSound
    <3>2. n.attempts = m.attempts /\ ~(m.attempts > m.attempts)
      <4>1. m.attempts \in Int
        BY <1>3, QueueAssumption DEF Command
      <4>2. n.attempts = m.attempts
        BY <1>2, <1>3, <2>2, SettledType
      <4> QED
        BY <4>1, <4>2
    <3>3. n.status = "failed"
      BY <1>2, <1>3, <1>5, <2>2, SettledKept
    <3> QED
      BY <1>2, <1>3, <1>5, <2>2, <3>1, <3>2, <3>3, SettledKept
  <2>3. CASE /\ n = [m EXCEPT !.status = "leased", !.attempts = @ + 1,
                              !.expired = FALSE, !.to = b]
             /\ Due(m) /\ ~(m.attempts >= MaxAttempts)
    <3>1. m.attempts + 1 \in 0 .. MaxAttempts /\ m.attempts + 1 >= m.attempts
      BY <1>3, <2>3, QueueAssumption DEF Command
    <3>2. /\ n \in Command /\ n.status = "leased" /\ n.type = m.type /\ n.sid = m.sid
          /\ n.resident = m.resident /\ n.to = b /\ n.game = m.game
          /\ n.attempts = m.attempts + 1
      BY <1>3, <2>3, <3>1 DEF Command, CmdStatus
    <3>3. RowEvolves(m, n) /\ RowShape(n, S)
      BY <1>3, <1>5, <2>3, <3>1, <3>2 DEF RowEvolves, RowShape, Terminal
    <3>4. RowSound(n, ss, b) /\ (n.type \in Lifecycle => ss[n.sid].status \notin Over)
      BY <1>3, <1>5, <2>3, <3>2 DEF RowSound, InFlight, Over
    <3> QED
      BY <3>2, <3>3, <3>4
  <2> QED
    BY <1>4, <2>1, <2>2, <2>3
<1>7. RowEvolves(o, n)
  BY <1>3, <1>6, <1>1, EvolvesOn
<1> QED
  BY <1>3, <1>6, <1>7 DEF o, n

\* The games and sessions a poll converges, and the numbers of the rows it inserts.
LEMMA Convergence ==
  ASSUME QueueInv
  PROVE  /\ Starts \subseteq Missing /\ Starts \subseteq Games
         /\ IsFiniteSet(Starts) /\ Starts \subseteq Int /\ Cardinality(Starts) \in Nat
         /\ Stops \subseteq SessionsIn(Active) /\ Stops \subseteq SessIds
         /\ Cardinality(Stops) \in Nat
         /\ nc + Cardinality(Starts) + Cardinality(Stops) =< MaxCmds
         /\ ns + Cardinality(Starts) =< MaxSess
<1>1. /\ always \subseteq Games /\ IsFiniteSet(always) /\ Games \subseteq Int
      /\ nc \in 0 .. MaxCmds /\ ns \in 0 .. MaxSess /\ MaxCmds \in Nat /\ MaxSess \in Nat
  BY QueueAssumption DEF QueueInv, Tables, TypeOK
<1>2. Missing \subseteq always /\ Defunct \subseteq SessionsIn(Active)
  BY DEF Missing, Defunct
<1>3. /\ Starts \subseteq Missing /\ Starts \subseteq always
      /\ Stops \subseteq SessionsIn(Active) /\ Stops \subseteq SessIds
  BY <1>2 DEF Starts, Stops, SessionsIn
<1>4. IsFiniteSet(Starts) /\ Cardinality(Starts) \in Nat
  BY <1>1, <1>3, FS_Subset, FS_CardinalityType
<1>5. Cardinality(Stops) \in Nat
  BY <1>3, SessionSets
<1>6. /\ nc + Cardinality(Starts) + Cardinality(Stops) =< MaxCmds
      /\ ns + Cardinality(Starts) =< MaxSess
  <2>1. CASE Room
    BY <2>1 DEF Room, Starts, Stops
  <2>2. CASE ~Room
    <3>1. Cardinality(Starts) = 0 /\ Cardinality(Stops) = 0
      BY <2>2, FS_EmptySet DEF Starts, Stops
    <3> QED
      BY <1>1, <3>1
  <2> QED
    BY <2>1, <2>2
<1> QED
  BY <1>1, <1>3, <1>4, <1>5, <1>6

\* The start_game row and the session of a game that is started.
LEMMA StartedGame ==
  ASSUME QueueInv, NEW n \in Nat, NEW d, \E g \in Starts : d = n + At(g, Starts)
  PROVE  LET g == Numbered(n, Starts, d)
         IN  /\ g \in Starts /\ g \in Games /\ d = n + At(g, Starts)
             /\ At(g, Starts) \in 1 .. Cardinality(Starts)
             /\ nc + At(g, Starts) \in 1 .. nc + Cardinality(Starts)
             /\ nc + At(g, Starts) \in CmdIds
             /\ ns + At(g, Starts) \in SessIds
<1> DEFINE g == Numbered(n, Starts, d)
<1>1. g \in Starts /\ d = n + At(g, Starts)
  BY DEF Numbered
<1> HIDE DEF g
<1>2. At(g, Starts) \in 1 .. Cardinality(Starts) /\ g \in Games
  BY <1>1, Convergence, Position
<1>3. nc \in 0 .. MaxCmds /\ ns \in 0 .. MaxSess /\ MaxCmds \in Nat /\ MaxSess \in Nat
  BY QueueAssumption DEF QueueInv, Tables, TypeOK
<1> QED
  BY <1>1, <1>2, <1>3, Convergence DEF g, CmdIds, SessIds

LEMMA NumberedOnce ==
  ASSUME QueueInv, NEW n \in Nat, NEW g \in Starts
  PROVE  Numbered(n, Starts, n + At(g, Starts)) = g
<1> DEFINE h == Numbered(n, Starts, n + At(g, Starts))
<1>1. h \in Starts /\ n + At(g, Starts) = n + At(h, Starts)
  BY DEF Numbered
<1> HIDE DEF h
<1>2. At(g, Starts) \in Nat /\ At(h, Starts) \in Nat
  BY <1>1, Convergence, Position
<1>3. At(g, Starts) = At(h, Starts)
  BY <1>1, <1>2
<1>4. g = h
  BY <1>1, <1>3, Convergence, Positions
<1> QED
  BY <1>4 DEF h

StartOf(d) ==
  LET g == Numbered(nc, Starts, d)
  IN  Row("start_game", "pending", ns + At(g, Starts), Owner, g, TRUE)

SpawnOf(s) ==
  LET g == Numbered(ns, Starts, s)
  IN  Spawned(Owner, g, nc + At(g, Starts))

LEMMA Converged ==
  /\ \A d \in CmdIds : ConvergedCmds[d] =
       IF \E g \in Starts : d = nc + At(g, Starts) THEN StartOf(d)
       ELSE IF \E s \in Stops : d = nc + Cardinality(Starts) + At(s, Stops)
       THEN StopOf(nc + Cardinality(Starts), Stops, d, Owner)
       ELSE cmds[d]
  /\ \A s \in SessIds : ConvergedSess[s] =
       IF \E g \in Starts : s = ns + At(g, Starts) THEN SpawnOf(s) ELSE sess[s]
<1> QED
  BY DEF ConvergedCmds, ConvergedSess, StartOf, SpawnOf, StopOf, Numbered

LEMMA PollSessions ==
  ASSUME QueueInv, sess' = ConvergedSess, ns' = ns + Cardinality(Starts)
  PROVE  /\ Growing
         /\ \A s \in SessIds :
              \/ s =< ns /\ sess'[s] = sess[s]
              \/ sess'[s] = sess[s] /\ sess'[s].status = "none"
              \/ /\ ~(s =< ns) /\ sess'[s].status = "spawning" /\ s \in Started'
                 /\ \E g \in Starts : s = ns + At(g, Starts) /\ sess'[s] = SpawnOf(s)
<1>1. /\ sess \in [SessIds -> Session] /\ ns \in 0 .. MaxSess /\ MaxSess \in Nat
      /\ nc \in 0 .. MaxCmds /\ MaxCmds \in Nat
  BY QueueAssumption DEF QueueInv, Tables, TypeOK
<1>2. ASSUME NEW s \in SessIds
      PROVE  /\ sess'[s] \in Session
             /\ \/ s =< ns /\ sess'[s] = sess[s]
                \/ sess'[s] = sess[s] /\ sess'[s].status = "none"
                \/ /\ ~(s =< ns) /\ sess'[s].status = "spawning" /\ s \in Started'
                   /\ \E g \in Starts : s = ns + At(g, Starts) /\ sess'[s] = SpawnOf(s)
             /\ sess'[s].status # "none" => s =< ns'
  <2>1. CASE \E g \in Starts : s = ns + At(g, Starts)
    <3> DEFINE g == Numbered(ns, Starts, s)
    <3>1. /\ g \in Starts /\ g \in Games /\ s = ns + At(g, Starts)
          /\ At(g, Starts) \in 1 .. Cardinality(Starts) /\ nc + At(g, Starts) \in CmdIds
      BY <1>1, <2>1, StartedGame
    <3>2. sess'[s] = Spawned(Owner, g, nc + At(g, Starts))
      BY <2>1, Converged DEF SpawnOf
    <3> HIDE DEF g
    <3>3. nc + At(g, Starts) \in 0 .. MaxCmds
      BY <3>1 DEF CmdIds
    <3>4. sess'[s] \in Session /\ sess'[s].status = "spawning"
      BY <3>1, <3>2, <3>3, TypeNames, SpawnedType
    <3>5. ~(s =< ns) /\ s =< ns'
      BY <1>1, <3>1, Convergence
    <3>6. s \in Started' /\ sess'[s] = SpawnOf(s)
      BY <2>1, <3>4, Converged DEF Started
    <3> QED
      BY <2>1, <3>4, <3>5, <3>6
  <2>2. CASE ~ \E g \in Starts : s = ns + At(g, Starts)
    <3>1. sess'[s] = sess[s] /\ sess[s] \in Session
      BY <1>1, <2>2, Converged
    <3>2. sess[s].status # "none" => s =< ns
      BY DEF QueueInv, Tables, SessBelow
    <3>3. s =< ns => s =< ns'
      BY <1>1, Convergence DEF SessIds
    <3> QED
      BY <3>1, <3>2, <3>3
  <2> QED
    BY <2>1, <2>2
<1>3. sess' \in [SessIds -> Session]
  <2>1. \E f : sess' = [s \in SessIds |-> f[s]]
    BY DEF ConvergedSess
  <2> QED
    BY <1>2, <2>1
<1>4. ns' \in 0 .. MaxSess /\ ns =< ns'
  BY <1>1, Convergence
<1>5. \A s \in SessIds : s =< ns => sess'[s] = sess[s]
  BY <1>2 DEF QueueInv, Tables, SessBelow
<1>6. Growing
  BY <1>1, <1>2, <1>3, <1>4, <1>5, SameEvolves DEF Growing
<1> QED
  BY <1>2, <1>6

LEMMA PollRows ==
  ASSUME QueueInv, sess' = ConvergedSess, ns' = ns + Cardinality(Starts), boot' = boot,
         nc' = nc + Cardinality(Starts) + Cardinality(Stops), NEW d \in CmdIds
  PROVE  LET row == ConvergedCmds[d]
         IN  /\ row \in Command
             /\ row.status # "none" => d =< nc'
             /\ d =< nc => row = cmds[d]
             /\ row.attempts =< cmds[d].attempts
             /\ row.status = "completed" => cmds[d].status = "completed"
             /\ RowShape(row, Started') /\ RowSound(row, sess', boot')
             /\ (\E g \in Starts : d = nc + At(g, Starts)) =>
                  /\ row = StartOf(d) /\ row.type = "start_game" /\ row.status = "pending"
                  /\ row.resident /\ row.sid = d - nc + ns
<1>1. /\ cmds \in [CmdIds -> Command] /\ ns \in 0 .. MaxSess /\ MaxSess \in Nat
      /\ nc \in 0 .. MaxCmds /\ MaxCmds \in Nat /\ d \in Nat
  BY QueueAssumption DEF QueueInv, Tables, TypeOK, CmdIds
<1>2. Growing
  BY PollSessions
<1> DEFINE row == ConvergedCmds[d]
<1>6. cmds[d].attempts \in 0 .. MaxAttempts /\ 0 =< cmds[d].attempts
      /\ cmds[d].attempts =< cmds[d].attempts
  BY <1>1, QueueAssumption DEF Command
<1>3. CASE \E g \in Starts : d = nc + At(g, Starts)
  <2> DEFINE g == Numbered(nc, Starts, d)
  <2>1. /\ g \in Starts /\ g \in Games /\ d = nc + At(g, Starts)
        /\ At(g, Starts) \in 1 .. Cardinality(Starts) /\ ns + At(g, Starts) \in SessIds
    BY <1>1, <1>3, StartedGame
  <2>2. row = Row("start_game", "pending", ns + At(g, Starts), Owner, g, TRUE) /\ row = StartOf(d)
    BY <1>3, Converged DEF StartOf
  <2> HIDE DEF g
  <2>3. ns + At(g, Starts) \in Started' /\ sess'[ns + At(g, Starts)].game = g
    <3>1. ~(ns + At(g, Starts) =< ns)
      BY <1>1, <2>1
    <3>2. ConvergedSess[ns + At(g, Starts)] = SpawnOf(ns + At(g, Starts))
      BY <2>1, Converged
    <3>3. Numbered(ns, Starts, ns + At(g, Starts)) = g /\ nc + At(g, Starts) \in CmdIds
      BY <1>1, <1>3, <2>1, NumberedOnce
    <3>4. sess'[ns + At(g, Starts)] = Spawned(Owner, g, nc + At(g, Starts))
      BY <3>2, <3>3 DEF SpawnOf
    <3>5. /\ sess'[ns + At(g, Starts)].status = "spawning"
          /\ sess'[ns + At(g, Starts)].game = g
      BY <3>4 DEF Spawned
    <3> QED
      BY <2>1, <3>5 DEF Started
  <2>4. ns + At(g, Starts) \in 0 .. MaxSess /\ "pending" \in CmdStatus
    BY <2>1 DEF SessIds, CmdStatus
  <2> HIDE DEF row
  <2>5. IsRow(row, "start_game", "pending", ns + At(g, Starts), g) /\ row.resident
    <3> DEFINE new == Row("start_game", "pending", ns + At(g, Starts), Owner, g, TRUE)
    <3>1. IsRow(new, "start_game", "pending", ns + At(g, Starts), g) /\ new.resident
      BY <2>1, <2>4, TypeNames, RowType
    <3>2. row = new
      BY <2>2
    <3> HIDE DEF new
    <3> QED
      BY <3>1, <3>2
  <2>6. /\ row \in Command /\ row.type = "start_game" /\ row.status = "pending"
        /\ row.sid = ns + At(g, Starts) /\ row.sid = d - nc + ns /\ row.game = g
        /\ row.attempts = 0
    BY <1>1, <2>1, <2>5 DEF IsRow
  <2>7. RowShape(row, Started') /\ RowSound(row, sess', boot')
    BY <1>1, <2>1, <2>3, <2>5, <2>6 DEF RowShape, RowSound
  <2>8. ~(d =< nc) /\ d =< nc'
    BY <1>1, <2>1, Convergence
  <2> QED
    BY <1>6, <2>2, <2>5, <2>6, <2>7, <2>8 DEF row
<1>4. ASSUME ~ \E g \in Starts : d = nc + At(g, Starts),
             \E s \in Stops : d = nc + Cardinality(Starts) + At(s, Stops)
      PROVE  /\ row \in Command /\ ~(d =< nc) /\ d =< nc'
             /\ row.attempts = 0 /\ row.status = "pending"
             /\ RowShape(row, Started') /\ RowSound(row, sess', boot')
  <2>1. row = StopOf(nc + Cardinality(Starts), Stops, d, Owner)
    BY <1>4, Converged
  <2>2. nc + Cardinality(Starts) \in Nat
    BY <1>1, Convergence
  <2> HIDE DEF row
  <2>3. /\ row \in Command /\ RowShape(row, Started) /\ RowSound(row, sess, boot)
        /\ row.attempts = 0 /\ row.status = "pending"
        /\ nc + Cardinality(Starts) < d /\ d =< nc + Cardinality(Starts) + Cardinality(Stops)
    BY <1>4, <2>1, <2>2, Convergence, TypeNames, StopRow
  <2>4. RowShape(row, Started') /\ RowSound(row, sess', boot')
    BY <1>2, <2>3, GrowingRow
  <2> QED
    BY <1>1, <2>3, <2>4, Convergence
<1>5. ASSUME ~ \E g \in Starts : d = nc + At(g, Starts),
             ~ \E s \in Stops : d = nc + Cardinality(Starts) + At(s, Stops)
      PROVE  /\ row \in Command /\ row = cmds[d]
             /\ row.status # "none" => d =< nc'
             /\ RowShape(row, Started') /\ RowSound(row, sess', boot')
  <2>1. row = cmds[d]
    BY <1>5, Converged
  <2> HIDE DEF row
  <2>2. /\ row \in Command /\ RowShape(row, Started) /\ RowSound(row, sess, boot)
        /\ row.status # "none" => d =< nc
    BY <1>1, <2>1 DEF QueueInv, Tables, RowsOK, RowsBelow
  <2>3. d =< nc => d =< nc'
    BY <1>1, Convergence
  <2> QED
    BY <1>2, <2>1, <2>2, <2>3, GrowingRow
<1> QED
  BY <1>3, <1>4, <1>5, <1>6

\* What a poll hands out is a live lease, and its session is not over.
Gives ==
  \A c \in CmdIds : cmds'[c].attempts > cmds[c].attempts =>
     /\ cmds'[c].status = "leased"
     /\ cmds'[c].type \in Lifecycle => sess'[cmds'[c].sid].status \notin Over

LEMMA PollKeeps ==
  ASSUME QueueInv, NEW b \in ran, Poll(b)
  PROVE  Good /\ Quiet /\ Gives
<1>1. /\ b = boot /\ sess' = ConvergedSess
      /\ cmds' = Leased(Swept(ConvergedCmds, ConvergedSess), b)
      /\ nc' = nc + Cardinality(Starts) + Cardinality(Stops)
      /\ ns' = ns + Cardinality(Starts)
      /\ UNCHANGED <<always, boot, proc, ran, reqs>>
  BY DEF Poll, Fenced
<1>2. /\ boot \in 0 .. MaxBoot /\ nc \in 0 .. MaxCmds /\ ns \in 0 .. MaxSess
      /\ MaxCmds \in Nat /\ MaxSess \in Nat
  BY QueueAssumption DEF QueueInv, Tables, TypeOK
<1>3. /\ Growing
      /\ \A s \in SessIds :
           \/ s =< ns /\ sess'[s] = sess[s]
           \/ sess'[s] = sess[s] /\ sess'[s].status = "none"
           \/ /\ ~(s =< ns) /\ sess'[s].status = "spawning" /\ s \in Started'
              /\ \E g \in Starts : s = ns + At(g, Starts) /\ sess'[s] = SpawnOf(s)
  BY <1>1, PollSessions
<1>4. ASSUME NEW d \in CmdIds
      PROVE  /\ cmds'[d] \in Command
             /\ d =< nc => RowEvolves(cmds[d], cmds'[d])
             /\ cmds'[d].status # "none" => d =< nc'
             /\ cmds'[d].status = "completed" => cmds[d].status = "completed"
             /\ cmds'[d].attempts > cmds[d].attempts =>
                  /\ cmds'[d].status = "leased"
                  /\ cmds'[d].type \in Lifecycle => sess'[cmds'[d].sid].status \notin Over
             /\ RowShape(cmds'[d], Started') /\ RowSound(cmds'[d], sess', boot')
             /\ (\E g \in Starts : d = nc + At(g, Starts)) =>
                  /\ cmds'[d].type = "start_game" /\ cmds'[d].status # "preparing"
                  /\ cmds'[d].resident /\ cmds'[d].sid = d - nc + ns
  <2> DEFINE row == ConvergedCmds[d]
  <2>1. /\ row \in Command
        /\ row.status # "none" => d =< nc'
        /\ d =< nc => row = cmds[d]
        /\ row.attempts =< cmds[d].attempts
        /\ row.status = "completed" => cmds[d].status = "completed"
        /\ RowShape(row, Started') /\ RowSound(row, sess', boot')
        /\ (\E g \in Starts : d = nc + At(g, Starts)) =>
             /\ row.type = "start_game" /\ row.status = "pending"
             /\ row.resident /\ row.sid = d - nc + ns
    BY <1>1, PollRows
  <2>2. /\ cmds'[d] \in Command /\ RowEvolves(row, cmds'[d])
        /\ RowShape(cmds'[d], Started') /\ RowSound(cmds'[d], sess', boot')
        /\ cmds'[d].status = "completed" => row.status = "completed"
        /\ cmds'[d].attempts > row.attempts =>
             /\ cmds'[d].status = "leased"
             /\ cmds'[d].type \in Lifecycle => sess'[cmds'[d].sid].status \notin Over
    BY <1>1, <1>2, <2>1, PolledRow
  <2> HIDE DEF row
  <2>3. cmds'[d].status # "none" => d =< nc'
    <3>1. CASE row.status = "none"
      <4> DEFINE cs == Swept(ConvergedCmds, ConvergedSess)
      <4>1. cs[d] = row
        BY <3>1, SweptRow DEF InFlight, row
      <4>2. cmds'[d] = Leased(cs, b)[d]
        BY <1>1
      <4> HIDE DEF cs
      <4>3. Leased(cs, b)[d] = row
        BY <3>1, <4>1, LeasedRow DEF Due
      <4> QED
        BY <3>1, <4>2, <4>3
    <3>2. CASE row.status # "none"
      BY <2>1, <3>2
    <3> QED
      BY <3>1, <3>2
  <2>4. cmds'[d].attempts > cmds[d].attempts => cmds'[d].attempts > row.attempts
    BY <2>1, <2>2, QueueAssumption DEF Command, QueueInv, Tables, TypeOK
  <2> QED
    BY <2>1, <2>2, <2>3, <2>4 DEF RowEvolves
<1>5. cmds' \in [CmdIds -> Command]
  <2>1. cmds' = [c \in CmdIds |-> cmds'[c]]
    BY <1>1 DEF Leased
  <2> QED
    BY <1>4, <2>1
<1>6. nc' \in 0 .. MaxCmds /\ nc =< nc'
  BY <1>1, <1>2, Convergence
<1>7. Tables' /\ Evolves
  BY <1>1, <1>3, <1>4, <1>5, <1>6, GrowingTables
<1>8. ASSUME NEW s \in SessIds, ~(s =< ns), sess'[s].status # "none"
      PROVE  /\ NamesStart(s)' /\ Resident(s)' /\ sess'[s].game \in Starts
             /\ s = ns + At(sess'[s].game, Starts)
  <2> DEFINE g == Numbered(ns, Starts, s)
             c == nc + At(g, Starts)
  <2>1. /\ sess'[s] = SpawnOf(s) /\ \E h \in Starts : s = ns + At(h, Starts)
    BY <1>3, <1>8
  <2>2. ns \in Nat
    BY <1>2
  <2>3. /\ g \in Starts /\ g \in Games /\ s = ns + At(g, Starts) /\ c \in CmdIds
        /\ At(g, Starts) \in 1 .. Cardinality(Starts) /\ c \in 1 .. nc + Cardinality(Starts)
    BY <2>1, <2>2, StartedGame
  <2>4. sess'[s] = Spawned(Owner, g, c)
    BY <2>1 DEF SpawnOf
  <2> HIDE DEF g
  <2>5. sess'[s].game = g /\ sess'[s].cmd = c
    <3>1. c \in 0 .. MaxCmds
      BY <2>3 DEF CmdIds
    <3> HIDE DEF c
    <3> QED
      BY <2>3, <2>4, <3>1, TypeNames, SpawnedType
  <2>6. /\ cmds'[c].type = "start_game" /\ cmds'[c].status # "preparing"
        /\ cmds'[c].resident /\ cmds'[c].sid = c - nc + ns
    BY <1>4, <2>3
  <2>7. c - nc + ns = s /\ c \in 1 .. nc'
    BY <1>1, <1>2, <2>3, Convergence
  <2> HIDE DEF c
  <2>8. NamesStart(s)' /\ Resident(s)'
    BY <2>5, <2>6, <2>7 DEF NamesStart, Resident
  <2> QED
    BY <2>3, <2>5, <2>8
<1>9. Singles'
  <2>1. \A s \in SessIds : s =< ns \/ sess'[s].status = "none" \/ NamesStart(s)'
    BY <1>8
  <2>2. ASSUME NEW r \in SessIds, NEW s \in SessIds, r # s, ~(s =< ns),
               sess'[r].status \in Active, sess'[s].status \in Active
        PROVE  Excludes(r, s)' /\ Excludes(s, r)'
    <3>1. /\ Resident(s)' /\ sess'[s].game \in Starts /\ s = ns + At(sess'[s].game, Starts)
      BY <1>8, <2>2 DEF Active, Stuck
    <3>2. sess'[r].game # sess'[s].game
      <4>1. CASE r =< ns
        <5>1. sess[r] = sess'[r]
          BY <1>3, <4>1
        <5>2. \A t \in SessionsIn(Active) : sess[t].game # sess'[s].game
          BY <3>1, Convergence DEF Missing
        <5> QED
          BY <2>2, <5>1, <5>2 DEF SessionsIn
      <4>2. CASE ~(r =< ns)
        <5>1. r = ns + At(sess'[r].game, Starts)
          BY <1>8, <2>2, <4>2 DEF Active, Stuck
        <5> QED
          BY <2>2, <3>1, <5>1
      <4> QED
        BY <4>1, <4>2
    <3> QED
      BY <3>1, <3>2 DEF Excludes
  <2>3. nc' \in Nat
    BY <1>6
  <2> QED
    BY <1>7, <2>1, <2>2, <2>3, NewSessions
<1>10. Promotes
  BY <1>3 DEF Promotes
<1> QED
  BY <1>4, <1>7, <1>9, <1>10 DEF Good, Quiet, Gives

-----------------------------------------------------------------------------
(* The invariant                                                           *)

LEMMA QueueInvInit == Init => QueueInv
<1> SUFFICES ASSUME Init PROVE QueueInv
  OBVIOUS
<1> DEFINE row == Row("task", "none", 0, Owner, NoGame, FALSE)
           old == Spawned(Owner, NoGame, 0)
           none == [old EXCEPT !.status = "none"]
<1>1. 0 \in 0 .. MaxSess /\ 0 \in 0 .. MaxCmds /\ 0 \in 0 .. MaxBoot
  BY QueueAssumption
<1>2. IsRow(row, "task", "none", 0, NoGame) /\ ~row.resident
  BY <1>1, TypeNames, RowType
<1>3. none \in Session /\ none.status = "none"
  <2>1. old \in Session
    BY <1>1, TypeNames, SpawnedType
  <2> HIDE DEF old
  <2> QED
    BY <2>1 DEF Session
<1>4. cmds = [c \in CmdIds |-> row] /\ sess = [s \in SessIds |-> none]
  BY DEF Init
<1> HIDE DEF row, none
<1>5. TypeOK
  <2>1. cmds \in [CmdIds -> Command] /\ sess \in [SessIds -> Session]
    BY <1>2, <1>3, <1>4 DEF IsRow
  <2> QED
    BY <1>1, <2>1 DEF Init, TypeOK
<1>6. RowShape(row, Started) /\ RowSound(row, sess, boot)
  BY <1>2, TypeNames DEF IsRow, RowShape, RowSound
<1>7. RowsBelow /\ SessBelow /\ RowsOK
  BY <1>2, <1>3, <1>4, <1>6 DEF RowsBelow, SessBelow, RowsOK, IsRow
<1>8. ReqsOK /\ IsFiniteSet(always)
  BY FS_EmptySet DEF Init, ReqsOK
<1>9. \A s \in SessIds : sess[s].status = "none" /\ sess[s].status \notin Active
  BY <1>3, <1>4 DEF Active, Stuck
<1>10. Singles
  BY <1>9 DEF Singles, SessionsNameStarts, OneLaunchPerUser, OneResidentPerGame, SessionsIn
<1> QED
  BY <1>5, <1>7, <1>8, <1>10 DEF QueueInv, Tables

\* Every step but a report of the host.
LEMMA QuietStep ==
  ASSUME QueueInv, GatewayStep \/ PollStep \/ TimeStep \/ \E s \in SessIds : WorkerDead(s)
  PROVE  Good /\ Quiet
<1>1. CASE GatewayStep
  <2>1. CASE \E u \in Users, g \in Games : InsertStart(u, g)
    BY <2>1, InsertStartKeeps
  <2>2. CASE \E c \in CmdIds : ReadReusable(c) \/ PublishReconnect(c) \/ PublishLaunch(c)
    BY <2>2, ReconnectKeeps, LaunchKeeps
  <2>3. CASE \E type \in {"stop_game", "sdp_offer"}, s \in SessIds : ReadTarget(type, s)
    BY <2>3, ReadTargetKeeps
  <2>4. CASE \E r \in reqs : InsertTargeted(r)
    BY <2>4, InsertTargetedKeeps
  <2>5. CASE InsertTask
    BY <2>5, InsertTaskKeeps
  <2>6. CASE Cleanup
    BY <2>6, CleanupKeeps
  <2>7. CASE \E g \in FlagGames : SetAlwaysOn(g)
    BY <2>7, FlagKeeps
  <2> QED
    BY <1>1, <2>1, <2>2, <2>3, <2>4, <2>5, <2>6, <2>7 DEF GatewayStep
<1>2. CASE PollStep
  BY <1>2, ResetKeeps, PollKeeps DEF PollStep
<1>3. CASE TimeStep
  BY <1>3, ExpireKeeps, AgeKeeps, RestartKeeps DEF TimeStep
<1>4. CASE \E s \in SessIds : WorkerDead(s)
  BY <1>4, WorkerDeadKeeps
<1> QED
  BY <1>1, <1>2, <1>3, <1>4

LEMMA QueueInvStep == QueueInv /\ [Next]_vars => Good
<1> SUFFICES ASSUME QueueInv, [Next]_vars PROVE Good
  OBVIOUS
<1>1. CASE GatewayStep \/ PollStep \/ TimeStep
  BY <1>1, QuietStep
<1>2. CASE ReportStep
  BY <1>2, NotifyGameKeeps, NotifyStopKeeps, ResultKeeps, QuietStep DEF ReportStep
<1>3. CASE UNCHANGED vars
  <2>1. /\ UNCHANGED <<cmds, nc, sess, ns, boot>> /\ UNCHANGED <<always, proc, ran, reqs>>
    BY <1>3 DEF vars
  <2>2. TypeOK' /\ ReqsOK' /\ IsFiniteSet(always)'
    BY <2>1 DEF QueueInv, Tables, TypeOK, ReqsOK, Started
  <2> QED
    BY <2>1, <2>2, NoRow
<1> QED
  BY <1>1, <1>2, <1>3 DEF Next

\* Every step the queue allows, with or without fairness.
Steps == Init /\ [][Next]_vars

LEMMA QueueInvAlways == Steps => []QueueInv
<1>1. QueueInv /\ [Next]_vars => QueueInv'
  BY QueueInvStep DEF Good, QueueInv
<1> QED
  BY QueueInvInit, <1>1, PTL DEF Steps

\* The strengthened invariant: types, how rows and sessions refer to each other,
\* whose lease is worth what, and which sessions exclude each other.
THEOREM QueueInvHolds == Spec => []QueueInv
<1> QED
  BY QueueInvAlways, PTL DEF Spec, Steps

-----------------------------------------------------------------------------
(* What the gateway promises                                               *)

LEMMA QueueInvKeeps ==
  QueueInv => TypeOK /\ LeasesHold /\ CancelledMeansOver /\ OneLaunchPerUser /\ OneResidentPerGame
<1>1. QueueInv => TypeOK /\ OneLaunchPerUser /\ OneResidentPerGame
  BY DEF QueueInv, Tables, Singles
<1>2. QueueInv => CompletedByHolder
  BY DEF QueueInv, Tables, RowsOK, RowSound, CompletedByHolder
<1>3. QueueInv => NoTimeoutUnderLease
  BY DEF QueueInv, Tables, RowsOK, RowSound, NoTimeoutUnderLease
<1>4. QueueInv => CancelledMeansOver
  BY DEF QueueInv, Tables, RowsOK, RowSound, CancelledMeansOver
<1> QED
  BY <1>1, <1>2, <1>3, <1>4 DEF LeasesHold

\* The tables keep their row types, however many rows, retries and boots there
\* are; in particular no row is leased beyond the retry budget.
THEOREM QueueTypeCorrect == Spec => []TypeOK
<1> QED
  BY QueueInvHolds, QueueInvKeeps, PTL

\* Only the holder of the last lease completes a command, and no session times
\* out while the host holds a live lease for it.
THEOREM LeasesMeanSomething == Spec => []LeasesHold
<1> QED
  BY QueueInvHolds, QueueInvKeeps, PTL

\* A command is cancelled only when its session is over.
THEOREM NothingRunningIsCancelled == Spec => []CancelledMeansOver
<1> QED
  BY QueueInvHolds, QueueInvKeeps, PTL

\* A user has at most one active session among those launched for that user,
\* however many launches, retries, reconnects and host restarts overlap.
THEOREM OneGamePerUser == Spec => []OneLaunchPerUser
<1> QED
  BY QueueInvHolds, QueueInvKeeps, PTL

\* An always-on game has at most one active resident session, although every
\* poll of every host process converges towards one.
THEOREM OneResident == Spec => []OneResidentPerGame
<1> QED
  BY QueueInvHolds, QueueInvKeeps, PTL

LEMMA StepsReviveNothing == Steps => NothingRevives
<1>1. ASSUME QueueInv, Good, NEW c \in CmdIds, cmds[c].status \in Terminal
      PROVE  cmds'[c] = cmds[c]
  <2>1. c =< nc
    BY <1>1 DEF QueueInv, Tables, RowsBelow, Terminal
  <2> QED
    BY <1>1, <2>1 DEF Good, Evolves, RowEvolves
<1>2. ASSUME QueueInv, Good, NEW s \in SessIds
      PROVE  /\ StageOf(sess'[s].status) >= StageOf(sess[s].status)
             /\ sess[s].status \in Over => sess'[s] = sess[s]
  <2>1. CASE s =< ns
    BY <1>2, <2>1 DEF Good, Evolves, SessEvolves
  <2>2. CASE ~(s =< ns)
    <3>1. sess[s].status = "none"
      BY <1>2, <2>2 DEF QueueInv, Tables, SessBelow
    <3>2. StageOf(sess[s].status) = 0 /\ StageOf(sess'[s].status) \in 0 .. 5
      BY <3>1 DEF StageOf
    <3> QED
      BY <3>1, <3>2 DEF Over
  <2> QED
    BY <2>1, <2>2
<1>3. QueueInv /\ [Next]_vars =>
        [\A c \in CmdIds : cmds[c].status \in Terminal => cmds'[c] = cmds[c]]_vars
  BY <1>1, QueueInvStep
<1>4. QueueInv /\ [Next]_vars =>
        [\A s \in SessIds :
            /\ StageOf(sess'[s].status) >= StageOf(sess[s].status)
            /\ sess[s].status \in Over => sess'[s] = sess[s]]_vars
  BY <1>2, QueueInvStep
<1>5. Steps => TerminalIsFinal
  BY QueueInvAlways, <1>3, PTL DEF Steps, TerminalIsFinal
<1>6. Steps => SessionForward
  BY QueueInvAlways, <1>4, PTL DEF Steps, SessionForward
<1> QED
  BY <1>5, <1>6 DEF NothingRevives

\* A settled command keeps its outcome and a session only moves forward,
\* whatever reports, retries and polls still arrive.
THEOREM WhatIsOverStaysOver == Spec => NothingRevives
<1> QED
  BY StepsReviveNothing DEF Spec, Steps

LEMMA StepsPromote == Steps => PromotionByCurrentBoot
<1>1. QueueInv /\ [Next]_vars =>
        [\A s \in SessIds :
            sess'[s].status # sess[s].status /\ sess'[s].status \in {"ready", "connected"}
            => \E c \in CmdIds :
                  /\ cmds[c].sid = s /\ cmds[c].status = "leased" /\ cmds[c].to = boot
                  /\ cmds'[c].status = "completed"]_vars
  BY QueueInvStep DEF Good, Promotes
<1> QED
  BY QueueInvAlways, <1>1, PTL DEF Steps, PromotionByCurrentBoot

\* A session becomes ready or connected only by a report of the host process
\* that owns the runtime, with a lease for that session.
THEOREM OnlyTheCurrentBootPromotes == Spec => PromotionByCurrentBoot
<1> QED
  BY StepsPromote DEF Spec, Steps

-----------------------------------------------------------------------------
(* Boot ids                                                                *)

\* The recorded id is that of a process the host ran, and while the machine is not
\* rebooted the running process has the latest of them.
BootInv ==
  /\ proc \in Nat /\ ran \subseteq Nat /\ boot \in ran \cup {0}
  /\ ~MachineReboots => \A b \in ran : b =< proc

\* Only a poll records an id, that of a process that ran; only a restart adds one.
LEMMA BootMoves ==
  ASSUME [Next]_vars
  PROVE  \/ UNCHANGED <<boot, proc, ran>>
         \/ \E b \in ran : boot' = b /\ UNCHANGED <<proc, ran>>
         \/ RestartHost
<1> DEFINE Same == UNCHANGED <<boot, proc, ran>>
<1>1. ASSUME GatewayStep PROVE Same
  <2>1. ASSUME NEW u \in Users, NEW g \in Games, InsertStart(u, g) PROVE Same
    BY <2>1 DEF InsertStart
  <2>2. ASSUME NEW c \in CmdIds, ReadReusable(c) \/ PublishReconnect(c) PROVE Same
    BY <2>2 DEF ReadReusable, PublishReconnect
  <2>3. ASSUME NEW c \in CmdIds, PublishLaunch(c) PROVE Same
    BY <2>3 DEF PublishLaunch
  <2>4. ASSUME NEW type \in {"stop_game", "sdp_offer"}, NEW s \in SessIds, ReadTarget(type, s)
        PROVE  Same
    BY <2>4 DEF ReadTarget
  <2>5. ASSUME NEW r \in reqs, InsertTargeted(r) PROVE Same
    BY <2>5 DEF InsertTargeted
  <2>6. ASSUME InsertTask PROVE Same
    BY <2>6 DEF InsertTask
  <2>7. ASSUME Cleanup PROVE Same
    BY <2>7 DEF Cleanup
  <2>8. ASSUME NEW g \in FlagGames, SetAlwaysOn(g) PROVE Same
    BY <2>8 DEF SetAlwaysOn
  <2> HIDE DEF Same
  <2> QED
    BY <1>1, <2>1, <2>2, <2>3, <2>4, <2>5, <2>6, <2>7, <2>8 DEF GatewayStep
<1>2. ASSUME NEW b \in ran, ResetStaleRuntime(b) PROVE boot' = b /\ UNCHANGED <<proc, ran>>
  BY <1>2 DEF ResetStaleRuntime
<1>3. ASSUME NEW b \in ran, Poll(b) PROVE Same
  BY <1>3 DEF Poll
<1>4. ASSUME ReportStep PROVE Same
  <2>1. ASSUME NEW c \in CmdIds, NEW k \in 1 .. cmds[c].attempts, NEW sdp \in BOOLEAN,
               NotifyGame(c, k, sdp)
        PROVE  Same
    BY <2>1 DEF NotifyGame
  <2>2. ASSUME NEW c \in CmdIds, NEW k \in 1 .. cmds[c].attempts, NotifyStop(c, k) \/ Result(c, k)
        PROVE  Same
    BY <2>2 DEF NotifyStop, Result
  <2>3. ASSUME NEW s \in SessIds, WorkerDead(s) PROVE Same
    BY <2>3 DEF WorkerDead
  <2> HIDE DEF Same
  <2> QED
    BY <1>4, <2>1, <2>2, <2>3 DEF ReportStep
<1>5. ASSUME TimeStep PROVE Same \/ RestartHost
  BY <1>5 DEF TimeStep, ExpireLease, AgeSession
<1>6. ASSUME UNCHANGED vars PROVE Same
  BY <1>6 DEF vars
<1> QED
  BY <1>1, <1>2, <1>3, <1>4, <1>5, <1>6 DEF Next, PollStep

LEMMA BootInvAlways == Steps => []BootInv
<1>1. Init => BootInv
  BY QueueAssumption DEF Init, BootInv, BootIds
<1>2. ASSUME BootInv, [Next]_vars PROVE BootInv'
  <2>1. CASE UNCHANGED <<boot, proc, ran>>
    BY <1>2, <2>1 DEF BootInv
  <2>2. CASE \E b \in ran : boot' = b /\ UNCHANGED <<proc, ran>>
    BY <1>2, <2>2 DEF BootInv
  <2>3. CASE RestartHost
    <3>1. PICK b \in BootIds : /\ b > proc \/ MachineReboots
                               /\ proc' = b /\ ran' = ran \cup {b} /\ boot' = boot
      BY <2>3 DEF RestartHost
    <3>2. b \in Nat
      BY <3>1, QueueAssumption DEF BootIds
    <3> QED
      BY <1>2, <3>1, <3>2 DEF BootInv
  <2> QED
    BY <1>2, <2>1, <2>2, <2>3, BootMoves
<1> QED
  BY <1>1, <1>2, PTL DEF Steps

LEMMA StepsNotRefuse == Steps => []CurrentNotRefused
<1>1. BootInv => CurrentNotRefused
  BY DEF BootInv, CurrentNotRefused
<1> QED
  BY <1>1, BootInvAlways, PTL

\* No process that was replaced can lock out its successor while the machine is not
\* rebooted: resetStaleRuntime accepts the running process or has accepted it.
THEOREM SuccessorIsNotRefused == Spec => []CurrentNotRefused
<1> QED
  BY StepsNotRefuse DEF Spec, Steps
=============================================================================
