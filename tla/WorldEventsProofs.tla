-------------------------- MODULE WorldEventsProofs --------------------------
(***************************************************************************)
(* Proofs about WorldEvents, for any number of players and any timers that *)
(* stand in the order of the code's.                                       *)
(***************************************************************************)
EXTENDS WorldEvents, TLAPS

(***************************************************************************)
(* The last ticks of the waiting belong to the fight, so that the wait     *)
(* cannot run out with players in the lobby and no fight.                  *)
(***************************************************************************)
BegunInv == bossTick > 0 /\ bossTick <= Gather => bossStart

(***************************************************************************)
(* An event that goes on without a boss bot is one of two: the time after  *)
(* a victory, in which its bot was removed, or a fight that nobody is in   *)
(* and that nobody can enter.                                              *)
(***************************************************************************)
FoeInv ==
  bossBot = "absent" /\ (bossTick > 0 \/ bossStart) =>
    \/ WinEnd < winWait /\ winWait <= Clean
    \/ InBoss = {} /\ (phase = "wait" \/ bossTick = 0)

PlayersTyped ==
  /\ body \in [Players -> Bodies] /\ at \in [Players -> Rooms]
  /\ inBoss \in [Players -> BOOLEAN] /\ inArea \in [Players -> BOOLEAN]

(* What every step of the two events keeps.                                *)
IInv == TypeOK /\ HeldByAnEvent /\ RoomsMatch /\ BegunInv /\ FoeInv

-----------------------------------------------------------------------------

(* Die leaves every slot with a body, a room and its two flags.            *)
LEMMA DieTyped ==
  ASSUME TypeOK, NEW S, NEW f \in [Players -> BOOLEAN], NEW g \in [Players -> BOOLEAN],
         NEW start, NEW tick, NEW left, Die(S, f, g, start, tick, left)
  PROVE  PlayersTyped'
BY DEF TypeOK, PlayersTyped, Die, Bodies

(* Killed keeps the invariant. *)
LEMMA KilledKeeps ==
  ASSUME IInv, NEW p \in Players, Killed(p)
  PROVE  IInv'
<1> USE TimersAssumption
<1>1. TypeOK'
  BY DEF IInv, TypeOK, Killed, DieNow, Die, bossVars, areaVars, playerVars, Bodies, Rooms, Phases, SpawnRoom
<1>2. HeldByAnEvent'
  BY DEF IInv, TypeOK, HeldByAnEvent, RoomsMatch, BegunInv, SpawnRoom, Alive, InBoss, Killed, DieNow, Die, bossVars, areaVars, playerVars
<1>3. RoomsMatch'
  BY DEF IInv, TypeOK, HeldByAnEvent, RoomsMatch, SpawnRoom, Alive, InBoss, InArea, Killed, DieNow, Die, bossVars, areaVars, playerVars
<1>4. BegunInv'
  BY DEF IInv, TypeOK, BegunInv, Killed, DieNow, Die, bossVars, areaVars, playerVars
<1>5. FoeInv'
  BY DEF IInv, TypeOK, FoeInv, InBoss, Killed, DieNow, Die, bossVars, areaVars, playerVars
<1> QED
  BY <1>1, <1>2, <1>3, <1>4, <1>5 DEF IInv

(* SendToJail keeps the invariant. *)
LEMMA SendToJailKeeps ==
  ASSUME IInv, NEW p \in Players, SendToJail(p)
  PROVE  IInv'
<1> USE TimersAssumption
<1>1. TypeOK'
  BY DEF IInv, TypeOK, SendToJail, bossVars, areaVars, playerVars, Bodies, Rooms, Phases, SpawnRoom
<1>2. HeldByAnEvent'
  BY DEF IInv, TypeOK, HeldByAnEvent, RoomsMatch, BegunInv, SpawnRoom, Alive, InBoss, SendToJail, bossVars, areaVars, playerVars
<1>3. RoomsMatch'
  BY DEF IInv, TypeOK, HeldByAnEvent, RoomsMatch, SpawnRoom, Alive, InBoss, InArea, SendToJail, bossVars, areaVars, playerVars
<1>4. BegunInv'
  BY DEF IInv, TypeOK, BegunInv, SendToJail, bossVars, areaVars, playerVars
<1>5. FoeInv'
  BY DEF IInv, TypeOK, FoeInv, InBoss, SendToJail, bossVars, areaVars, playerVars
<1> QED
  BY <1>1, <1>2, <1>3, <1>4, <1>5 DEF IInv

(* TryRespawn keeps the invariant. *)
LEMMA TryRespawnKeeps ==
  ASSUME IInv, NEW p \in Players, TryRespawn(p)
  PROVE  IInv'
<1> USE TimersAssumption
<1>1. TypeOK'
  BY DEF IInv, TypeOK, TryRespawn, bossVars, areaVars, playerVars, Bodies, Rooms, Phases, SpawnRoom
<1>2. HeldByAnEvent'
  BY DEF IInv, TypeOK, HeldByAnEvent, RoomsMatch, BegunInv, SpawnRoom, Alive, InBoss, TryRespawn, bossVars, areaVars, playerVars
<1>3. RoomsMatch'
  BY DEF IInv, TypeOK, HeldByAnEvent, RoomsMatch, SpawnRoom, Alive, InBoss, InArea, TryRespawn, bossVars, areaVars, playerVars
<1>4. BegunInv'
  BY DEF IInv, TypeOK, BegunInv, TryRespawn, bossVars, areaVars, playerVars
<1>5. FoeInv'
  BY DEF IInv, TypeOK, FoeInv, InBoss, TryRespawn, bossVars, areaVars, playerVars
<1> QED
  BY <1>1, <1>2, <1>3, <1>4, <1>5 DEF IInv

(* OnClientConnected keeps the invariant. *)
LEMMA OnClientConnectedKeeps ==
  ASSUME IInv, NEW p \in Players, OnClientConnected(p)
  PROVE  IInv'
<1> USE TimersAssumption
<1>1. TypeOK'
  BY DEF IInv, TypeOK, OnClientConnected, bossVars, areaVars, playerVars, Bodies, Rooms, Phases, SpawnRoom
<1>2. HeldByAnEvent'
  BY DEF IInv, TypeOK, HeldByAnEvent, RoomsMatch, BegunInv, SpawnRoom, Alive, InBoss, OnClientConnected, bossVars, areaVars, playerVars
<1>3. RoomsMatch'
  BY DEF IInv, TypeOK, HeldByAnEvent, RoomsMatch, SpawnRoom, Alive, InBoss, InArea, OnClientConnected, bossVars, areaVars, playerVars
<1>4. BegunInv'
  BY DEF IInv, TypeOK, BegunInv, OnClientConnected, bossVars, areaVars, playerVars
<1>5. FoeInv'
  BY DEF IInv, TypeOK, FoeInv, InBoss, OnClientConnected, bossVars, areaVars, playerVars
<1> QED
  BY <1>1, <1>2, <1>3, <1>4, <1>5 DEF IInv

(* OnClientDrop keeps the invariant. *)
LEMMA OnClientDropKeeps ==
  ASSUME IInv, NEW p \in Players, OnClientDrop(p)
  PROVE  IInv'
<1> USE TimersAssumption
<1>1. TypeOK'
  BY DEF IInv, TypeOK, OnClientDrop, bossVars, areaVars, playerVars, Bodies, Rooms, Phases, SpawnRoom
<1>2. HeldByAnEvent'
  BY DEF IInv, TypeOK, HeldByAnEvent, RoomsMatch, BegunInv, SpawnRoom, Alive, InBoss, OnClientDrop, bossVars, areaVars, playerVars
<1>3. RoomsMatch'
  BY DEF IInv, TypeOK, HeldByAnEvent, RoomsMatch, SpawnRoom, Alive, InBoss, InArea, OnClientDrop, bossVars, areaVars, playerVars
<1>4. BegunInv'
  BY DEF IInv, TypeOK, BegunInv, OnClientDrop, bossVars, areaVars, playerVars
<1>5. FoeInv'
  BY DEF IInv, TypeOK, FoeInv, InBoss, OnClientDrop, bossVars, areaVars, playerVars
<1> QED
  BY <1>1, <1>2, <1>3, <1>4, <1>5 DEF IInv

(* SpawnBoss keeps the invariant. *)
LEMMA SpawnBossKeeps ==
  ASSUME IInv, SpawnBoss
  PROVE  IInv'
<1> USE TimersAssumption
<1>1. TypeOK'
  BY DEF IInv, TypeOK, SpawnBoss, bossVars, areaVars, playerVars, Bodies, Rooms, Phases, SpawnRoom
<1>2. HeldByAnEvent'
  BY DEF IInv, TypeOK, HeldByAnEvent, RoomsMatch, BegunInv, SpawnRoom, Alive, InBoss, SpawnBoss, bossVars, areaVars, playerVars
<1>3. RoomsMatch'
  BY DEF IInv, TypeOK, HeldByAnEvent, RoomsMatch, SpawnRoom, Alive, InBoss, InArea, SpawnBoss, bossVars, areaVars, playerVars
<1>4. BegunInv'
  BY DEF IInv, TypeOK, BegunInv, SpawnBoss, bossVars, areaVars, playerVars
<1>5. FoeInv'
  BY DEF IInv, TypeOK, FoeInv, InBoss, SpawnBoss, bossVars, areaVars, playerVars
<1> QED
  BY <1>1, <1>2, <1>3, <1>4, <1>5 DEF IInv

(* KillBoss keeps the invariant. *)
LEMMA KillBossKeeps ==
  ASSUME IInv, KillBoss
  PROVE  IInv'
<1> USE TimersAssumption
<1>1. TypeOK'
  BY DEF IInv, TypeOK, KillBoss, bossVars, areaVars, playerVars, Bodies, Rooms, Phases, SpawnRoom
<1>2. HeldByAnEvent'
  BY DEF IInv, TypeOK, HeldByAnEvent, RoomsMatch, BegunInv, SpawnRoom, Alive, InBoss, KillBoss, bossVars, areaVars, playerVars
<1>3. RoomsMatch'
  BY DEF IInv, TypeOK, HeldByAnEvent, RoomsMatch, SpawnRoom, Alive, InBoss, InArea, KillBoss, bossVars, areaVars, playerVars
<1>4. BegunInv'
  BY DEF IInv, TypeOK, BegunInv, KillBoss, bossVars, areaVars, playerVars
<1>5. FoeInv'
  BY DEF IInv, TypeOK, FoeInv, InBoss, KillBoss, bossVars, areaVars, playerVars
<1> QED
  BY <1>1, <1>2, <1>3, <1>4, <1>5 DEF IInv

(* StartBoss keeps the invariant. *)
LEMMA StartBossKeeps ==
  ASSUME IInv, NEW p \in Players, NEW w \in BossWaits, StartBoss(p, w)
  PROVE  IInv'
<1> USE TimersAssumption
<1>1. TypeOK'
  BY DEF IInv, TypeOK, StartBoss, Die, RemoveOldBoss, bossVars, areaVars, playerVars, Bodies, Rooms, Phases, SpawnRoom
<1>2. HeldByAnEvent'
  BY DEF IInv, TypeOK, HeldByAnEvent, RoomsMatch, BegunInv, SpawnRoom, Alive, InBoss, StartBoss, Die, RemoveOldBoss, bossVars, areaVars, playerVars
<1>3. RoomsMatch'
  BY DEF IInv, TypeOK, HeldByAnEvent, RoomsMatch, SpawnRoom, Alive, InBoss, InArea, StartBoss, Die, RemoveOldBoss, bossVars, areaVars, playerVars
<1>4. BegunInv'
  BY DEF IInv, TypeOK, BegunInv, StartBoss, Die, RemoveOldBoss, bossVars, areaVars, playerVars
<1>5. FoeInv'
  BY DEF IInv, TypeOK, FoeInv, InBoss, StartBoss, Die, RemoveOldBoss, bossVars, areaVars, playerVars
<1> QED
  BY <1>1, <1>2, <1>3, <1>4, <1>5 DEF IInv

(* EnterBoss keeps the invariant. *)
LEMMA EnterBossKeeps ==
  ASSUME IInv, NEW p \in Players, EnterBoss(p)
  PROVE  IInv'
<1> USE TimersAssumption
<1>1. TypeOK'
  BY DEF IInv, TypeOK, EnterBoss, DieNow, Die, bossVars, areaVars, playerVars, Bodies, Rooms, Phases, SpawnRoom
<1>2. HeldByAnEvent'
  BY DEF IInv, TypeOK, HeldByAnEvent, RoomsMatch, BegunInv, SpawnRoom, Alive, InBoss, EnterBoss, DieNow, Die, bossVars, areaVars, playerVars
<1>3. RoomsMatch'
  BY DEF IInv, TypeOK, HeldByAnEvent, RoomsMatch, SpawnRoom, Alive, InBoss, InArea, EnterBoss, DieNow, Die, bossVars, areaVars, playerVars
<1>4. BegunInv'
  BY DEF IInv, TypeOK, BegunInv, EnterBoss, DieNow, Die, bossVars, areaVars, playerVars
<1>5. FoeInv'
  BY DEF IInv, TypeOK, FoeInv, InBoss, EnterBoss, DieNow, Die, bossVars, areaVars, playerVars
<1> QED
  BY <1>1, <1>2, <1>3, <1>4, <1>5 DEF IInv

(* BossWin keeps the invariant. *)
LEMMA BossWinKeeps ==
  ASSUME IInv, BossWin
  PROVE  IInv'
<1> USE TimersAssumption
<1>1. TypeOK'
  <2>0. TypeOK
    BY DEF IInv
  <2>1. /\ inBoss \in [Players -> BOOLEAN] /\ inArea \in [Players -> BOOLEAN]
        /\ [p \in Players |-> FALSE] \in [Players -> BOOLEAN]
    BY <2>0 DEF TypeOK
  <2>2. PlayersTyped'
    <3>1. CASE UNCHANGED playerVars
      BY <2>0, <3>1 DEF TypeOK, PlayersTyped, playerVars
    <3>2. CASE Die(InBoss, [p \in Players |-> FALSE], inArea, FALSE, 0, areaEnd)
      BY <2>0, <2>1, <3>2, DieTyped
    <3>3. \/ winWait - 1 = WinEnd /\ SendHome
          \/ winWait - 1 = Clean /\ DeleteBotBoss
          \/ UNCHANGED <<bossStart, bossTick, bossBot, playerVars>>
      BY DEF BossWin
    <3>4. CASE winWait - 1 = WinEnd /\ SendHome
      BY <3>2, <3>4 DEF SendHome
    <3>5. CASE winWait - 1 = Clean /\ DeleteBotBoss
      BY <3>1, <3>5 DEF DeleteBotBoss
    <3>6. CASE UNCHANGED <<bossStart, bossTick, bossBot, playerVars>>
      BY <3>1, <3>6
    <3> QED
      BY <3>3, <3>4, <3>5, <3>6
  <2>3. bossStart \in BOOLEAN /\ bossTick \in Nat /\ winWait \in Nat /\ bossBot \in Bodies
    BY <2>0 DEF TypeOK
  <2>4. WinEnd \in Nat /\ Clean \in Nat
    BY TimersAssumption
  <2>5. bossStart' \in BOOLEAN /\ bossTick' \in Nat /\ winWait' \in Nat /\ bossBot' \in Bodies
    <3>1. CASE winWait - 1 = WinEnd /\ SendHome
      BY <2>3, <3>1 DEF SendHome
    <3>2. CASE winWait - 1 = Clean /\ DeleteBotBoss
      BY <2>3, <2>4, <3>2 DEF DeleteBotBoss, Bodies
    <3>3. CASE /\ winWait' = Down(winWait)
               /\ UNCHANGED <<bossStart, bossTick, bossBot, playerVars>>
      BY <2>3, <3>3 DEF Down
    <3> QED
      BY <3>1, <3>2, <3>3 DEF BossWin
  <2>6. areaTick' \in Nat /\ areaEnd' \in Nat /\ phase' \in Phases
    BY <2>0 DEF TypeOK, BossWin, areaVars, Phases
  <2> QED
    BY <2>2, <2>5, <2>6 DEF TypeOK, PlayersTyped
<1>2. HeldByAnEvent'
  BY DEF IInv, TypeOK, HeldByAnEvent, RoomsMatch, BegunInv, SpawnRoom, Alive, InBoss, BossWin, Die, SendHome, DeleteBotBoss, Down, bossVars, areaVars, playerVars
<1>3. RoomsMatch'
  BY DEF IInv, TypeOK, HeldByAnEvent, RoomsMatch, SpawnRoom, Alive, InBoss, InArea, BossWin, Die, SendHome, DeleteBotBoss, Down, bossVars, areaVars, playerVars
<1>4. BegunInv'
  BY DEF IInv, TypeOK, BegunInv, BossWin, Die, SendHome, DeleteBotBoss, Down, bossVars, areaVars, playerVars
<1>5. FoeInv'
  BY DEF IInv, TypeOK, FoeInv, InBoss, BossWin, Die, SendHome, DeleteBotBoss, Down, bossVars, areaVars, playerVars
<1> QED
  BY <1>1, <1>2, <1>3, <1>4, <1>5 DEF IInv

(* BossWait keeps the invariant. *)
LEMMA BossWaitKeeps ==
  ASSUME IInv, BossWait
  PROVE  IInv'
<1> USE TimersAssumption
<1>1. TypeOK'
  <2>0. TypeOK
    BY DEF IInv
  <2>1. /\ inBoss \in [Players -> BOOLEAN] /\ inArea \in [Players -> BOOLEAN]
        /\ [p \in Players |-> FALSE] \in [Players -> BOOLEAN]
    BY <2>0 DEF TypeOK
  <2>2. PlayersTyped'
    <3>1. CASE UNCHANGED playerVars
      BY <2>0, <3>1 DEF TypeOK, PlayersTyped, playerVars
    <3>2. CASE Die(InBoss, inBoss, inArea, TRUE, Gather, areaEnd)
      BY <2>0, <2>1, <3>2, DieTyped
    <3>3. \/ Begin
          \/ Cancel
          \/ UNCHANGED <<bossStart, playerVars>>
      BY DEF BossWait
    <3>4. CASE Begin
      BY <3>2, <3>4 DEF Begin
    <3>5. CASE Cancel
      BY <3>1, <3>5 DEF Cancel
    <3>6. CASE UNCHANGED <<bossStart, playerVars>>
      BY <3>1, <3>6
    <3> QED
      BY <3>3, <3>4, <3>5, <3>6
  <2>3. bossStart \in BOOLEAN /\ bossTick \in Nat /\ winWait \in Nat /\ bossBot \in Bodies
    BY <2>0 DEF TypeOK
  <2>4. Gather \in Nat
    BY TimersAssumption
  <2>5. bossStart' \in BOOLEAN /\ bossTick' \in Nat
    <3>1. CASE Cancel
      BY <3>1 DEF Cancel
    <3>2. CASE Begin
      BY <2>4, <3>2 DEF Begin
    <3>3. CASE bossTick' = Down(bossTick) /\ UNCHANGED <<bossStart, playerVars>>
      BY <2>3, <3>3 DEF Down
    <3> QED
      BY <3>1, <3>2, <3>3 DEF BossWait
  <2>6. UNCHANGED <<winWait, bossBot, areaVars>>
    BY DEF BossWait
  <2>7. winWait' \in Nat /\ bossBot' \in Bodies
    BY <2>3, <2>6
  <2>8. areaTick' \in Nat /\ areaEnd' \in Nat /\ phase' \in Phases
    BY <2>0, <2>6 DEF TypeOK, BossWait, areaVars, Phases
  <2> QED
    BY <2>2, <2>5, <2>7, <2>8 DEF TypeOK, PlayersTyped
<1>2. HeldByAnEvent'
  BY DEF IInv, TypeOK, HeldByAnEvent, RoomsMatch, BegunInv, SpawnRoom, Alive, InBoss, BossWait, Die, Cancel, Begin, Down, bossVars, areaVars, playerVars
<1>3. RoomsMatch'
  BY DEF IInv, TypeOK, HeldByAnEvent, RoomsMatch, SpawnRoom, Alive, InBoss, InArea, BossWait, Die, Cancel, Begin, Down, bossVars, areaVars, playerVars
<1>4. BegunInv'
  BY DEF IInv, TypeOK, BegunInv, BossWait, Die, Cancel, Begin, Down, bossVars, areaVars, playerVars
<1>5. FoeInv'
  BY DEF IInv, TypeOK, FoeInv, InBoss, BossWait, Die, Cancel, Begin, Down, bossVars, areaVars, playerVars
<1> QED
  BY <1>1, <1>2, <1>3, <1>4, <1>5 DEF IInv

(* BossLoss keeps the invariant. *)
LEMMA BossLossKeeps ==
  ASSUME IInv, BossLoss
  PROVE  IInv'
<1> USE TimersAssumption
<1>1. TypeOK'
  BY DEF IInv, TypeOK, BossLoss, Defeated, bossVars, areaVars, playerVars, Bodies, Rooms, Phases, SpawnRoom
<1>2. HeldByAnEvent'
  BY DEF IInv, TypeOK, HeldByAnEvent, RoomsMatch, BegunInv, SpawnRoom, Alive, InBoss, BossLoss, Defeated, bossVars, areaVars, playerVars
<1>3. RoomsMatch'
  BY DEF IInv, TypeOK, HeldByAnEvent, RoomsMatch, SpawnRoom, Alive, InBoss, InArea, BossLoss, Defeated, bossVars, areaVars, playerVars
<1>4. BegunInv'
  BY DEF IInv, TypeOK, BegunInv, BossLoss, Defeated, bossVars, areaVars, playerVars
<1>5. FoeInv'
  BY DEF IInv, TypeOK, FoeInv, InBoss, BossLoss, Defeated, bossVars, areaVars, playerVars
<1> QED
  BY <1>1, <1>2, <1>3, <1>4, <1>5 DEF IInv

(* StartArea keeps the invariant. *)
LEMMA StartAreaKeeps ==
  ASSUME IInv, NEW p \in Players, StartArea(p)
  PROVE  IInv'
<1> USE TimersAssumption
<1>1. TypeOK'
  BY DEF IInv, TypeOK, StartArea, DieNow, Die, bossVars, areaVars, playerVars, Bodies, Rooms, Phases, SpawnRoom
<1>2. HeldByAnEvent'
  BY DEF IInv, TypeOK, HeldByAnEvent, RoomsMatch, BegunInv, SpawnRoom, Alive, InBoss, StartArea, DieNow, Die, bossVars, areaVars, playerVars
<1>3. RoomsMatch'
  BY DEF IInv, TypeOK, HeldByAnEvent, RoomsMatch, SpawnRoom, Alive, InBoss, InArea, StartArea, DieNow, Die, bossVars, areaVars, playerVars
<1>4. BegunInv'
  BY DEF IInv, TypeOK, BegunInv, StartArea, DieNow, Die, bossVars, areaVars, playerVars
<1>5. FoeInv'
  BY DEF IInv, TypeOK, FoeInv, InBoss, StartArea, DieNow, Die, bossVars, areaVars, playerVars
<1> QED
  BY <1>1, <1>2, <1>3, <1>4, <1>5 DEF IInv

(* EnterArea keeps the invariant. *)
LEMMA EnterAreaKeeps ==
  ASSUME IInv, NEW p \in Players, EnterArea(p)
  PROVE  IInv'
<1> USE TimersAssumption
<1>1. TypeOK'
  BY DEF IInv, TypeOK, EnterArea, DieNow, Die, bossVars, areaVars, playerVars, Bodies, Rooms, Phases, SpawnRoom
<1>2. HeldByAnEvent'
  BY DEF IInv, TypeOK, HeldByAnEvent, RoomsMatch, BegunInv, SpawnRoom, Alive, InBoss, EnterArea, DieNow, Die, bossVars, areaVars, playerVars
<1>3. RoomsMatch'
  BY DEF IInv, TypeOK, HeldByAnEvent, RoomsMatch, SpawnRoom, Alive, InBoss, InArea, EnterArea, DieNow, Die, bossVars, areaVars, playerVars
<1>4. BegunInv'
  BY DEF IInv, TypeOK, BegunInv, EnterArea, DieNow, Die, bossVars, areaVars, playerVars
<1>5. FoeInv'
  BY DEF IInv, TypeOK, FoeInv, InBoss, EnterArea, DieNow, Die, bossVars, areaVars, playerVars
<1> QED
  BY <1>1, <1>2, <1>3, <1>4, <1>5 DEF IInv

(* AreaWarmUp keeps the invariant. *)
LEMMA AreaWarmUpKeeps ==
  ASSUME IInv, AreaWarmUp
  PROVE  IInv'
<1> USE TimersAssumption
<1>1. TypeOK'
  <2>0. TypeOK
    BY DEF IInv
  <2>1. /\ inBoss \in [Players -> BOOLEAN] /\ inArea \in [Players -> BOOLEAN]
        /\ [p \in Players |-> FALSE] \in [Players -> BOOLEAN]
    BY <2>0 DEF TypeOK
  <2>2. PlayersTyped'
    <3>1. CASE UNCHANGED playerVars
      BY <2>0, <3>1 DEF TypeOK, PlayersTyped, playerVars
    <3>2. CASE Die(InArea, inBoss, [p \in Players |-> FALSE], bossStart, bossTick, areaEnd)
      BY <2>0, <2>1, <3>2, DieTyped
    <3> QED
      BY <3>1, <3>2 DEF AreaWarmUp, EmptyArena, playerVars
  <2>3. /\ bossStart' \in BOOLEAN /\ bossTick' \in Nat /\ winWait' \in Nat
        /\ bossBot' \in Bodies /\ areaTick' \in Nat /\ areaEnd' \in Nat /\ phase' \in Phases
    BY <2>0 DEF TypeOK, AreaWarmUp, Down, EmptyArena, bossVars, areaVars, Bodies, Phases
  <2> QED
    BY <2>2, <2>3 DEF TypeOK, PlayersTyped
<1>2. HeldByAnEvent'
  BY DEF IInv, TypeOK, HeldByAnEvent, RoomsMatch, BegunInv, SpawnRoom, Alive, InBoss, AreaWarmUp, EmptyArena, Die, Down, bossVars, areaVars, playerVars
<1>3. RoomsMatch'
  BY DEF IInv, TypeOK, HeldByAnEvent, RoomsMatch, SpawnRoom, Alive, InBoss, InArea, AreaWarmUp, EmptyArena, Die, Down, bossVars, areaVars, playerVars
<1>4. BegunInv'
  BY DEF IInv, TypeOK, BegunInv, AreaWarmUp, EmptyArena, Die, Down, bossVars, areaVars, playerVars
<1>5. FoeInv'
  BY DEF IInv, TypeOK, FoeInv, InBoss, AreaWarmUp, EmptyArena, Die, Down, bossVars, areaVars, playerVars
<1> QED
  BY <1>1, <1>2, <1>3, <1>4, <1>5 DEF IInv

(* AreaGame keeps the invariant. *)
LEMMA AreaGameKeeps ==
  ASSUME IInv, AreaGame
  PROVE  IInv'
<1> USE TimersAssumption
<1>1. TypeOK'
  <2>0. TypeOK
    BY DEF IInv
  <2>1. /\ inBoss \in [Players -> BOOLEAN] /\ inArea \in [Players -> BOOLEAN]
        /\ [p \in Players |-> FALSE] \in [Players -> BOOLEAN]
    BY <2>0 DEF TypeOK
  <2>2. PlayersTyped'
    <3>1. CASE UNCHANGED playerVars
      BY <2>0, <3>1 DEF TypeOK, PlayersTyped, playerVars
    <3>2. CASE Die(InArea, inBoss, [p \in Players |-> FALSE], bossStart, bossTick, 0)
      BY <2>0, <2>1, <3>2, DieTyped
    <3>3. CASE Die(InArea, inBoss, inArea, bossStart, bossTick, areaEnd - 1)
      BY <2>0, <2>1, <3>3, DieTyped
    <3> QED
      BY <3>1, <3>2, <3>3 DEF AreaGame, EmptyArena, playerVars
  <2>3. /\ bossStart' \in BOOLEAN /\ bossTick' \in Nat /\ winWait' \in Nat
        /\ bossBot' \in Bodies /\ areaTick' \in Nat /\ areaEnd' \in Nat /\ phase' \in Phases
    BY <2>0 DEF TypeOK, AreaGame, EmptyArena, bossVars, areaVars, Bodies, Phases
  <2> QED
    BY <2>2, <2>3 DEF TypeOK, PlayersTyped
<1>2. HeldByAnEvent'
  BY DEF IInv, TypeOK, HeldByAnEvent, RoomsMatch, BegunInv, SpawnRoom, Alive, InBoss, AreaGame, EmptyArena, Die, bossVars, areaVars, playerVars
<1>3. RoomsMatch'
  BY DEF IInv, TypeOK, HeldByAnEvent, RoomsMatch, SpawnRoom, Alive, InBoss, InArea, AreaGame, EmptyArena, Die, bossVars, areaVars, playerVars
<1>4. BegunInv'
  BY DEF IInv, TypeOK, BegunInv, AreaGame, EmptyArena, Die, bossVars, areaVars, playerVars
<1>5. FoeInv'
  BY DEF IInv, TypeOK, FoeInv, InBoss, AreaGame, EmptyArena, Die, bossVars, areaVars, playerVars
<1> QED
  BY <1>1, <1>2, <1>3, <1>4, <1>5 DEF IInv

(* StartTick keeps the invariant. *)
LEMMA StartTickKeeps ==
  ASSUME IInv, StartTick
  PROVE  IInv'
<1> USE TimersAssumption
<1>1. TypeOK'
  BY DEF IInv, TypeOK, StartTick, bossVars, areaVars, playerVars, Bodies, Rooms, Phases, SpawnRoom
<1>2. HeldByAnEvent'
  BY DEF IInv, TypeOK, HeldByAnEvent, RoomsMatch, BegunInv, SpawnRoom, Alive, InBoss, StartTick, bossVars, areaVars, playerVars
<1>3. RoomsMatch'
  BY DEF IInv, TypeOK, HeldByAnEvent, RoomsMatch, SpawnRoom, Alive, InBoss, InArea, StartTick, bossVars, areaVars, playerVars
<1>4. BegunInv'
  BY DEF IInv, TypeOK, BegunInv, StartTick, bossVars, areaVars, playerVars
<1>5. FoeInv'
  BY DEF IInv, TypeOK, FoeInv, InBoss, StartTick, bossVars, areaVars, playerVars
<1> QED
  BY <1>1, <1>2, <1>3, <1>4, <1>5 DEF IInv

-----------------------------------------------------------------------------

(* At first nobody is anywhere, whatever the arena's timers hold.          *)
LEMMA InitInv == Init => IInv
<1> SUFFICES ASSUME Init PROVE IInv
  OBVIOUS
<1>1. TypeOK
  BY TimersAssumption DEF Init, TypeOK, Bodies, Rooms, Phases
<1>2. HeldByAnEvent /\ RoomsMatch
  BY DEF Init, HeldByAnEvent, RoomsMatch, Alive
<1>3. BegunInv /\ FoeInv
  BY DEF Init, BegunInv, FoeInv
<1> QED
  BY <1>1, <1>2, <1>3 DEF IInv

LEMMA StepInv == IInv /\ [Next]_vars => IInv'
<1> SUFFICES ASSUME IInv, [Next]_vars PROVE IInv'
  OBVIOUS
<1>1. ASSUME NEW p \in Players, Killed(p) PROVE IInv'
  BY <1>1, KilledKeeps
<1>2. ASSUME NEW p \in Players, SendToJail(p) PROVE IInv'
  BY <1>2, SendToJailKeeps
<1>3. ASSUME NEW p \in Players, TryRespawn(p) PROVE IInv'
  BY <1>3, TryRespawnKeeps
<1>4. ASSUME NEW p \in Players, OnClientConnected(p) PROVE IInv'
  BY <1>4, OnClientConnectedKeeps
<1>5. ASSUME NEW p \in Players, OnClientDrop(p) PROVE IInv'
  BY <1>5, OnClientDropKeeps
<1>6. CASE SpawnBoss
  BY <1>6, SpawnBossKeeps
<1>7. CASE KillBoss
  BY <1>7, KillBossKeeps
<1>8. ASSUME NEW p \in Players, NEW w \in BossWaits, StartBoss(p, w) PROVE IInv'
  BY <1>8, StartBossKeeps
<1>9. ASSUME NEW p \in Players, EnterBoss(p) PROVE IInv'
  BY <1>9, EnterBossKeeps
<1>10. CASE BossWin
  BY <1>10, BossWinKeeps
<1>11. CASE BossWait
  BY <1>11, BossWaitKeeps
<1>12. CASE BossLoss
  BY <1>12, BossLossKeeps
<1>13. ASSUME NEW p \in Players, StartArea(p) PROVE IInv'
  BY <1>13, StartAreaKeeps
<1>14. ASSUME NEW p \in Players, EnterArea(p) PROVE IInv'
  BY <1>14, EnterAreaKeeps
<1>15. CASE AreaWarmUp
  BY <1>15, AreaWarmUpKeeps
<1>16. CASE AreaGame
  BY <1>16, AreaGameKeeps
<1>17. CASE StartTick
  BY <1>17, StartTickKeeps
<1>18. CASE UNCHANGED vars
  <2>1. /\ bossStart' = bossStart /\ bossTick' = bossTick /\ winWait' = winWait
        /\ bossBot' = bossBot /\ areaTick' = areaTick /\ areaEnd' = areaEnd
        /\ body' = body /\ at' = at /\ inBoss' = inBoss /\ inArea' = inArea /\ phase' = phase
    BY <1>18 DEF vars, bossVars, areaVars, playerVars
  <2> QED
    BY <2>1 DEF IInv, TypeOK, HeldByAnEvent, RoomsMatch, BegunInv, FoeInv, InBoss, Alive,
       SpawnRoom
<1> QED
  BY <1>1, <1>2, <1>3, <1>4, <1>5, <1>6, <1>7, <1>8, <1>9, <1>10, <1>11, <1>12, <1>13, <1>14, <1>15, <1>16, <1>17, <1>18 DEF Next, OnTick, Player

(***************************************************************************)
(* The events, the players' flags and the rooms they stand in fit together *)
(* in every reachable state.                                               *)
(***************************************************************************)
THEOREM Invariant == Spec => []IInv
BY InitInv, StepInv, PTL DEF Spec

(* Timers never become negative and every flag keeps its type.             *)
THEOREM TypeCorrect == Spec => []TypeOK
<1>1. IInv => TypeOK
  BY DEF IInv
<1> QED
  BY <1>1, Invariant, PTL

(***************************************************************************)
(* A player whose m_InBossed is set is in a fight that waits or runs, and  *)
(* not in the arena, whatever BossTick, EnterBoss and Die do in between.   *)
(***************************************************************************)
THEOREM NobodyForgotten == Spec => []HeldByAnEvent
<1>1. IInv => HeldByAnEvent
  BY DEF IInv
<1> QED
  BY <1>1, Invariant, PTL

(***************************************************************************)
(* Every character stands in the room PreSpawn would choose for it now.    *)
(***************************************************************************)
THEOREM RoomsAreRight == Spec => []RoomsMatch
<1>1. IInv => RoomsMatch
  BY DEF IInv
<1> QED
  BY <1>1, Invariant, PTL

(***************************************************************************)
(* StartBoss and BossTick, which remove boss bots that earlier fights have *)
(* left, never remove that of a fight that players are in and can win.     *)
(***************************************************************************)
THEOREM FoeIsThere == Spec => []FoePresent
<1>1. IInv => FoePresent
  BY TimersAssumption DEF IInv, TypeOK, HeldByAnEvent, FoeInv, FoePresent, InBoss
<1> QED
  BY <1>1, Invariant, PTL

-----------------------------------------------------------------------------
(* The fight as its players see it                                         *)

(***************************************************************************)
(* Why no victory of a party is forgotten: its last ticks come only when   *)
(* nobody was there at the time the boss bot was removed; who starts a     *)
(* fight since then is still waiting when they are over.                   *)
(***************************************************************************)
LeftInv ==
  winWait > 0 /\ winWait <= WinEnd =>
    \/ InBoss = {} /\ (phase = "wait" \/ bossTick = 0)
    \/ ~bossStart /\ bossTick >= Gather + winWait + (IF phase = "wait" THEN 1 ELSE 0)

FightInv == LeftInv /\ (bossStart => bossTick <= Gather)

Follows == Fight!Next \/ UNCHANGED Fight!fightVars

(* Of the timers, what the fight needs. *)
LEMMA Timers ==
  /\ Gather \in Nat /\ Leave \in Nat /\ WinEnd \in Nat /\ Clean \in Nat /\ WinTime \in Nat
  /\ 0 < Leave /\ Leave < Gather /\ 0 < WinEnd /\ WinEnd < Clean /\ Clean < WinTime
  /\ \A w \in BossWaits : w \in Nat /\ Gather < w /\ Gather + WinEnd <= w
BY TimersAssumption

(* Flags and rooms say who can die in a fight or enter it. *)
LEMMA Apart ==
  ASSUME IInv, NEW p \in Players
  PROVE  /\ inBoss[p] => ~inArea[p] /\ (bossTick > 0 \/ bossStart)
         /\ Alive(p) /\ at[p] = "city" => ~inBoss[p]
BY DEF IInv, HeldByAnEvent, RoomsMatch, SpawnRoom

(* Steps that change neither the fight's fields nor its flags. *)
LEMMA FightUntouched ==
  ASSUME FightInv, UNCHANGED <<bossStart, bossTick, winWait, inBoss>>,
         phase # "wait", phase' # "wait"
  PROVE  FightInv' /\ Follows
BY DEF FightInv, LeftInv, Follows, InBoss, Stage, Fight!fightVars

(* One player leaves the fight, if it was in it. *)
LEMMA OneLeaves ==
  ASSUME IInv, FightInv, UNCHANGED <<bossStart, bossTick, winWait, phase>>, NEW p \in Players,
         \/ inBoss' = inBoss
         \/ inBoss' = [inBoss EXCEPT ![p] = FALSE]
  PROVE  FightInv' /\ Follows
<1>1. inBoss \in [Players -> BOOLEAN]
  BY DEF IInv, TypeOK
<1>2. InBoss' = InBoss \/ InBoss' = InBoss \ {p}
  BY <1>1 DEF InBoss
<1>3. FightInv'
  BY <1>2 DEF FightInv, LeftInv
<1>4. Stage' = Stage /\ (winWait > 0)' = (winWait > 0)
  BY DEF Stage
<1>5. CASE InBoss' = InBoss
  BY <1>3, <1>4, <1>5 DEF Follows, Fight!fightVars
<1>6. CASE InBoss' = InBoss \ {p}
  BY <1>3, <1>4, <1>6 DEF Follows, Fight!Next, Fight!Desert
<1> QED
  BY <1>2, <1>5, <1>6

(* What a death alone does to the fight's flags. *)
LEMMA DeathLeaves ==
  ASSUME IInv, NEW p \in Players, NEW g, DieNow({p}, inBoss, g)
  PROVE  inBoss' = inBoss \/ inBoss' = [inBoss EXCEPT ![p] = FALSE]
<1>1. inBoss \in [Players -> BOOLEAN]
  BY DEF IInv, TypeOK
<1>2. inBoss' = [q \in Players |->
                   inBoss[q] /\ ~(q \in {p} /\ Alive(q) /\ bossStart /\ bossTick < Leave)]
  BY DEF DieNow, Die
<1>3. CASE Alive(p) /\ bossStart /\ bossTick < Leave
  BY <1>1, <1>2, <1>3
<1>4. CASE ~(Alive(p) /\ bossStart /\ bossTick < Leave)
  BY <1>1, <1>2, <1>4
<1> QED
  BY <1>3, <1>4

(* Players who are killed, jailed, spawned, made or gone leave or stay. *)
LEMMA PlayersLeave ==
  ASSUME IInv, FightInv, NEW p \in Players,
         \/ Killed(p) \/ SendToJail(p) \/ TryRespawn(p)
         \/ OnClientConnected(p) \/ OnClientDrop(p)
         \/ StartArea(p) \/ EnterArea(p)
  PROVE  FightInv' /\ Follows
<1>1. UNCHANGED <<bossStart, bossTick, winWait, phase>>
  BY DEF Killed, SendToJail, TryRespawn, OnClientConnected, OnClientDrop, StartArea, EnterArea,
     bossVars
<1>2. \/ inBoss' = inBoss
      \/ inBoss' = [inBoss EXCEPT ![p] = FALSE]
  BY DeathLeaves DEF Killed, SendToJail, TryRespawn, OnClientConnected, OnClientDrop, StartArea,
     EnterArea
<1> QED
  BY <1>1, <1>2, OneLeaves

(* A start opens a lobby, unless it only removes an old boss bot. *)
LEMMA StartOpens ==
  ASSUME IInv, FightInv, NEW p \in Players, NEW w \in BossWaits, StartBoss(p, w)
  PROVE  FightInv' /\ Follows
<1>1. CASE RemoveOldBoss
  BY <1>1, FightUntouched DEF StartBoss, RemoveOldBoss, playerVars
<1>2. CASE ~RemoveOldBoss
  <2>1. /\ phase = "play" /\ phase' = phase /\ bossStart = FALSE /\ bossTick = 0
        /\ bossStart' = bossStart /\ bossTick' = w /\ winWait' = winWait
        /\ Die({p}, [inBoss EXCEPT ![p] = TRUE], inArea, bossStart, w, areaEnd)
    BY <1>2 DEF StartBoss, IInv, TypeOK
  <2>2. InBoss = {}
    BY <2>1, Apart DEF InBoss, IInv, TypeOK
  <2>3. InBoss' = {p}
    BY <2>1, <2>2 DEF Die, InBoss, IInv, TypeOK
  <2>4. Stage = "none" /\ Stage' = "lobby"
    BY <2>1, Timers DEF Stage
  <2>5. FightInv'
    BY <2>1, Timers DEF FightInv, LeftInv, IInv, TypeOK
  <2>6. (winWait > 0)' = (winWait > 0)
    BY <2>1
  <2> QED
    BY <2>3, <2>4, <2>5, <2>6 DEF Follows, Fight!Next, Fight!Open
<1> QED
  BY <1>1, <1>2

(* Who walks in joins, unless the fight is closed. *)
LEMMA EnterJoins ==
  ASSUME IInv, FightInv, NEW p \in Players, EnterBoss(p)
  PROVE  FightInv' /\ Follows
<1>1. /\ phase = "play" /\ phase' = phase /\ bossTick > 0 /\ Alive(p) /\ ~inBoss[p]
      /\ bossStart' = bossStart /\ bossTick' = bossTick /\ winWait' = winWait
      /\ inBoss' = [q \in Players |->
                      [inBoss EXCEPT ![p] = TRUE][q]
                        /\ ~(q \in {p} /\ Alive(q) /\ bossStart /\ bossTick < Leave)]
  BY Apart DEF EnterBoss, DieNow, Die, bossVars
<1>2. inBoss \in [Players -> BOOLEAN] /\ bossTick \in Nat /\ bossStart \in BOOLEAN
  BY DEF IInv, TypeOK
<1>3. Stage' = Stage /\ (winWait > 0)' = (winWait > 0)
  BY <1>1 DEF Stage
<1>4. CASE bossStart /\ bossTick < Leave
  <2>1. inBoss' = inBoss
    BY <1>1, <1>2, <1>4
  <2> QED
    BY <1>1, <2>1, FightUntouched
<1>5. CASE ~(bossStart /\ bossTick < Leave)
  <2>1. InBoss' = InBoss \cup {p}
    BY <1>1, <1>2, <1>5 DEF InBoss
  <2>2. Stage \in {"lobby", "gathering"}
    BY <1>1, <1>2, <1>5, Timers DEF Stage
  <2>3. FightInv'
    BY <1>1, <1>2 DEF FightInv, LeftInv
  <2> QED
    BY <1>3, <2>1, <2>2, <2>3 DEF Follows, Fight!Next, Fight!Join
<1> QED
  BY <1>4, <1>5

(* A boss that is beaten in a fight that has closed is a victory. *)
LEMMA BossDies ==
  ASSUME IInv, FightInv, SpawnBoss \/ KillBoss
  PROVE  FightInv' /\ Follows
<1>1. /\ phase = "play" /\ phase' = phase /\ inBoss' = inBoss
      /\ bossStart' = bossStart /\ bossTick' = bossTick
      /\ \/ winWait' = winWait
         \/ winWait' = WinTime /\ bossStart /\ bossTick < Leave /\ winWait = 0
  BY DEF SpawnBoss, KillBoss, playerVars
<1>2. CASE winWait' = winWait
  BY <1>1, <1>2, FightUntouched
<1>3. CASE winWait' = WinTime /\ bossStart /\ bossTick < Leave /\ winWait = 0
  <2>1. Stage = "fighting" /\ Stage' = Stage /\ InBoss' = InBoss
    BY <1>1, <1>3 DEF Stage, InBoss
  <2>2. winWait' > 0 /\ ~(winWait > 0) /\ ~(winWait' <= WinEnd)
    BY <1>3, Timers
  <2>3. FightInv'
    BY <1>1, <2>2 DEF FightInv, LeftInv
  <2> QED
    BY <2>1, <2>2, <2>3 DEF Follows, Fight!Next, Fight!Win
<1> QED
  BY <1>1, <1>2, <1>3

(* The arena's ticks kill nobody who is in the fight. *)
LEMMA ArenaApart ==
  ASSUME IInv, FightInv, StartTick \/ AreaWarmUp \/ AreaGame
  PROVE  FightInv' /\ Follows
<1>1. /\ phase # "wait" /\ phase' # "wait"
      /\ UNCHANGED <<bossStart, bossTick, winWait>>
  BY DEF StartTick, AreaWarmUp, AreaGame, bossVars
<1>2. ASSUME NEW g, NEW left, Die(InArea, inBoss, g, bossStart, bossTick, left)
      PROVE  inBoss' = inBoss
  <2>1. inBoss \in [Players -> BOOLEAN]
    BY DEF IInv, TypeOK
  <2>2. \A p \in Players : inBoss[p] => p \notin InArea
    BY Apart DEF InArea
  <2> QED
    BY <1>2, <2>1, <2>2 DEF Die
<1>3. inBoss' = inBoss
  BY <1>2 DEF StartTick, AreaWarmUp, AreaGame, EmptyArena, playerVars
<1> QED
  BY <1>1, <1>3, FightUntouched

(* After a victory: the party goes home, or waits, or was not there. *)
LEMMA WinFollows ==
  ASSUME IInv, FightInv, BossWin
  PROVE  FightInv' /\ Follows
<1>1. /\ phase = "win" /\ phase' = "wait"
      /\ bossStart \in BOOLEAN /\ bossTick \in Nat /\ winWait \in Nat
      /\ inBoss \in [Players -> BOOLEAN]
  BY DEF BossWin, IInv, TypeOK
<1>2. CASE winWait - 1 = WinEnd /\ SendHome
  <2>1. /\ bossStart' = FALSE /\ bossTick' = 0 /\ winWait' = 0
        /\ inBoss' = [p \in Players |-> FALSE]
    BY <1>2 DEF SendHome, Die
  <2>2. InBoss' = {}
    BY <2>1 DEF InBoss
  <2>3. winWait > 0 /\ ~(winWait' > 0) /\ Stage' = "none"
    BY <1>1, <1>2, <2>1, Timers DEF Stage
  <2>4. FightInv'
    BY <2>1, <2>3 DEF FightInv, LeftInv
  <2> QED
    BY <2>2, <2>3, <2>4 DEF Follows, Fight!Next, Fight!GoHome
<1>3. CASE winWait - 1 = Clean /\ DeleteBotBoss
  <2>1. /\ bossStart' = bossStart /\ bossTick' = bossTick /\ inBoss' = inBoss
        /\ winWait' = IF InBoss = {} THEN WinEnd ELSE Clean
    BY <1>3 DEF DeleteBotBoss, playerVars
  <2>2. InBoss' = InBoss /\ Stage' = Stage
    BY <2>1 DEF InBoss, Stage
  <2>3. winWait > 0 /\ winWait' > 0
    BY <1>1, <1>3, <2>1, Timers
  <2>4. FightInv'
    BY <1>1, <2>1, <2>2, Timers DEF FightInv, LeftInv
  <2> QED
    BY <2>2, <2>3, <2>4 DEF Follows, Fight!fightVars
<1>4. CASE /\ winWait - 1 \notin {WinEnd, Clean} /\ winWait' = Down(winWait)
           /\ UNCHANGED <<bossStart, bossTick, bossBot, playerVars>>
  <2>1. /\ bossStart' = bossStart /\ bossTick' = bossTick /\ inBoss' = inBoss
        /\ InBoss' = InBoss /\ Stage' = Stage
    BY <1>4 DEF playerVars, InBoss, Stage
  <2>2. winWait' = IF winWait > 0 THEN winWait - 1 ELSE 0
    BY <1>4 DEF Down
  <2>3. FightInv'
    BY <1>1, <1>4, <2>1, <2>2, Timers DEF FightInv, LeftInv
  <2>4. CASE winWait = 1
    <3>1. \/ InBoss = {}
          \/ ~bossStart /\ bossTick > 0
      BY <1>1, <2>4, Timers DEF FightInv, LeftInv
    <3>2. InBoss = {} \/ Stage = "lobby"
      BY <3>1 DEF Stage
    <3>3. winWait > 0 /\ ~(winWait' > 0)
      BY <2>2, <2>4
    <3> QED
      BY <2>1, <2>3, <3>2, <3>3 DEF Follows, Fight!Next, Fight!Forget
  <2>5. CASE winWait # 1
    <3>1. (winWait > 0)' = (winWait > 0)
      BY <1>1, <2>2, <2>5
    <3> QED
      BY <2>1, <2>3, <3>1 DEF Follows, Fight!fightVars
  <2> QED
    BY <2>4, <2>5
<1> QED
  BY <1>2, <1>3, <1>4 DEF BossWin

(* The wait goes on, is given up, or ends by moving the party to the boss. *)
LEMMA WaitFollows ==
  ASSUME IInv, FightInv, BossWait
  PROVE  FightInv' /\ Follows
<1>1. /\ phase = "wait" /\ phase' = "loss" /\ winWait' = winWait
      /\ bossStart \in BOOLEAN /\ bossTick \in Nat /\ winWait \in Nat
      /\ inBoss \in [Players -> BOOLEAN]
  BY DEF BossWait, IInv, TypeOK
<1>2. (winWait > 0)' = (winWait > 0)
  BY <1>1
<1>3. CASE Cancel
  <2>1. /\ bossTick > 0 /\ InBoss = {} /\ bossTick' = 0 /\ bossStart' = FALSE
        /\ inBoss' = inBoss /\ InBoss' = InBoss
    BY <1>3 DEF Cancel, playerVars, InBoss
  <2>2. Stage # "none" /\ Stage' = "none"
    BY <2>1 DEF Stage
  <2>3. FightInv'
    BY <2>1 DEF FightInv, LeftInv
  <2> QED
    BY <1>2, <2>1, <2>2, <2>3 DEF Follows, Fight!Next, Fight!Abandon
<1>4. CASE Begin
  <2>0. /\ bossTick - 1 = Gather /\ InBoss # {} /\ bossTick' = Gather /\ bossStart' = TRUE
        /\ Die(InBoss, inBoss, inArea, TRUE, Gather, areaEnd)
    BY <1>4 DEF Begin
  <2>1. bossTick = Gather + 1 /\ InBoss # {} /\ bossTick' = Gather /\ bossStart' = TRUE
    BY <1>1, <2>0, Timers
  <2>2. inBoss' = inBoss
    BY <1>1, <2>0, Timers DEF Die
  <2>3. InBoss' = InBoss
    BY <2>2 DEF InBoss
  <2>4. ~bossStart
    BY <2>1, Timers DEF FightInv
  <2>5. Stage = "lobby" /\ Stage' = "gathering"
    BY <2>1, <2>4, Timers DEF Stage
  <2>6. FightInv'
    BY <1>1, <2>1, <2>3, Timers DEF FightInv, LeftInv
  <2> QED
    BY <1>2, <2>1, <2>3, <2>5, <2>6 DEF Follows, Fight!Next, Fight!Begin
<1>5. CASE /\ bossTick = 0 \/ (InBoss # {} /\ bossTick - 1 # Gather)
           /\ bossTick' = Down(bossTick) /\ UNCHANGED <<bossStart, playerVars>>
  <2>1. /\ bossStart' = bossStart /\ inBoss' = inBoss /\ InBoss' = InBoss
        /\ bossTick' = IF bossTick > 0 THEN bossTick - 1 ELSE 0
    BY <1>5 DEF playerVars, InBoss, Down
  <2>2. FightInv'
    BY <1>1, <1>5, <2>1, Timers DEF FightInv, LeftInv
  <2>3. Stage' = Stage \/ (Stage = "gathering" /\ Stage' = "fighting" /\ InBoss # {})
    <3>1. CASE bossStart
      <4>1. Stage = (IF bossTick < Leave THEN "fighting" ELSE "gathering")
        BY <3>1 DEF Stage
      <4>2. Stage' = (IF bossTick' < Leave THEN "fighting" ELSE "gathering")
        BY <2>1, <3>1 DEF Stage
      <4> QED
        BY <1>1, <1>5, <2>1, <4>1, <4>2, Timers
    <3>2. CASE ~bossStart
      <4>1. bossTick = 0 \/ (bossTick > Gather /\ bossTick - 1 > Gather)
        BY <1>1, <1>5, <3>2, Timers DEF IInv, BegunInv
      <4> QED
        BY <1>1, <2>1, <3>2, <4>1, Timers DEF Stage
    <3> QED
      BY <3>1, <3>2
  <2>4. CASE Stage' = Stage
    BY <1>2, <2>1, <2>2, <2>4 DEF Follows, Fight!fightVars
  <2>5. CASE Stage = "gathering" /\ Stage' = "fighting" /\ InBoss # {}
    BY <1>2, <2>1, <2>2, <2>5 DEF Follows, Fight!Next, Fight!Close
  <2> QED
    BY <2>3, <2>4, <2>5
<1> QED
  BY <1>3, <1>4, <1>5 DEF BossWait

(* A fight that nobody has won is lost only when nobody is in it. *)
LEMMA LossFollows ==
  ASSUME IInv, FightInv, BossLoss
  PROVE  FightInv' /\ Follows
<1>1. /\ phase = "loss" /\ phase' = "play" /\ winWait' = winWait /\ inBoss' = inBoss
      /\ InBoss' = InBoss
  BY DEF BossLoss, playerVars, InBoss
<1>2. CASE Defeated
  <2>1. /\ bossStart /\ InBoss = {} /\ bossTick' = 0 /\ bossStart' = FALSE
    BY <1>2 DEF BossLoss, Defeated
  <2>2. Stage # "none" /\ Stage' = "none"
    BY <2>1 DEF Stage
  <2>3. FightInv'
    BY <1>1, <2>1 DEF FightInv, LeftInv
  <2>4. (winWait > 0)' = (winWait > 0)
    BY <1>1
  <2> QED
    BY <1>1, <2>1, <2>2, <2>3, <2>4 DEF Follows, Fight!Next, Fight!Abandon
<1>3. CASE ~Defeated
  BY <1>1, <1>3, FightUntouched DEF BossLoss
<1> QED
  BY <1>2, <1>3

(* Every step keeps what the refinement rests on and is one of BossFight's. *)
LEMMA FightSteps ==
  ASSUME IInv, FightInv, [Next]_vars
  PROVE  FightInv' /\ Follows
<1>1. CASE OnTick
  BY <1>1, ArenaApart, WinFollows, WaitFollows, LossFollows DEF OnTick
<1>2. CASE SpawnBoss \/ KillBoss
  BY <1>2, BossDies
<1>3. ASSUME NEW p \in Players, Player(p)
      PROVE  FightInv' /\ Follows
  BY <1>3, PlayersLeave, StartOpens, EnterJoins DEF Player
<1>4. CASE UNCHANGED vars
  <2>1. UNCHANGED <<bossStart, bossTick, winWait, inBoss, phase>>
    BY <1>4 DEF vars, bossVars, playerVars
  <2>2. InBoss' = InBoss /\ Stage' = Stage /\ (winWait > 0)' = (winWait > 0)
    BY <2>1 DEF InBoss, Stage
  <2> QED
    BY <2>1, <2>2 DEF FightInv, LeftInv, Follows, Fight!fightVars
<1> QED
  BY <1>1, <1>2, <1>3, <1>4 DEF Next

(***************************************************************************)
(* Boss fights go the way of BossFight whatever players, bots and the two  *)
(* events' timers do: nobody joins a closed fight, and players in one are  *)
(* sent home by a victory (BossTick, EnterBoss, StartBoss, Die).           *)
(***************************************************************************)
THEOREM ImplementsBossFight == Spec => FightSpec
<1>1. Init => FightInv
  BY DEF Init, FightInv, LeftInv
<1>2. Init => Fight!Init
  BY DEF Init, Fight!Init, Stage, InBoss
<1>3. IInv /\ FightInv /\ [Next]_vars => FightInv' /\ [Fight!Next]_(Fight!fightVars)
  BY FightSteps DEF Follows
<1> QED
  BY <1>1, <1>2, <1>3, Invariant, PTL DEF Spec, FightSpec, Fight!Spec

=============================================================================
