---------------------------- MODULE WorldEvents ----------------------------
(***************************************************************************)
(* The two events of a world, the boss fight and the arena game            *)
(* (CGameContext::BossTick, AreaTick and the functions that start and      *)
(* enter them), with the players they move about: CPlayer's flags          *)
(* m_InBossed and m_InArea, CCharacter::Die, which clears them, and        *)
(* CGameControllerMOD::PreSpawn, which chooses where a player comes back.  *)
(*                                                                         *)
(* Timers count ticks of the game thread.  A tick runs AreaTick and        *)
(* BossTick; `phase` is the part of the tick that comes next, and "play"   *)
(* is the time in which characters die, spawn and enter and in which the   *)
(* network adds and removes players.                                       *)
(***************************************************************************)
EXTENDS Integers, FiniteSets

CONSTANTS
  Players,      \* the slots below MAX_PLAYERS
  BossWaits,    \* ticks a boss fight waits for players (5 s to 120 s)
  Gather,       \* ticks left when the waiting players are moved (50)
  Leave,        \* ticks left from which a death leaves the fight (10)
  WinTime,      \* ticks after the boss's death (1000)
  Clean,        \* ticks left when the boss bot is removed (950)
  WinEnd,       \* ticks left when the players are sent home (2)
  AreaWait,     \* ticks an arena game waits for players (60 s)
  AreaGo,       \* ticks left when the game begins (10)
  AreaTime,     \* ticks a game lasts at most (120 s)
  Uninitialised \* what m_AreaStartTick and m_AreaEndGame may hold at first

ASSUME TimersAssumption ==
  /\ {Gather, Leave, WinTime, Clean, WinEnd} \subseteq Nat \ {0}
  /\ {AreaWait, AreaGo, AreaTime} \subseteq Nat \ {0}
  /\ BossWaits \subseteq Nat
  /\ Leave < Gather /\ WinEnd < Clean /\ Clean < WinTime /\ AreaGo < AreaWait
  /\ \A w \in BossWaits :
       Gather < w /\ WinTime - Clean < w - Gather /\ WinEnd <= w - Gather
  /\ Uninitialised \subseteq Nat

ASSUME PlayersAssumption == IsFiniteSet(Players)

VARIABLES
  bossStart, bossTick, winWait, \* m_BossStart, m_BossStartTick, m_WinWaitBoss
  bossBot,                      \* the player in slot BOSSID and its character
  areaTick, areaEnd,            \* m_AreaStartTick, m_AreaEndGame
  body,                         \* per slot: no CPlayer, no character, or one
  at,                           \* per slot: the room its character came to
  inBoss, inArea,               \* m_InBossed, m_InArea
  phase                         \* part of the tick that comes next

bossVars == <<bossStart, bossTick, winWait, bossBot>>
areaVars == <<areaTick, areaEnd>>
playerVars == <<body, at, inBoss, inArea>>
vars == <<bossVars, areaVars, playerVars, phase>>

Bodies == {"absent", "dead", "alive"}
Rooms == {"city", "lobby", "fight", "arena"}
Phases == {"play", "warmup", "game", "win", "wait", "loss"}

(***************************************************************************)
(* m_AreaStartTick and m_AreaEndGame have no initial value.                *)
(***************************************************************************)
Init ==
  /\ bossStart = FALSE /\ bossTick = 0 /\ winWait = 0 /\ bossBot = "absent"
  /\ areaTick \in Uninitialised /\ areaEnd \in Uninitialised
  /\ body = [p \in Players |-> "absent"]
  /\ at = [p \in Players |-> "city"]
  /\ inBoss = [p \in Players |-> FALSE] /\ inArea = [p \in Players |-> FALSE]
  /\ phase = "play"

(* A timer of zero stands still.                                           *)
Down(n) == IF n > 0 THEN n - 1 ELSE 0

Alive(p) == body[p] = "alive"
InBoss == {p \in Players : inBoss[p]}
InArea == {p \in Players : inArea[p]}

-----------------------------------------------------------------------------
(* Death and return of characters                                          *)

(***************************************************************************)
(* Die for the characters among S, when the flags are f and g: a death     *)
(* leaves a fight that has begun, and a game that is being played for      *)
(* `left' more ticks.                                                      *)
(***************************************************************************)
Die(S, f, g, start, tick, left) ==
  /\ body' = [p \in Players |-> IF p \in S /\ Alive(p) THEN "dead" ELSE body[p]]
  /\ inBoss' = [p \in Players |->
                  f[p] /\ ~(p \in S /\ Alive(p) /\ start /\ tick < Leave)]
  /\ inArea' = [p \in Players |-> g[p] /\ ~(p \in S /\ Alive(p) /\ left > 0)]
  /\ UNCHANGED at

DieNow(S, f, g) == Die(S, f, g, bossStart, bossTick, areaEnd)

Killed(p) ==
  /\ phase = "play" /\ Alive(p)
  /\ DieNow({p}, inBoss, inArea)
  /\ UNCHANGED <<bossVars, areaVars, phase>>

(* SendToJail kills a character without leaving any event.                 *)
SendToJail(p) ==
  /\ phase = "play" /\ Alive(p)
  /\ body' = [body EXCEPT ![p] = "dead"]
  /\ UNCHANGED <<bossVars, areaVars, at, inBoss, inArea, phase>>

SpawnRoom(p) ==
  IF inBoss[p] THEN IF bossStart THEN "fight" ELSE "lobby"
  ELSE IF inArea[p] THEN "arena" ELSE "city"

TryRespawn(p) ==
  /\ phase = "play" /\ body[p] = "dead"
  /\ body' = [body EXCEPT ![p] = "alive"]
  /\ at' = [at EXCEPT ![p] = SpawnRoom(p)]
  /\ UNCHANGED <<bossVars, areaVars, inBoss, inArea, phase>>

(* OnClientConnected makes a new CPlayer, also after a change of map.      *)
OnClientConnected(p) ==
  /\ phase = "play" /\ body[p] = "absent"
  /\ body' = [body EXCEPT ![p] = "dead"]
  /\ UNCHANGED <<bossVars, areaVars, at, inBoss, inArea, phase>>

(* OnClientDrop and PrepareClientChangeMap delete it, with its flags.      *)
OnClientDrop(p) ==
  /\ phase = "play" /\ body[p] # "absent"
  /\ body' = [body EXCEPT ![p] = "absent"]
  /\ inBoss' = [inBoss EXCEPT ![p] = FALSE]
  /\ inArea' = [inArea EXCEPT ![p] = FALSE]
  /\ UNCHANGED <<bossVars, areaVars, at, phase>>

-----------------------------------------------------------------------------
(* The boss fight                                                          *)

SpawnBoss ==
  /\ phase = "play" /\ bossBot = "dead"
  /\ bossBot' = "alive"
  /\ UNCHANGED <<bossStart, bossTick, winWait, areaVars, playerVars, phase>>

KillBossAgain ==   \* mutant: m_WinWaitBoss is not looked at
  /\ phase = "play" /\ bossBot = "alive"
  /\ bossBot' = "dead"
  /\ winWait' = IF bossStart /\ bossTick < Leave THEN WinTime ELSE winWait
  /\ UNCHANGED <<bossStart, bossTick, areaVars, playerVars, phase>>

KillBoss ==
  /\ phase = "play" /\ bossBot = "alive"
  /\ bossBot' = "dead"
  /\ winWait' = IF bossStart /\ bossTick < Leave /\ winWait = 0 THEN WinTime ELSE winWait
  /\ UNCHANGED <<bossStart, bossTick, areaVars, playerVars, phase>>

(* A boss bot that is still there is removed, and no fight begins.         *)
RemoveOldBoss ==
  /\ bossBot # "absent" /\ bossBot' = "absent"
  /\ UNCHANGED <<bossStart, bossTick, winWait, playerVars>>

StartBossNoReturn(p, w) ==   \* mutant: goes on after removing the old boss
  /\ phase = "play" /\ Alive(p)
  /\ ~bossStart /\ bossTick = 0 /\ ~inArea[p]
  /\ bossBot' = IF bossBot = "absent" THEN "dead" ELSE "absent"
  /\ bossTick' = w
  /\ Die({p}, [inBoss EXCEPT ![p] = TRUE], inArea, bossStart, w, areaEnd)
  /\ UNCHANGED <<bossStart, winWait, areaVars, phase>>

StartBoss(p, w) ==
  /\ phase = "play" /\ Alive(p)
  /\ ~bossStart /\ bossTick = 0 /\ ~inArea[p]
  /\ \/ RemoveOldBoss
     \/ /\ bossBot = "absent" /\ bossBot' = "dead"
        /\ bossTick' = w
        /\ Die({p}, [inBoss EXCEPT ![p] = TRUE], inArea, bossStart, w, areaEnd)
        /\ UNCHANGED <<bossStart, winWait>>
  /\ UNCHANGED <<areaVars, phase>>

(* A character of the open map walks into the boss zone.                   *)
EnterBoss(p) ==
  /\ phase = "play" /\ Alive(p) /\ at[p] = "city"
  /\ bossTick > 0
  /\ DieNow({p}, [inBoss EXCEPT ![p] = TRUE], inArea)
  /\ UNCHANGED <<bossVars, areaVars, phase>>

SendHomeKeepingFlags ==   \* mutant: the flags are left to Die
  /\ bossStart' = FALSE /\ bossTick' = 0 /\ winWait' = 0
  /\ DieNow(InBoss, inBoss, inArea)
  /\ UNCHANGED bossBot

(* The first part of BossTick: what follows a victory.                     *)
SendHome ==
  /\ bossStart' = FALSE /\ bossTick' = 0 /\ winWait' = 0
  /\ Die(InBoss, [p \in Players |-> FALSE], inArea, FALSE, 0, areaEnd)
  /\ UNCHANGED bossBot

DeleteBotBossUncounted ==   \* mutant: GetBossCount is not asked
  /\ bossBot' = "absent"
  /\ winWait' = WinEnd
  /\ UNCHANGED <<bossStart, bossTick, playerVars>>

DeleteBotBoss ==
  /\ bossBot' = "absent"
  /\ winWait' = IF InBoss = {} THEN WinEnd ELSE Clean
  /\ UNCHANGED <<bossStart, bossTick, playerVars>>

BossWin ==
  /\ phase = "win" /\ phase' = "wait"
  /\ \/ winWait - 1 = WinEnd /\ SendHome
     \/ winWait - 1 = Clean /\ DeleteBotBoss
     \/ /\ winWait - 1 \notin {WinEnd, Clean}
        /\ winWait' = Down(winWait)
        /\ UNCHANGED <<bossStart, bossTick, bossBot, playerVars>>
  /\ UNCHANGED areaVars

(* The second part: waiting for players, who are moved when it ends.       *)
Cancel ==
  /\ bossTick > 0 /\ InBoss = {}
  /\ bossTick' = 0 /\ bossStart' = FALSE
  /\ UNCHANGED playerVars

BeginUnmoved ==   \* mutant: the players in the lobby are not moved
  /\ bossTick - 1 = Gather /\ InBoss # {}
  /\ bossTick' = Gather /\ bossStart' = TRUE
  /\ UNCHANGED playerVars

Begin ==
  /\ bossTick - 1 = Gather /\ InBoss # {}
  /\ bossTick' = Gather /\ bossStart' = TRUE
  /\ Die(InBoss, inBoss, inArea, TRUE, Gather, areaEnd)

BossWait ==
  /\ phase = "wait" /\ phase' = "loss"
  /\ \/ Cancel
     \/ Begin
     \/ /\ bossTick = 0 \/ (InBoss # {} /\ bossTick - 1 # Gather)
        /\ bossTick' = Down(bossTick)
        /\ UNCHANGED <<bossStart, playerVars>>
  /\ UNCHANGED <<winWait, bossBot, areaVars>>

DefeatedByLivingBoss ==   \* mutant: only a boss with a character can win
  bossStart /\ InBoss = {} /\ winWait = 0 /\ bossBot = "alive"

(* The third part: nobody is left in a fight that is not won.              *)
Defeated == bossStart /\ InBoss = {} /\ winWait = 0

BossLoss ==
  /\ phase = "loss" /\ phase' = "play"
  /\ \/ /\ Defeated
        /\ bossTick' = 0 /\ bossStart' = FALSE /\ bossBot' = "absent"
     \/ /\ ~Defeated
        /\ UNCHANGED <<bossStart, bossTick, bossBot>>
  /\ UNCHANGED <<winWait, areaVars, playerVars>>

-----------------------------------------------------------------------------
(* The arena                                                               *)

StartArea(p) ==
  /\ phase = "play" /\ Alive(p)
  /\ areaTick = 0 /\ areaEnd = 0 /\ ~inBoss[p]
  /\ areaTick' = AreaWait
  /\ DieNow({p}, inBoss, [inArea EXCEPT ![p] = TRUE])
  /\ UNCHANGED <<bossVars, areaEnd, phase>>

(* A character of the open map walks into the game room.                   *)
EnterArea(p) ==
  /\ phase = "play" /\ Alive(p) /\ at[p] = "city"
  /\ areaTick > 0 /\ ~inBoss[p]
  /\ DieNow({p}, inBoss, [inArea EXCEPT ![p] = TRUE])
  /\ UNCHANGED <<bossVars, areaVars, phase>>

(* m_InArea is cleared for all, and those with a character die.            *)
EmptyArena(left) ==
  Die(InArea, inBoss, [p \in Players |-> FALSE], bossStart, bossTick, left)

(* The first part of AreaTick: waiting for players.                        *)
AreaWarmUp ==
  /\ phase = "warmup" /\ phase' = "game"
  /\ areaTick' = Down(areaTick)
  /\ \/ /\ areaTick - 1 = AreaGo /\ Cardinality(InArea) < 2
        /\ EmptyArena(areaEnd)
        /\ UNCHANGED areaEnd
     \/ /\ areaTick - 1 = AreaGo /\ Cardinality(InArea) >= 2
        /\ areaEnd' = AreaTime
        /\ UNCHANGED playerVars
     \/ /\ areaTick - 1 # AreaGo
        /\ UNCHANGED <<areaEnd, playerVars>>
  /\ UNCHANGED bossVars

(***************************************************************************)
(* The second part: a game ends when its time is over, when nobody is left *)
(* in it, or when one player is, who wins and dies if it has a character.  *)
(***************************************************************************)
AreaGame ==
  /\ phase = "game" /\ phase' = "win"
  /\ \/ /\ areaEnd = 1 \/ (areaEnd > 0 /\ InArea = {})
        /\ areaEnd' = 0 /\ EmptyArena(0)
     \/ /\ areaEnd > 1 /\ Cardinality(InArea) = 1
        /\ areaEnd' = 0 /\ Die(InArea, inBoss, inArea, bossStart, bossTick, areaEnd - 1)
     \/ /\ areaEnd > 1 /\ Cardinality(InArea) > 1
        /\ areaEnd' = areaEnd - 1 /\ UNCHANGED playerVars
     \/ areaEnd = 0 /\ UNCHANGED <<areaEnd, playerVars>>
  /\ UNCHANGED <<bossVars, areaTick>>

-----------------------------------------------------------------------------
(* OnTick runs the two in this order once everything else has moved.       *)
StartTick ==
  /\ phase = "play" /\ phase' = "warmup"
  /\ UNCHANGED <<bossVars, areaVars, playerVars>>

OnTick == StartTick \/ AreaWarmUp \/ AreaGame \/ BossWin \/ BossWait \/ BossLoss

Player(p) ==
  \/ Killed(p) \/ SendToJail(p) \/ TryRespawn(p)
  \/ OnClientConnected(p) \/ OnClientDrop(p)
  \/ \E w \in BossWaits : StartBoss(p, w)
  \/ EnterBoss(p) \/ StartArea(p) \/ EnterArea(p)

Next == OnTick \/ SpawnBoss \/ KillBoss \/ \E p \in Players : Player(p)

Spec == Init /\ [][Next]_vars

(* The main loop goes on ticking.                                          *)
FairSpec == Spec /\ WF_vars(OnTick)

-----------------------------------------------------------------------------
(* Properties                                                              *)

TypeOK ==
  /\ bossStart \in BOOLEAN /\ bossTick \in Nat /\ winWait \in Nat
  /\ bossBot \in Bodies
  /\ areaTick \in Nat /\ areaEnd \in Nat
  /\ body \in [Players -> Bodies] /\ at \in [Players -> Rooms]
  /\ inBoss \in [Players -> BOOLEAN] /\ inArea \in [Players -> BOOLEAN]
  /\ phase \in Phases

(***************************************************************************)
(* Nobody is held in a boss fight that neither waits nor runs, and nobody  *)
(* is in the fight and in the arena at once: each event checks only some   *)
(* of the flags of the other.                                              *)
(***************************************************************************)
HeldByAnEvent ==
  \A p \in Players :
    inBoss[p] => (bossTick > 0 \/ bossStart) /\ ~inArea[p]

(***************************************************************************)
(* A character stands in the room its player's flags call for: nobody is   *)
(* left in the lobby once the fight has begun, or in the boss's room once  *)
(* it has ended, although the rooms are chosen only when a character       *)
(* spawns.                                                                 *)
(***************************************************************************)
RoomsMatch ==
  \A p \in Players : Alive(p) => at[p] = SpawnRoom(p)

(***************************************************************************)
(* Players in a fight that has begun and is not won have a boss to win     *)
(* against, whichever boss bot earlier fights have left or removed.        *)
(***************************************************************************)
FoePresent == bossStart /\ winWait = 0 /\ InBoss # {} => bossBot # "absent"

(* The part of BossTick that the fight has come to.                        *)
Stage ==
  IF bossStart THEN IF bossTick < Leave THEN "fighting" ELSE "gathering"
  ELSE IF bossTick > 0 THEN "lobby" ELSE "none"

Fight == INSTANCE BossFight WITH stage <- Stage, party <- InBoss, victory <- winWait > 0

(***************************************************************************)
(* The fights follow BossFight: players get into one and out of it as it   *)
(* says, and players in a fight that has begun get home only after a       *)
(* victory, although flags and timers are set by eight functions.          *)
(***************************************************************************)
FightSpec == Fight!Spec

(***************************************************************************)
(* A fight that everybody has left ends, unless somebody comes in time, so *)
(* that another can be started.                                            *)
(***************************************************************************)
EmptyFightEnds == bossStart /\ InBoss = {} ~> ~bossStart \/ InBoss # {}

(***************************************************************************)
(* A boss that is beaten lets the players go home.                         *)
(***************************************************************************)
VictoryEnds == winWait > 0 /\ bossStart ~> ~bossStart /\ InBoss = {}

(***************************************************************************)
(* "If the player died he has left the arena" (the comment in              *)
(* CCharacter::Die): once the waiting is over, a player that is killed in  *)
(* the arena does not come back to it.                                     *)
(***************************************************************************)
DeathLeavesArena ==
  [][\A p \in Players : Killed(p) /\ inArea[p] /\ areaTick = 0 => ~inArea'[p]]_vars

=============================================================================
