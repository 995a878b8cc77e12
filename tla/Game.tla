------------------------------- MODULE Game -------------------------------
(***************************************************************************)
(* The game engine of a room: lib/game_lib (Game, GameMap, PlayerObject,   *)
(* ProjectileObject) as server/room.cpp drives it.                         *)
(*                                                                         *)
(* The room's thread is the only one that touches a Game, so every handler *)
(* is one action: a command of a player (MovePlayer, ShootProjectile), the *)
(* loss of a player's connection (KillPlayer), and a timer tick.  A tick   *)
(* (Room::ApplyGameChanges) is the sequence UpdatePlayers, one             *)
(* MoveProjectile per projectile in the order of an unordered_set, and     *)
(* FinishUpdate; nothing else runs between them.                           *)
(***************************************************************************)
EXTENDS Grid, FiniteSets, Sequences

CONSTANTS
  Players,        \* the players passed to Game::Init
  Bullets,        \* identities of projectile objects; bounds those in flight
  Items,          \* health packs and mines: a function from cells to values
  InitialHealth,  \* initial_health_
  HitValue,       \* hit_value_
  MovementDrop,   \* movement_health_drop_
  StayDrop,       \* stay_health_drop_; negative values heal
  Movements,      \* the initial movements_left of a projectile (10 in the code)
  MaxUpdates,     \* bound on the timer periods one tick may stand for
  Discovery,      \* for each cell, the other cells in the order FindTarget sees them
  NextDirection   \* TargetDirection: first step from one cell towards another

(***************************************************************************)
(* hit_value is not validated by the settings loader; the engine is only   *)
(* meaningful when a hit does not heal.                                    *)
(***************************************************************************)
ASSUME SettingsAssumption ==
  /\ IsFiniteSet(Players)
  /\ DOMAIN Items \subseteq Open
  /\ \A c \in DOMAIN Items : Items[c] \in Int
  /\ InitialHealth \in Nat \ {0}
  /\ HitValue \in Nat
  /\ MovementDrop \in Int /\ StayDrop \in Int
  /\ Movements \in Nat \ {0}
  /\ MaxUpdates \in Nat \ {0}

(***************************************************************************)
(* What the engine relies on in the two searches of ProjectileObject:      *)
(* FindTarget looks at open cells other than the start that can be         *)
(* reached, TargetDirection steps onto an open cell, and whether there is  *)
(* a way does not change when either end moves to a neighbouring cell.     *)
(* Module Pathfinding defines both as the code computes them.              *)
(***************************************************************************)
Reachable(s, e) == NextDirection[s][e] # "UNKNOWN_DIRECTION"

ASSUME SearchAssumption ==
  /\ Discovery \in [Open -> Seq(Open)]
  /\ \A s \in Open : \A i \in DOMAIN Discovery[s] :
       Discovery[s][i] # s /\ Reachable(s, Discovery[s][i])
  /\ \A s \in Open : \A e \in Open \ {s} :
       /\ NextDirection[s][e] \in Directions \union {"UNKNOWN_DIRECTION"}
       /\ Reachable(s, e) => Step(s, NextDirection[s][e]) \in Open
       /\ \A d \in Directions :
            /\ Step(s, d) \in Open \ {e} => (Reachable(s, e) <=> Reachable(Step(s, d), e))
            /\ Step(e, d) \in Open \ {s} => (Reachable(s, e) <=> Reachable(s, Step(e, d)))

VARIABLES
  grid,       \* map_: the object in each cell
  health,     \* health_value_ of each player
  position,   \* position_ of each player
  moved,      \* is_moved of each player
  bullet,     \* projectiles_: the fields of each projectile in flight
  connected,  \* players whose connection the room still serves
  todo,       \* projectiles the running tick has still to move
  phase,      \* "idle", or "projectiles" while a tick is running
  ended,      \* is_ended_
  stopped     \* the room left its loop because the game is over

vars == <<grid, health, position, moved, bullet, connected, todo, phase, ended,
          stopped>>

-----------------------------------------------------------------------------
(* Objects on the map (GameObjectType).                                    *)

VoidObject == [type |-> "VOID"]
WallObject == [type |-> "WALL"]
HealthPackObject(v) == [type |-> "HEALTH_PACK", value |-> v]
PlayerObject(p) == [type |-> "PLAYER", id |-> p]
ProjectileObject(b) == [type |-> "PROJECTILE", id |-> b]

Object == {VoidObject, WallObject}
            \union [type : {"HEALTH_PACK"}, value : Int]
            \union [type : {"PLAYER"}, id : Players]
            \union [type : {"PROJECTILE"}, id : Bullets]

Projectile == [pos : Open, target : Players, left : 1 .. Movements]

HitUnbounded(h, damage) == h - damage  \* Fault: below zero

\* PlayerObject::Hit: health never drops below zero, a negative damage heals
Hit(h, damage) == IF h - damage > 0 THEN h - damage ELSE 0

IsAlive(p) == health[p] > 0

Alive == {p \in Players : IsAlive(p)}

IsAvailablePlayer(c) == c \in Cells /\ grid[c].type # "WALL"  \* Fault: onto other players

\* GameMap::IsAvailable
IsAvailable(c) == c \in Cells /\ grid[c].type \notin {"WALL", "PLAYER"}

WithBullet(b, fields) ==
  [x \in DOMAIN bullet \union {b} |-> IF x = b THEN fields ELSE bullet[x]]

\* Fault: the projectile leaves the map but stays in projectiles_
WithoutBulletKept(b) == bullet

WithoutBullet(b) == [x \in DOMAIN bullet \ {b} |-> bullet[x]]

(***************************************************************************)
(* FindTarget: the player standing on the first discovered cell that holds *)
(* a player, as a set that is empty when no player can be reached.  Dead   *)
(* players stay on the map until the next tick, so they can be found.      *)
(***************************************************************************)
FindTarget(start) ==
  LET order == Discovery[start]
      seen == {i \in DOMAIN order : grid[order[i]].type = "PLAYER"}
  IN  {grid[order[i]].id : i \in {j \in seen : \A k \in seen : j <= k}}

-----------------------------------------------------------------------------
(***************************************************************************)
(* Game::Init and GameMap::Init: every player is placed on a random empty  *)
(* cell.                                                                   *)
(***************************************************************************)
Init ==
  /\ position \in [Players -> Open \ DOMAIN Items]
  /\ \A p, q \in Players : position[p] = position[q] => p = q
  /\ grid = [c \in Cells |->
               CASE c \in Walls -> WallObject
                 [] c \in DOMAIN Items -> HealthPackObject(Items[c])
                 [] \E p \in Players : position[p] = c ->
                      PlayerObject(CHOOSE p \in Players : position[p] = c)
                 [] OTHER -> VoidObject]
  /\ health = [p \in Players |-> InitialHealth]
  /\ moved = [p \in Players |-> FALSE]
  /\ bullet = [b \in {} |-> <<>>]
  /\ connected = Players
  /\ todo = {}
  /\ phase = "idle"
  /\ ended = FALSE
  /\ stopped = FALSE

\* The room serves events: no tick is running and its loop goes on
Serving == phase = "idle" /\ ~stopped

(***************************************************************************)
(* Game::MovePlayer.  Walking into a projectile takes its damage and       *)
(* removes it; walking onto a health pack (or mine) uses it up.  A player  *)
(* killed by the step is moved all the same.                               *)
(***************************************************************************)
MovePlayer(p, d) ==
  LET old == position[p]
      new == Step(old, d)
  IN  /\ Serving
      /\ p \in connected
      /\ IsAlive(p)
      /\ IsAvailable(new)
      /\ \/ /\ grid[new].type = "PROJECTILE"
            /\ health' = [health EXCEPT ![p] = Hit(@, HitValue)]
            /\ bullet' = WithoutBullet(grid[new].id)
         \/ /\ grid[new].type = "HEALTH_PACK"
            /\ health' = [health EXCEPT ![p] = Hit(@, -grid[new].value)]
            /\ UNCHANGED bullet
         \/ /\ grid[new].type \notin {"PROJECTILE", "HEALTH_PACK"}
            /\ UNCHANGED <<health, bullet>>
      /\ grid' = [grid EXCEPT ![new] = grid[old], ![old] = VoidObject]
      /\ position' = [position EXCEPT ![p] = new]
      /\ moved' = [moved EXCEPT ![p] = TRUE]
      /\ UNCHANGED <<connected, todo, phase, ended, stopped>>

(***************************************************************************)
(* Game::ShootProjectile.  The code does not ask whether the shooter is    *)
(* alive.  The shot is lost when there is no living target, no way to it,  *)
(* or a projectile already where it would appear.                          *)
(***************************************************************************)
ShootProjectile(p) ==
  /\ Serving
  /\ p \in connected
  /\ \E t \in FindTarget(position[p]) :
       LET d == NextDirection[position[p]][position[t]]
           spawn == Step(position[p], d)
       IN  /\ IsAlive(t)
           /\ d # "UNKNOWN_DIRECTION"
           /\ \/ /\ grid[spawn].type = "PLAYER"
                 /\ health' = [health EXCEPT ![grid[spawn].id] = Hit(@, HitValue)]
                 /\ UNCHANGED <<grid, bullet>>
              \/ /\ grid[spawn].type \notin {"PLAYER", "PROJECTILE"}
                 /\ \E b \in Bullets \ DOMAIN bullet :
                      /\ bullet' = WithBullet(b, [pos |-> spawn, target |-> t,
                                                  left |-> Movements])
                      /\ grid' = [grid EXCEPT ![spawn] = ProjectileObject(b)]
                 /\ UNCHANGED health
  /\ UNCHANGED <<position, moved, connected, todo, phase, ended, stopped>>

(***************************************************************************)
(* Room::ManageGame on a hang-up or a failed read: Game::KillPlayer, then  *)
(* the connection is closed and no command of the player follows.          *)
(***************************************************************************)
KillPlayer(p) ==
  /\ Serving
  /\ p \in connected
  /\ health' = [health EXCEPT ![p] = 0]
  /\ connected' = connected \ {p}
  /\ UNCHANGED <<grid, position, moved, bullet, todo, phase, ended, stopped>>

(***************************************************************************)
(* Game::UpdateGame, first loop: the periodic change of health.  n is the  *)
(* number of timer periods since the last tick that was served.            *)
(***************************************************************************)
DrainedDeadToo(p, n) ==  \* Fault: the dead are not skipped
  Hit(health[p], StayDrop * n)

\* The health of a player who moved, when the step is paid for
StepPaid(p) == Hit(health[p], MovementDrop)

\* The other periods follow at once: what they give back may raise it from zero
Drained(p, n) ==
  CASE ~IsAlive(p) -> health[p]
    [] IsAlive(p) /\ ~moved[p] -> Hit(health[p], StayDrop * n)
    [] OTHER -> Hit(StepPaid(p), StayDrop * (n - 1))

UpdatePlayers(n) ==
  /\ Serving
  /\ health' = [p \in Players |-> Drained(p, n)]
  /\ moved' = [p \in Players |-> moved[p] /\ ~IsAlive(p)]
  /\ todo' = DOMAIN bullet
  /\ phase' = "projectiles"
  /\ UNCHANGED <<grid, position, bullet, connected, ended, stopped>>

\* --movements_left
MovesLeftUnchanged(b) == bullet[b].left  \* Fault: never used up

MovesLeft(b) == bullet[b].left - 1

\* Where Move turns to: nowhere when the target died or the last move is used up
Heading(b) ==
  LET shot == bullet[b]
  IN  IF IsAlive(shot.target) /\ MovesLeft(b) > 0
      THEN NextDirection[shot.pos][position[shot.target]]
      ELSE "UNKNOWN_DIRECTION"

\* Move returned false: the cell is cleared and the projectile dropped
DropProjectile(b) ==
  /\ grid' = [grid EXCEPT ![bullet[b].pos] = VoidObject]
  /\ bullet' = WithoutBullet(b)

(***************************************************************************)
(* Game::UpdateGame, second loop: ProjectileObject::Move for one           *)
(* projectile.  The code erases the dropped ones after the loop; they no   *)
(* longer are on the map and nothing in the loop looks at the set.         *)
(***************************************************************************)
MoveProjectile(b) ==
  LET here == bullet[b].pos
      d == Heading(b)
      new == Step(here, d)
  IN  /\ phase = "projectiles"
      /\ b \in todo
      /\ todo' = todo \ {b}
      /\ \/ /\ d = "UNKNOWN_DIRECTION"
            /\ DropProjectile(b)
            /\ UNCHANGED health
         \/ /\ d # "UNKNOWN_DIRECTION"
            /\ grid[new].type = "PLAYER"
            /\ health' = [health EXCEPT ![grid[new].id] = Hit(@, HitValue)]
            /\ DropProjectile(b)
         \/ /\ d # "UNKNOWN_DIRECTION"
            /\ grid[new].type = "PROJECTILE"
            /\ DropProjectile(b)
            /\ UNCHANGED health
         \/ /\ d # "UNKNOWN_DIRECTION"
            /\ grid[new].type \notin {"PLAYER", "PROJECTILE"}
            /\ grid' = [grid EXCEPT ![new] = grid[here], ![here] = VoidObject]
            /\ bullet' = [bullet EXCEPT ![b].pos = new, ![b].left = MovesLeft(b)]
            /\ UNCHANGED health
      /\ UNCHANGED <<position, moved, connected, phase, ended, stopped>>

(***************************************************************************)
(* The rest of the tick: UpdateGame counts the survivors, the              *)
(* Game::GetInfo of Room::UpdateGameInfo clears the cells of the dead, and *)
(* Room::ManageGame leaves its loop once the game is over -- unless        *)
(* SendBuffers threw because of a peer that is gone, in which case IsEnded *)
(* is not asked before the next tick.                                      *)
(***************************************************************************)
GameOverOneLeft == Cardinality(Alive) = 1  \* Fault: all may die in one tick

GameOver == Cardinality(Alive) <= 1

FinishUpdate ==
  /\ phase = "projectiles"
  /\ todo = {}
  /\ phase' = "idle"
  /\ ended' = (ended \/ GameOver)
  /\ stopped' \in {FALSE, ended'}
  /\ grid' = [c \in Cells |-> IF grid[c].type = "PLAYER" /\ ~IsAlive(grid[c].id)
                              THEN VoidObject ELSE grid[c]]
  /\ UNCHANGED <<health, position, moved, bullet, connected, todo>>

Tick == \/ \E n \in 1 .. MaxUpdates : UpdatePlayers(n)
        \/ \E b \in Bullets : MoveProjectile(b)
        \/ FinishUpdate

Next == \/ \E p \in Players, d \in Directions : MovePlayer(p, d)
        \/ \E p \in Players : ShootProjectile(p)
        \/ \E p \in Players : KillPlayer(p)
        \/ Tick

Spec == Init /\ [][Next]_vars

(***************************************************************************)
(* The timer of the room is periodic and the room's loop serves it as long *)
(* as the game goes on: ticks happen and run to their end.                 *)
(***************************************************************************)
FairSpec == Spec /\ WF_vars(Tick)

-----------------------------------------------------------------------------
(***************************************************************************)
(* The types of the variables.  The moves a projectile has left are        *)
(* positive as long as it flies.                                           *)
(***************************************************************************)
TypeOK ==
  /\ grid \in [Cells -> Object]
  /\ health \in [Players -> Nat]
  /\ position \in [Players -> Open]
  /\ moved \in [Players -> BOOLEAN]
  /\ DOMAIN bullet \subseteq Bullets
  /\ bullet \in [DOMAIN bullet -> Projectile]
  /\ connected \subseteq Players
  /\ todo \subseteq Bullets
  /\ phase \in {"idle", "projectiles"}
  /\ ended \in BOOLEAN
  /\ stopped \in BOOLEAN

(***************************************************************************)
(* A player's position_ and the map are two records of the same fact, kept *)
(* by different functions (MovePlayer, GetInfo).  A living player is on    *)
(* the map where its position_ says, and a cell that shows a player, alive *)
(* or dead, is that player's position_: no player is erased, duplicated or *)
(* left behind.                                                            *)
(***************************************************************************)
PlayersOnMap ==
  /\ \A p \in Players : IsAlive(p) => /\ grid[position[p]].type = "PLAYER"
                                      /\ grid[position[p]].id = p
  /\ \A c \in Cells : grid[c].type = "PLAYER" => position[grid[c].id] = c

(***************************************************************************)
(* projectiles_ and the map agree: a projectile in flight is in the cell   *)
(* of its position_ and in no other, and no cell shows one that is no      *)
(* longer in flight (MovePlayer would take damage from a ghost).  While a  *)
(* tick runs, only projectiles in flight are still to be moved, and they   *)
(* all are before the room serves anything else.                           *)
(***************************************************************************)
BulletsOnMap ==
  /\ \A b \in DOMAIN bullet : /\ grid[bullet[b].pos].type = "PROJECTILE"
                             /\ grid[bullet[b].pos].id = b
  /\ \A c \in Cells : grid[c].type = "PROJECTILE" =>
       grid[c].id \in DOMAIN bullet /\ bullet[grid[c].id].pos = c
  /\ todo \subseteq DOMAIN bullet
  /\ phase = "idle" => todo = {}

(***************************************************************************)
(* The walls of the settings' map stand: nothing is moved onto a wall or   *)
(* out of one, whatever players and projectiles do.                        *)
(***************************************************************************)
WallsStand == \A c \in Cells : grid[c].type = "WALL" <=> c \in Walls

(***************************************************************************)
(* TargetDirection follows previous_point back until it meets the start,   *)
(* which never ends when start and target are the same cell.  Neither the  *)
(* projectiles nor the players that move in between can bring that about,  *)
(* and a living target can always be reached.                              *)
(***************************************************************************)
Pursuit ==
  \A b \in DOMAIN bullet :
    LET shot == bullet[b]
    IN  IsAlive(shot.target) => /\ shot.pos # position[shot.target]
                                /\ Reachable(shot.pos, position[shot.target])

\* is_ended_ is never taken back by a player who recovers: nobody does
EndedForGood == ended => Cardinality(Alive) <= 1

(***************************************************************************)
(* Nobody who is dead when a handler begins is alive when it ends: neither *)
(* the health that standing still gives back, nor a health pack, nor the   *)
(* periods of a late tick.  Of a player whose health is zero only in the   *)
(* middle of UpdateGame it says nothing; that is LosesAtZero.              *)
(***************************************************************************)
DeadStayDead == [][\A p \in Players : ~IsAlive(p) => health'[p] = 0]_vars

(***************************************************************************)
(* README.md: "You lose, when your HP <= 0".  Whoever has no health left,  *)
(* before a step or in the middle of a tick when a move has been paid for, *)
(* has none after it.  The code keeps this while ticks are on time; a late *)
(* one takes the price of the move first and then gives back, with a       *)
(* negative stay_health_drop_, the health of the other periods.            *)
(***************************************************************************)
LosesAtZero ==
  [][\A p \in Players :
       \/ ~IsAlive(p)
       \/ /\ phase = "idle" /\ phase' = "projectiles"
          /\ moved[p] /\ StepPaid(p) = 0
       => health'[p] = 0]_vars

(***************************************************************************)
(* A projectile does not fly for ever: it is used up, collides, or the     *)
(* room stops.  That it may be used up without a collision, which          *)
(* README.md does not know of, is PursuesUntilHit.                         *)
(***************************************************************************)
BulletsVanish ==
  \A b \in Bullets : (b \in DOMAIN bullet) ~> (b \notin DOMAIN bullet \/ stopped)

(***************************************************************************)
(* README.md: a bullet does "persue target until bullet collide with       *)
(* player".  While its target lives, a projectile only vanishes when a     *)
(* player walks into it, or when a player is on the next cell of its way.  *)
(* The code does not keep this: it also gives a projectile up after        *)
(* movements_left moves, wherever it is.                                   *)
(***************************************************************************)
PursuesUntilHit ==
  [][\A b \in DOMAIN bullet \ DOMAIN bullet' :
       LET here == bullet[b].pos
           d == NextDirection[here][position[bullet[b].target]]
       IN  IsAlive(bullet[b].target) =>
             \E p \in Players : position'[p] = here \/ position[p] = Step(here, d)]_vars

\* What the game is to the room and the players
Contest == INSTANCE Elimination WITH alive <- Alive, over <- ended

(***************************************************************************)
(* README.md: "Your main purpose to be last to die in this game".  Seen    *)
(* from outside the engine is an elimination: commands, ticks and lost     *)
(* connections only ever take players out, nobody comes back, the end is   *)
(* announced only when at most one is left, is never taken back, and once  *)
(* at most one is left it is announced in the end.                         *)
(***************************************************************************)
PlaysContest == Contest!FairSpec
=============================================================================
