----------------------------- MODULE GameProofs -----------------------------
(***************************************************************************)
(* Proofs about module Game, for every map, every number of players and    *)
(* projectiles and all settings the assumptions admit.                     *)
(*                                                                         *)
(* None of the map's invariants is inductive alone: a player is kept on    *)
(* the map because nobody may walk onto it, a projectile's position is     *)
(* its own because nothing else is put there, and a projectile steps onto  *)
(* an open cell because it never stands where its target is.  They are     *)
(* proved together, as IInv.                                               *)
(***************************************************************************)
EXTENDS Game, FiniteSetTheorems, TLAPS

IInv == TypeOK /\ PlayersOnMap /\ BulletsOnMap /\ WallsStand /\ Pursuit

-----------------------------------------------------------------------------
(* Facts about the operators.                                              *)

LEMMA ObjectFacts ==
  ASSUME NEW o \in Object
  PROVE  /\ o.type \in {"VOID", "WALL", "HEALTH_PACK", "PLAYER", "PROJECTILE"}
         /\ o.type = "PLAYER" => o.id \in Players
         /\ o.type = "PROJECTILE" => o.id \in Bullets
         /\ o.type = "HEALTH_PACK" => o.value \in Int
BY DEF Object, VoidObject, WallObject

LEMMA MadeObjects ==
  /\ VoidObject \in Object /\ VoidObject.type = "VOID"
  /\ WallObject \in Object /\ WallObject.type = "WALL"
  /\ \A v \in Int : HealthPackObject(v) \in Object /\ HealthPackObject(v).type = "HEALTH_PACK"
  /\ \A p \in Players : /\ PlayerObject(p) \in Object
                        /\ PlayerObject(p).type = "PLAYER"
                        /\ PlayerObject(p).id = p
  /\ \A b \in Bullets : /\ ProjectileObject(b) \in Object
                        /\ ProjectileObject(b).type = "PROJECTILE"
                        /\ ProjectileObject(b).id = b
BY DEF Object, VoidObject, WallObject, HealthPackObject, PlayerObject, ProjectileObject

LEMMA HitNat ==
  ASSUME NEW h \in Int, NEW damage \in Int
  PROVE  Hit(h, damage) \in Nat
BY DEF Hit

\* A hit never wakes the dead
LEMMA HitDead ==
  ASSUME NEW h \in Nat, NEW damage \in Nat, ~(h > 0)
  PROVE  Hit(h, damage) = 0
BY DEF Hit

LEMMA DrainedNat ==
  ASSUME TypeOK, NEW p \in Players, NEW n \in 1 .. MaxUpdates
  PROVE  Drained(p, n) \in Nat /\ (~IsAlive(p) => Drained(p, n) = 0)
<1> DEFINE all == StayDrop * n
           others == StayDrop * (n - 1)
<1>1. health[p] \in Nat /\ moved[p] \in BOOLEAN
  BY DEF TypeOK
<1>2. MovementDrop \in Int /\ all \in Int /\ others \in Int
  BY SettingsAssumption
<1>3. Drained(p, n) \in {health[p], Hit(health[p], all), Hit(Hit(health[p], MovementDrop), others)}
  BY DEF Drained, StepPaid
<1>4. ~IsAlive(p) => Drained(p, n) = 0
  BY <1>1 DEF Drained, IsAlive
<1> HIDE DEF all, others
<1>5. Hit(health[p], all) \in Nat /\ Hit(health[p], MovementDrop) \in Nat
  BY <1>1, <1>2 DEF Hit
<1>6. Hit(Hit(health[p], MovementDrop), others) \in Nat
  BY <1>5, <1>2 DEF Hit
<1> QED BY <1>1, <1>3, <1>4, <1>5, <1>6

\* The player FindTarget picks stands elsewhere, and there is a way to it
LEMMA TargetFacts ==
  ASSUME IInv, NEW start \in Open, NEW t \in FindTarget(start)
  PROVE  /\ t \in Players
         /\ position[t] \in Open \ {start}
         /\ Reachable(start, position[t])
<1>1. PICK i \in DOMAIN Discovery[start] : /\ grid[Discovery[start][i]].type = "PLAYER"
                                           /\ grid[Discovery[start][i]].id = t
  BY DEF FindTarget
<1>2. Discovery[start][i] \in Open /\ Discovery[start] \in Seq(Open)
  BY <1>1, SearchAssumption
<1>3. /\ Discovery[start][i] # start /\ Reachable(start, Discovery[start][i])
  BY <1>1, SearchAssumption
<1>4. grid[Discovery[start][i]] \in Object
  BY <1>2 DEF IInv, TypeOK, Open
<1>5. t \in Players
  BY <1>1, <1>4, ObjectFacts
<1>6. position[t] = Discovery[start][i]
  BY <1>1, <1>2 DEF IInv, PlayersOnMap, Open
<1> QED BY <1>2, <1>3, <1>5, <1>6

\* One step along the way leads to an open cell from which there still is a way
LEMMA OnTheWay ==
  ASSUME NEW s \in Open, NEW e \in Open \ {s}, Reachable(s, e)
  PROVE  LET new == Step(s, NextDirection[s][e])
         IN  /\ new \in Open
             /\ new # e => Reachable(new, e)
<1>1. NextDirection[s][e] \in Directions
  BY SearchAssumption DEF Reachable
<1>2. Step(s, NextDirection[s][e]) \in Open
  BY SearchAssumption
<1> QED BY <1>1, <1>2, SearchAssumption

-----------------------------------------------------------------------------
(* The inductive invariant.                                                *)

LEMMA InitIInv == Init => IInv
<1> SUFFICES ASSUME Init PROVE IInv
  OBVIOUS
<1> USE GridAssumption, SettingsAssumption
<1>1. \A c \in Cells :
        /\ grid[c] \in Object
        /\ grid[c].type = "WALL" <=> c \in Walls
        /\ grid[c].type = "PLAYER" => position[grid[c].id] = c
        /\ grid[c].type # "PROJECTILE"
  <2> SUFFICES ASSUME NEW c \in Cells
               PROVE  /\ grid[c] \in Object
                      /\ grid[c].type = "WALL" <=> c \in Walls
                      /\ grid[c].type = "PLAYER" => position[grid[c].id] = c
                      /\ grid[c].type # "PROJECTILE"
    OBVIOUS
  <2>1. CASE c \in Walls
    <3>1. grid[c] = WallObject
      BY <2>1 DEF Init, Open
    <3> QED BY <2>1, <3>1, MadeObjects
  <2>2. CASE c \notin Walls /\ c \in DOMAIN Items
    <3>1. grid[c] = HealthPackObject(Items[c])
      BY <2>2 DEF Init
    <3> QED BY <2>2, <3>1, MadeObjects
  <2>3. CASE c \notin Walls /\ c \notin DOMAIN Items /\ \E p \in Players : position[p] = c
    <3>1. PICK p \in Players : position[p] = c /\ grid[c] = PlayerObject(p)
      BY <2>3 DEF Init
    <3> QED BY <2>3, <3>1, MadeObjects
  <2>4. CASE c \notin Walls /\ c \notin DOMAIN Items /\ ~\E p \in Players : position[p] = c
    <3>1. grid[c] = VoidObject
      BY <2>4 DEF Init
    <3> QED BY <2>4, <3>1, MadeObjects
  <2> QED BY <2>1, <2>2, <2>3, <2>4
<1>2. \A p \in Players : grid[position[p]] = PlayerObject(p)
  <2> SUFFICES ASSUME NEW p \in Players PROVE grid[position[p]] = PlayerObject(p)
    OBVIOUS
  <2>1. position[p] \in Cells /\ position[p] \notin Walls /\ position[p] \notin DOMAIN Items
    BY DEF Init, Open
  <2>2. PICK q \in Players : position[q] = position[p] /\ grid[position[p]] = PlayerObject(q)
    BY <2>1 DEF Init
  <2> QED BY <2>2 DEF Init
<1>3. grid \in [Cells -> Object]
  BY <1>1 DEF Init
<1>4. position \in [Players -> Open]
  BY DEF Init
<1>5. DOMAIN bullet = {}
  BY DEF Init
<1>6. health \in [Players -> Nat]
  BY DEF Init
<1>7. TypeOK
  BY <1>3, <1>4, <1>5, <1>6 DEF Init, TypeOK
<1>8. PlayersOnMap
  BY <1>1, <1>2, MadeObjects DEF PlayersOnMap
<1>9. BulletsOnMap
  BY <1>1, <1>5 DEF BulletsOnMap, Init
<1>10. WallsStand /\ Pursuit
  BY <1>1, <1>5 DEF WallsStand, Pursuit
<1> QED BY <1>7, <1>8, <1>9, <1>10 DEF IInv

\* A step of a player: the one that can bring a player next to a projectile
LEMMA MovePlayerIInv ==
  ASSUME IInv, NEW p \in Players, NEW d \in Directions, MovePlayer(p, d)
  PROVE  IInv'
<1> DEFINE old == position[p]
           new == Step(old, d)
<1>1. old \in Open /\ old \in Cells /\ grid[old].type = "PLAYER" /\ grid[old].id = p
  BY DEF IInv, TypeOK, PlayersOnMap, MovePlayer, Open
<1>2. new \in Cells /\ grid[new].type \notin {"WALL", "PLAYER"} /\ grid[new] \in Object
  BY DEF MovePlayer, IsAvailable, IInv, TypeOK
<1>3. new \in Open /\ new # old
  BY <1>1, <1>2 DEF IInv, WallsStand, Open
<1>4. /\ grid' = [grid EXCEPT ![new] = grid[old], ![old] = VoidObject]
      /\ position' = [position EXCEPT ![p] = new]
      /\ moved' = [moved EXCEPT ![p] = TRUE]
      /\ UNCHANGED <<connected, todo, phase, ended, stopped>>
      /\ phase = "idle"
  BY DEF MovePlayer, Serving
<1>5. /\ health' \in [Players -> Nat]
      /\ \A q \in Players \ {p} : health'[q] = health[q]
  <2>1. health[p] \in Int /\ health \in [Players -> Nat] /\ HitValue \in Int
    BY SettingsAssumption DEF IInv, TypeOK
  <2>2. \A v \in Int : Hit(health[p], v) \in Nat
    BY <2>1, HitNat
  <2>3. CASE health' = [health EXCEPT ![p] = Hit(@, HitValue)]
    BY <2>1, <2>2, <2>3
  <2>4. CASE grid[new].type = "HEALTH_PACK" /\ health' = [health EXCEPT ![p] = Hit(@, -grid[new].value)]
    <3>1. -grid[new].value \in Int
      BY <2>4, <1>2, ObjectFacts
    <3> QED BY <3>1, <2>1, <2>2, <2>4
  <2>5. CASE health' = health
    BY <2>1, <2>5
  <2> QED BY <2>3, <2>4, <2>5 DEF MovePlayer
<1>6. /\ DOMAIN bullet' \subseteq DOMAIN bullet
      /\ \A b \in DOMAIN bullet' : bullet'[b] = bullet[b] /\ bullet[b].pos # new
      /\ \A b \in DOMAIN bullet : bullet[b].pos # new => b \in DOMAIN bullet'
      /\ bullet' = [b \in DOMAIN bullet' |-> bullet[b]]
  <2>1. CASE grid[new].type = "PROJECTILE" /\ bullet' = WithoutBullet(grid[new].id)
    BY <2>1, <1>2 DEF WithoutBullet, IInv, BulletsOnMap
  <2>2. CASE grid[new].type # "PROJECTILE" /\ bullet' = bullet
    BY <2>2, <1>2 DEF IInv, BulletsOnMap, TypeOK
  <2> QED BY <2>1, <2>2 DEF MovePlayer
<1>7. /\ grid' \in [Cells -> Object]
      /\ grid'[new] = grid[old] /\ grid'[old] = VoidObject
      /\ \A c \in Cells \ {old, new} : grid'[c] = grid[c]
  BY <1>1, <1>2, <1>3, <1>4, MadeObjects DEF IInv, TypeOK
<1>8. TypeOK'
  <2>1. position' \in [Players -> Open] /\ moved' \in [Players -> BOOLEAN]
    BY <1>3, <1>4 DEF IInv, TypeOK
  <2>2. DOMAIN bullet' \subseteq Bullets /\ bullet' \in [DOMAIN bullet' -> Projectile]
    BY <1>6 DEF IInv, TypeOK
  <2> QED BY <1>4, <1>5, <1>7, <2>1, <2>2 DEF IInv, TypeOK
<1>9. PlayersOnMap'
  <2>1. \A q \in Players : health'[q] > 0 => grid'[position'[q]].type = "PLAYER" /\ grid'[position'[q]].id = q
    <3> SUFFICES ASSUME NEW q \in Players, health'[q] > 0
                 PROVE  grid'[position'[q]].type = "PLAYER" /\ grid'[position'[q]].id = q
      OBVIOUS
    <3>1. CASE q = p
      BY <3>1, <1>1, <1>4, <1>7 DEF IInv, TypeOK
    <3>2. CASE q # p
      <4>1. grid[position[q]].type = "PLAYER" /\ grid[position[q]].id = q
        BY <3>2, <1>5 DEF IInv, PlayersOnMap, IsAlive
      <4>2. position'[q] = position[q] /\ position[q] \in Cells \ {old, new}
        BY <3>2, <4>1, <1>1, <1>2, <1>4 DEF IInv, TypeOK, Open
      <4> QED BY <4>1, <4>2, <1>7
    <3> QED BY <3>1, <3>2
  <2>2. \A c \in Cells : grid'[c].type = "PLAYER" => position'[grid'[c].id] = c
    <3> SUFFICES ASSUME NEW c \in Cells, grid'[c].type = "PLAYER"
                 PROVE  position'[grid'[c].id] = c
      OBVIOUS
    <3>1. CASE c = new
      BY <3>1, <1>1, <1>4, <1>7 DEF IInv, TypeOK
    <3>2. CASE c = old
      BY <3>2, <1>7, MadeObjects
    <3>3. CASE c \notin {old, new}
      <4>1. grid'[c] = grid[c] /\ position[grid[c].id] = c /\ grid[c].id \in Players
        BY <3>3, <1>7, ObjectFacts DEF IInv, TypeOK, PlayersOnMap
      <4>2. grid[c].id # p
        BY <4>1, <3>3
      <4> QED BY <4>1, <4>2, <1>4 DEF IInv, TypeOK
    <3> QED BY <3>1, <3>2, <3>3
  <2> QED BY <2>1, <2>2 DEF PlayersOnMap, IsAlive
<1>10. BulletsOnMap'
  <2>1. \A b \in DOMAIN bullet' : /\ grid'[bullet'[b].pos].type = "PROJECTILE"
                                  /\ grid'[bullet'[b].pos].id = b
    <3> SUFFICES ASSUME NEW b \in DOMAIN bullet'
                 PROVE  grid'[bullet'[b].pos] = grid[bullet[b].pos] /\ b \in DOMAIN bullet
                        /\ bullet'[b] = bullet[b]
      BY DEF IInv, BulletsOnMap
    <3>1. bullet[b].pos \in Cells /\ bullet[b].pos \notin {old, new}
      BY <1>1, <1>6 DEF IInv, TypeOK, Projectile, Open, BulletsOnMap
    <3> QED BY <3>1, <1>6, <1>7
  <2>2. \A c \in Cells : grid'[c].type = "PROJECTILE" =>
          grid'[c].id \in DOMAIN bullet' /\ bullet'[grid'[c].id].pos = c
    <3> SUFFICES ASSUME NEW c \in Cells, grid'[c].type = "PROJECTILE"
                 PROVE  grid'[c].id \in DOMAIN bullet' /\ bullet'[grid'[c].id].pos = c
      OBVIOUS
    <3>1. c \notin {old, new}
      BY <1>1, <1>7, MadeObjects
    <3> QED BY <3>1, <1>6, <1>7 DEF IInv, BulletsOnMap
  <2>3. todo' = {}
    BY <1>4 DEF IInv, BulletsOnMap
  <2> QED BY <2>1, <2>2, <2>3 DEF BulletsOnMap
<1>11. WallsStand'
  BY <1>1, <1>2, <1>3, <1>7, MadeObjects DEF IInv, WallsStand, Open
<1>12. Pursuit'
  <2> SUFFICES ASSUME NEW b \in DOMAIN bullet', health'[bullet'[b].target] > 0
               PROVE  /\ bullet'[b].pos # position'[bullet'[b].target]
                      /\ Reachable(bullet'[b].pos, position'[bullet'[b].target])
    BY DEF Pursuit, IsAlive
  <2> DEFINE shot == bullet[b]
  <2>1. shot = bullet'[b] /\ shot.pos \in Open \ {new} /\ shot.target \in Players /\ b \in DOMAIN bullet
    BY <1>6 DEF IInv, TypeOK, Projectile
  <2>2. CASE shot.target # p
    BY <2>1, <2>2, <1>4, <1>5 DEF IInv, TypeOK, Pursuit, IsAlive
  <2>3. CASE shot.target = p
    <3>1. position'[p] = new
      BY <1>4 DEF IInv, TypeOK
    <3>2. shot.pos # old /\ Reachable(shot.pos, old)
      BY <2>1, <2>3 DEF IInv, Pursuit, MovePlayer
    <3>3. Reachable(shot.pos, new)
      BY <3>2, <2>1, <1>1, <1>3, SearchAssumption
    <3> QED BY <3>1, <3>3, <2>1, <2>3
  <2> QED BY <2>2, <2>3
<1> QED BY <1>8, <1>9, <1>10, <1>11, <1>12 DEF IInv

\* Who is hit loses health; nobody else's changes and the dead stay dead
LEMMA WoundFacts ==
  ASSUME TypeOK, NEW t \in Players, health' = [health EXCEPT ![t] = Hit(@, HitValue)]
  PROVE  /\ health' \in [Players -> Nat]
         /\ \A p \in Players : health'[p] > 0 => health[p] > 0
<1>1. health[t] \in Nat /\ HitValue \in Nat /\ health \in [Players -> Nat]
  BY SettingsAssumption DEF TypeOK
<1>2. Hit(health[t], HitValue) \in Nat /\ (~(health[t] > 0) => Hit(health[t], HitValue) = 0)
  BY <1>1 DEF Hit
<1> QED BY <1>1, <1>2

LEMMA ShootProjectileIInv ==
  ASSUME IInv, NEW p \in Players, ShootProjectile(p)
  PROVE  IInv'
<1> DEFINE start == position[p]
<1>1. PICK t \in FindTarget(start) :
        LET d == NextDirection[start][position[t]]
            spawn == Step(start, d)
        IN  /\ IsAlive(t)
            /\ d # "UNKNOWN_DIRECTION"
            /\ \/ /\ grid[spawn].type = "PLAYER"
                  /\ health' = [health EXCEPT ![grid[spawn].id] = Hit(@, HitValue)]
                  /\ UNCHANGED <<grid, bullet>>
               \/ /\ grid[spawn].type \notin {"PLAYER", "PROJECTILE"}
                  /\ \E b \in Bullets \ DOMAIN bullet :
                       /\ bullet' = WithBullet(b, [pos |-> spawn, target |-> t,
                                                   left |-> Movements])
                       /\ grid' = [grid EXCEPT ![spawn] = ProjectileObject(b)]
                  /\ UNCHANGED health
  BY DEF ShootProjectile
<1>2. start \in Open /\ UNCHANGED <<position, moved, connected, todo, phase, ended, stopped>>
  BY DEF IInv, TypeOK, ShootProjectile
<1>3. t \in Players /\ position[t] \in Open \ {start} /\ Reachable(start, position[t])
  BY <1>2, TargetFacts
<1> DEFINE spawn == Step(start, NextDirection[start][position[t]])
<1>4. spawn \in Open /\ spawn \in Cells /\ (spawn # position[t] => Reachable(spawn, position[t]))
  BY <1>2, <1>3, OnTheWay DEF Open
<1> HIDE DEF start, spawn
<1>5. CASE /\ grid[spawn].type = "PLAYER"
           /\ health' = [health EXCEPT ![grid[spawn].id] = Hit(@, HitValue)]
           /\ UNCHANGED <<grid, bullet>>
  <2>1. grid[spawn].id \in Players
    BY <1>4, <1>5, ObjectFacts DEF IInv, TypeOK
  <2>2. /\ health' \in [Players -> Nat]
        /\ \A q \in Players : health'[q] > 0 => health[q] > 0
    BY <1>5, <2>1, WoundFacts DEF IInv
  <2>3. TypeOK'
    BY <1>2, <1>5, <2>2 DEF IInv, TypeOK
  <2>4. PlayersOnMap' /\ BulletsOnMap' /\ WallsStand'
    BY <1>2, <1>5, <2>2 DEF IInv, PlayersOnMap, BulletsOnMap, WallsStand, IsAlive
  <2>5. Pursuit'
    BY <1>2, <1>5, <2>2 DEF IInv, TypeOK, Projectile, Pursuit, IsAlive
  <2> QED BY <2>3, <2>4, <2>5 DEF IInv
<1>6. CASE /\ grid[spawn].type \notin {"PLAYER", "PROJECTILE"}
           /\ \E b \in Bullets \ DOMAIN bullet :
                /\ bullet' = WithBullet(b, [pos |-> spawn, target |-> t, left |-> Movements])
                /\ grid' = [grid EXCEPT ![spawn] = ProjectileObject(b)]
           /\ UNCHANGED health
  <2> DEFINE shot == [pos |-> spawn, target |-> t, left |-> Movements]
  <2>1. PICK b \in Bullets \ DOMAIN bullet :
          bullet' = WithBullet(b, shot) /\ grid' = [grid EXCEPT ![spawn] = ProjectileObject(b)]
    BY <1>6
  <2>2. shot \in Projectile
    BY <1>3, <1>4, SettingsAssumption DEF Projectile
  <2>3. /\ DOMAIN bullet' = DOMAIN bullet \union {b}
        /\ bullet'[b] = shot
        /\ \A x \in DOMAIN bullet : bullet'[x] = bullet[x] /\ x # b
    BY <2>1 DEF WithBullet
  <2>4. /\ grid' \in [Cells -> Object]
        /\ grid'[spawn] = ProjectileObject(b)
        /\ \A c \in Cells \ {spawn} : grid'[c] = grid[c]
    BY <2>1, <1>4, MadeObjects DEF IInv, TypeOK
  <2>5. ProjectileObject(b).type = "PROJECTILE" /\ ProjectileObject(b).id = b
    BY MadeObjects
  <2>6. TypeOK'
    <3>1. bullet' \in [DOMAIN bullet' -> Projectile]
      BY <2>1, <2>2, <2>3 DEF IInv, TypeOK, WithBullet
    <3>2. DOMAIN bullet' \subseteq Bullets
      BY <2>3 DEF IInv, TypeOK
    <3> QED BY <1>2, <1>6, <2>4, <3>1, <3>2 DEF IInv, TypeOK
  <2>7. PlayersOnMap'
    <3>1. \A q \in Players : health'[q] > 0 =>
            grid'[position'[q]].type = "PLAYER" /\ grid'[position'[q]].id = q
      BY <1>2, <1>6, <2>4 DEF IInv, TypeOK, PlayersOnMap, IsAlive, Open
    <3>2. \A c \in Cells : grid'[c].type = "PLAYER" => position'[grid'[c].id] = c
      BY <1>2, <2>4, <2>5 DEF IInv, PlayersOnMap
    <3> QED BY <3>1, <3>2 DEF PlayersOnMap, IsAlive
  <2>8. BulletsOnMap'
    <3>1. \A x \in DOMAIN bullet : bullet[x].pos \in Cells \ {spawn}
      BY <1>6 DEF IInv, TypeOK, Projectile, BulletsOnMap, Open
    <3>2. \A x \in DOMAIN bullet' :
            grid'[bullet'[x].pos].type = "PROJECTILE" /\ grid'[bullet'[x].pos].id = x
      BY <2>3, <2>4, <2>5, <3>1 DEF IInv, BulletsOnMap
    <3>3. \A c \in Cells : grid'[c].type = "PROJECTILE" =>
            grid'[c].id \in DOMAIN bullet' /\ bullet'[grid'[c].id].pos = c
      BY <2>3, <2>4, <2>5 DEF IInv, BulletsOnMap
    <3>4. todo' \subseteq DOMAIN bullet' /\ (phase' = "idle" => todo' = {})
      BY <1>2, <2>3 DEF IInv, BulletsOnMap
    <3> QED BY <3>2, <3>3, <3>4 DEF BulletsOnMap
  <2>9. WallsStand'
    BY <1>4, <2>4, <2>5 DEF IInv, WallsStand, Open
  <2>10. Pursuit'
    <3> SUFFICES ASSUME NEW x \in DOMAIN bullet', health'[bullet'[x].target] > 0
                 PROVE  /\ bullet'[x].pos # position'[bullet'[x].target]
                        /\ Reachable(bullet'[x].pos, position'[bullet'[x].target])
      BY DEF Pursuit, IsAlive
    <3>1. CASE x \in DOMAIN bullet
      BY <3>1, <2>3, <1>2, <1>6 DEF IInv, Pursuit, IsAlive
    <3>2. CASE x = b
      <4>1. grid[position[t]].type = "PLAYER"
        BY <1>1, <1>3 DEF IInv, PlayersOnMap
      <4>2. spawn # position[t]
        BY <4>1, <1>6
      <4> QED BY <3>2, <4>2, <2>3, <1>2, <1>4
    <3> QED BY <3>1, <3>2, <2>3
  <2> QED BY <2>6, <2>7, <2>8, <2>9, <2>10 DEF IInv
<1> QED BY <1>1, <1>5, <1>6 DEF start, spawn

LEMMA KillPlayerIInv ==
  ASSUME IInv, NEW p \in Players, KillPlayer(p)
  PROVE  IInv'
<1>1. /\ health' \in [Players -> Nat]
      /\ \A q \in Players : health'[q] > 0 => health[q] > 0
  BY DEF IInv, TypeOK, KillPlayer
<1>2. TypeOK'
  BY <1>1 DEF IInv, TypeOK, KillPlayer
<1>3. PlayersOnMap' /\ BulletsOnMap' /\ WallsStand'
  BY <1>1 DEF IInv, PlayersOnMap, BulletsOnMap, WallsStand, IsAlive, KillPlayer
<1>4. Pursuit'
  BY <1>1 DEF IInv, TypeOK, Projectile, Pursuit, IsAlive, KillPlayer
<1> QED BY <1>2, <1>3, <1>4 DEF IInv

LEMMA UpdatePlayersIInv ==
  ASSUME IInv, NEW n \in 1 .. MaxUpdates, UpdatePlayers(n)
  PROVE  IInv'
<1>1. \A q \in Players : Drained(q, n) \in Nat /\ (~IsAlive(q) => Drained(q, n) = 0)
  BY DrainedNat DEF IInv
<1>2. /\ health' \in [Players -> Nat]
      /\ \A q \in Players : health'[q] > 0 => health[q] > 0
  BY <1>1 DEF UpdatePlayers, IsAlive
<1>3. moved' \in [Players -> BOOLEAN]
  BY DEF UpdatePlayers
<1>4. UNCHANGED <<grid, position, bullet, connected, ended, stopped>>
      /\ todo' = DOMAIN bullet /\ phase' = "projectiles"
  BY DEF UpdatePlayers
<1>5. TypeOK'
  BY <1>2, <1>3, <1>4 DEF IInv, TypeOK
<1>6. PlayersOnMap' /\ BulletsOnMap' /\ WallsStand'
  BY <1>2, <1>4 DEF IInv, PlayersOnMap, BulletsOnMap, WallsStand, IsAlive
<1>7. Pursuit'
  BY <1>2, <1>4 DEF IInv, TypeOK, Projectile, Pursuit, IsAlive
<1> QED BY <1>5, <1>6, <1>7 DEF IInv

\* A projectile that Move gave up leaves the map and the set together
LEMMA DropFacts ==
  ASSUME IInv, NEW b \in DOMAIN bullet, DropProjectile(b),
         health' \in [Players -> Nat], \A p \in Players : health'[p] > 0 => health[p] > 0,
         todo' = todo \ {b}, phase = "projectiles",
         UNCHANGED <<position, moved, connected, phase, ended, stopped>>
  PROVE  IInv'
<1> DEFINE here == bullet[b].pos
<1>1. here \in Open /\ here \in Cells /\ grid[here].type = "PROJECTILE" /\ grid[here].id = b
  BY DEF IInv, TypeOK, Projectile, BulletsOnMap, Open
<1>2. /\ grid' \in [Cells -> Object]
      /\ grid'[here] = VoidObject
      /\ \A c \in Cells \ {here} : grid'[c] = grid[c]
  BY <1>1, MadeObjects DEF DropProjectile, IInv, TypeOK
<1>3. /\ DOMAIN bullet' = DOMAIN bullet \ {b}
      /\ \A x \in DOMAIN bullet' : bullet'[x] = bullet[x] /\ x \in DOMAIN bullet
      /\ bullet' \in [DOMAIN bullet' -> Projectile]
  BY DEF DropProjectile, WithoutBullet, IInv, TypeOK
<1>4. VoidObject.type = "VOID"
  BY MadeObjects
<1>5. TypeOK'
  BY <1>2, <1>3 DEF IInv, TypeOK
<1>6. PlayersOnMap'
  BY <1>1, <1>2, <1>4 DEF IInv, TypeOK, PlayersOnMap, IsAlive, Open
<1>7. BulletsOnMap'
  <2>1. \A x \in DOMAIN bullet' : bullet[x].pos \in Cells \ {here}
    BY <1>1, <1>3 DEF IInv, TypeOK, Projectile, BulletsOnMap, Open
  <2>2. \A x \in DOMAIN bullet' :
          grid'[bullet'[x].pos].type = "PROJECTILE" /\ grid'[bullet'[x].pos].id = x
    BY <2>1, <1>2, <1>3 DEF IInv, BulletsOnMap
  <2>3. \A c \in Cells : grid'[c].type = "PROJECTILE" =>
          grid'[c].id \in DOMAIN bullet' /\ bullet'[grid'[c].id].pos = c
    BY <1>1, <1>2, <1>3, <1>4 DEF IInv, BulletsOnMap
  <2>4. todo' \subseteq DOMAIN bullet' /\ phase' # "idle"
    BY <1>3 DEF IInv, BulletsOnMap
  <2> QED BY <2>2, <2>3, <2>4 DEF BulletsOnMap
<1>8. WallsStand'
  BY <1>1, <1>2, <1>4 DEF IInv, WallsStand, Open
<1>9. Pursuit'
  BY <1>3 DEF IInv, TypeOK, Projectile, Pursuit, IsAlive
<1> QED BY <1>5, <1>6, <1>7, <1>8, <1>9 DEF IInv

LEMMA MoveProjectileIInv ==
  ASSUME IInv, NEW b \in Bullets, MoveProjectile(b)
  PROVE  IInv'
<1> DEFINE here == bullet[b].pos
           t == bullet[b].target
           new == Step(here, Heading(b))
<1>1. /\ b \in DOMAIN bullet /\ phase = "projectiles"
      /\ todo' = todo \ {b} /\ todo' \subseteq Bullets
      /\ UNCHANGED <<position, moved, connected, phase, ended, stopped>>
  BY DEF IInv, TypeOK, BulletsOnMap, MoveProjectile
<1>2. here \in Open /\ here \in Cells /\ t \in Players /\ position[t] \in Open
      /\ bullet[b].left \in 1 .. Movements
  BY <1>1 DEF IInv, TypeOK, Projectile, Open
<1>3. grid[here].type = "PROJECTILE" /\ grid[here].id = b
  BY <1>1 DEF IInv, BulletsOnMap
<1>4. ASSUME Heading(b) # "UNKNOWN_DIRECTION"
      PROVE  /\ IsAlive(t) /\ MovesLeft(b) > 0 /\ here # position[t]
             /\ new \in Open /\ new \in Cells
             /\ new # position[t] => Reachable(new, position[t])
  <2>1. IsAlive(t) /\ MovesLeft(b) > 0 /\ Heading(b) = NextDirection[here][position[t]]
    BY <1>4 DEF Heading
  <2>2. here # position[t] /\ Reachable(here, position[t])
    BY <2>1, <1>1 DEF IInv, Pursuit
  <2> QED BY <2>1, <2>2, <1>2, OnTheWay DEF Open
<1>5. CASE DropProjectile(b) /\ UNCHANGED health
  BY <1>1, <1>5, DropFacts DEF IInv, TypeOK
<1>6. CASE /\ Heading(b) # "UNKNOWN_DIRECTION"
           /\ grid[new].type = "PLAYER"
           /\ health' = [health EXCEPT ![grid[new].id] = Hit(@, HitValue)]
           /\ DropProjectile(b)
  <2>1. grid[new].id \in Players
    BY <1>4, <1>6, ObjectFacts DEF IInv, TypeOK
  <2>2. /\ health' \in [Players -> Nat]
        /\ \A p \in Players : health'[p] > 0 => health[p] > 0
    BY <2>1, <1>6, WoundFacts DEF IInv
  <2> QED BY <2>2, <1>1, <1>6, DropFacts
<1>7. CASE /\ Heading(b) # "UNKNOWN_DIRECTION"
           /\ grid[new].type \notin {"PLAYER", "PROJECTILE"}
           /\ grid' = [grid EXCEPT ![new] = grid[here], ![here] = VoidObject]
           /\ bullet' = [bullet EXCEPT ![b].pos = new, ![b].left = MovesLeft(b)]
           /\ UNCHANGED health
  <2>1. new # here /\ new \in Cells /\ new \in Open
    BY <1>3, <1>4, <1>7
  <2>2. /\ grid' \in [Cells -> Object]
        /\ grid'[new] = grid[here] /\ grid'[here] = VoidObject
        /\ \A c \in Cells \ {new, here} : grid'[c] = grid[c]
    BY <2>1, <1>2, <1>7, MadeObjects DEF IInv, TypeOK
  <2>3. MovesLeft(b) \in 1 .. Movements
    BY <1>2, <1>4, <1>7, SettingsAssumption DEF MovesLeft
  <2>4. /\ bullet' \in [DOMAIN bullet -> Projectile]
        /\ bullet'[b].pos = new /\ bullet'[b].target = t
        /\ \A x \in DOMAIN bullet \ {b} : bullet'[x] = bullet[x]
    BY <2>1, <2>3, <1>1, <1>7 DEF IInv, TypeOK, Projectile
  <2>5. VoidObject.type = "VOID"
    BY MadeObjects
  <2>6. DOMAIN bullet' = DOMAIN bullet
    BY <1>7
  <2> HIDE DEF new, here
  <2>7. TypeOK'
    BY <2>2, <2>4, <2>6, <1>1, <1>7 DEF IInv, TypeOK
  <2>8. PlayersOnMap'
    <3>1. \A p \in Players : health'[p] > 0 =>
            grid'[position'[p]].type = "PLAYER" /\ grid'[position'[p]].id = p
      <4> SUFFICES ASSUME NEW p \in Players, health'[p] > 0
                   PROVE  /\ grid'[position'[p]].type = "PLAYER"
                          /\ grid'[position'[p]].id = p
        OBVIOUS
      <4>1. position'[p] = position[p] /\ health[p] > 0
        BY <1>1, <1>7
      <4>2. grid[position[p]].type = "PLAYER" /\ grid[position[p]].id = p
        BY <4>1 DEF IInv, PlayersOnMap, IsAlive
      <4>3. position[p] \in Cells \ {new, here}
        BY <4>2, <1>3, <1>7 DEF IInv, TypeOK, Open
      <4> QED BY <4>1, <4>2, <4>3, <2>2
    <3>2. \A c \in Cells : grid'[c].type = "PLAYER" => position'[grid'[c].id] = c
      BY <2>2, <2>5, <1>1, <1>3 DEF IInv, PlayersOnMap
    <3> QED BY <3>1, <3>2 DEF PlayersOnMap, IsAlive
  <2>9. BulletsOnMap'
    <3>1. \A x \in DOMAIN bullet \ {b} : bullet[x].pos \in Cells \ {new, here}
      BY <1>3, <1>7 DEF IInv, TypeOK, Projectile, BulletsOnMap, Open
    <3>2. \A x \in DOMAIN bullet' :
            grid'[bullet'[x].pos].type = "PROJECTILE" /\ grid'[bullet'[x].pos].id = x
      BY <3>1, <2>2, <2>4, <2>6, <1>3 DEF IInv, BulletsOnMap
    <3>3. \A c \in Cells : grid'[c].type = "PROJECTILE" =>
            grid'[c].id \in DOMAIN bullet' /\ bullet'[grid'[c].id].pos = c
      <4> SUFFICES ASSUME NEW c \in Cells, grid'[c].type = "PROJECTILE"
                   PROVE  grid'[c].id \in DOMAIN bullet' /\ bullet'[grid'[c].id].pos = c
        OBVIOUS
      <4>1. CASE c = new
        BY <4>1, <2>2, <2>4, <2>6, <1>1, <1>3
      <4>2. CASE c = here
        BY <4>2, <2>2, <2>5
      <4>3. CASE c \notin {new, here}
        <5>1. grid'[c] = grid[c] /\ grid[c].id \in DOMAIN bullet /\ bullet[grid[c].id].pos = c
          BY <4>3, <2>2 DEF IInv, BulletsOnMap
        <5>2. grid[c].id # b
          BY <5>1, <4>3 DEF here
        <5> QED BY <5>1, <5>2, <2>4, <2>6
      <4> QED BY <4>1, <4>2, <4>3
    <3>4. todo' \subseteq DOMAIN bullet' /\ phase' # "idle"
      BY <2>6, <1>1 DEF IInv, BulletsOnMap
    <3> QED BY <3>2, <3>3, <3>4 DEF BulletsOnMap
  <2>10. WallsStand'
    BY <2>1, <2>2, <2>5, <1>2, <1>3 DEF IInv, WallsStand, Open
  <2>11. Pursuit'
    <3> SUFFICES ASSUME NEW x \in DOMAIN bullet, health[bullet'[x].target] > 0
                 PROVE  /\ bullet'[x].pos # position[bullet'[x].target]
                        /\ Reachable(bullet'[x].pos, position[bullet'[x].target])
      BY <2>6, <1>1, <1>7 DEF Pursuit, IsAlive
    <3>1. CASE x # b
      BY <3>1, <2>4 DEF IInv, Pursuit, IsAlive
    <3>2. CASE x = b
      <4>1. grid[position[t]].type = "PLAYER"
        BY <1>2, <1>4, <1>7 DEF IInv, PlayersOnMap
      <4>2. new # position[t]
        BY <4>1, <1>7
      <4> QED BY <3>2, <4>2, <2>4, <1>4, <1>7 DEF new, here
    <3> QED BY <3>1, <3>2
  <2> QED BY <2>7, <2>8, <2>9, <2>10, <2>11 DEF IInv
<1> QED BY <1>5, <1>6, <1>7 DEF MoveProjectile

LEMMA FinishUpdateIInv ==
  ASSUME IInv, FinishUpdate
  PROVE  IInv'
<1>1. /\ UNCHANGED <<health, position, moved, bullet, connected, todo>>
      /\ todo = {} /\ phase' = "idle"
      /\ ended' \in BOOLEAN /\ stopped' \in BOOLEAN
  BY DEF FinishUpdate, IInv, TypeOK
<1>2. VoidObject \in Object /\ VoidObject.type = "VOID"
  BY MadeObjects
<1>3. /\ grid' \in [Cells -> Object]
      /\ \A c \in Cells : \/ grid'[c] = grid[c]
                          \/ /\ grid[c].type = "PLAYER" /\ ~IsAlive(grid[c].id)
                             /\ grid'[c] = VoidObject
      /\ \A c \in Cells : (grid[c].type # "PLAYER" \/ IsAlive(grid[c].id)) => grid'[c] = grid[c]
  BY <1>2 DEF FinishUpdate, IInv, TypeOK
<1>4. TypeOK'
  BY <1>1, <1>3 DEF IInv, TypeOK
<1>5. PlayersOnMap'
  BY <1>1, <1>2, <1>3 DEF IInv, TypeOK, PlayersOnMap, IsAlive, Open
<1>6. BulletsOnMap'
  BY <1>1, <1>2, <1>3 DEF IInv, TypeOK, BulletsOnMap, Projectile, Open
<1>7. WallsStand' /\ Pursuit'
  BY <1>1, <1>2, <1>3 DEF IInv, WallsStand, Pursuit, IsAlive
<1> QED BY <1>4, <1>5, <1>6, <1>7 DEF IInv

-----------------------------------------------------------------------------
LEMMA NextIInv == IInv /\ [Next]_vars => IInv'
<1> SUFFICES ASSUME IInv, [Next]_vars PROVE IInv'
  OBVIOUS
<1>1. CASE \E p \in Players, d \in Directions : MovePlayer(p, d)
  BY <1>1, MovePlayerIInv
<1>2. CASE \E p \in Players : ShootProjectile(p)
  BY <1>2, ShootProjectileIInv
<1>3. CASE \E p \in Players : KillPlayer(p)
  BY <1>3, KillPlayerIInv
<1>4. CASE \E n \in 1 .. MaxUpdates : UpdatePlayers(n)
  BY <1>4, UpdatePlayersIInv
<1>5. CASE \E b \in Bullets : MoveProjectile(b)
  BY <1>5, MoveProjectileIInv
<1>6. CASE FinishUpdate
  BY <1>6, FinishUpdateIInv
<1>7. CASE UNCHANGED vars
  BY <1>7 DEF vars, IInv, TypeOK, PlayersOnMap, BulletsOnMap, WallsStand, Pursuit, IsAlive
<1> QED BY <1>1, <1>2, <1>3, <1>4, <1>5, <1>6, <1>7 DEF Next, Tick

THEOREM Invariance == Spec => []IInv
BY InitIInv, NextIInv, PTL DEF Spec

(***************************************************************************)
(* The variables keep their types; among them, a projectile in flight      *)
(* always is on an open cell and has a move left.                          *)
(***************************************************************************)
THEOREM TypeCorrect == Spec => []TypeOK
<1>1. IInv => TypeOK
  BY DEF IInv
<1> QED BY <1>1, Invariance, PTL

(***************************************************************************)
(* No player is erased from the map, duplicated or left behind: a living   *)
(* player is where its own position_ says and nowhere else.                *)
(***************************************************************************)
THEOREM PlayersKept == Spec => []PlayersOnMap
<1>1. IInv => PlayersOnMap
  BY DEF IInv
<1> QED BY <1>1, Invariance, PTL

(***************************************************************************)
(* projectiles_ and the map show the same projectiles in the same cells,   *)
(* also halfway through a tick, and a tick leaves none unmoved.            *)
(***************************************************************************)
THEOREM BulletsKept == Spec => []BulletsOnMap
<1>1. IInv => BulletsOnMap
  BY DEF IInv
<1> QED BY <1>1, Invariance, PTL

(***************************************************************************)
(* Steps, shots, collisions and the clearing of the dead never remove a    *)
(* wall and never make one.                                                *)
(***************************************************************************)
THEOREM WallsKept == Spec => []WallsStand
<1>1. IInv => WallsStand
  BY DEF IInv
<1> QED BY <1>1, Invariance, PTL

(***************************************************************************)
(* The search that steers a projectile is never asked for the way from a   *)
(* cell to itself, on which it would not end, and it finds its target.     *)
(***************************************************************************)
THEOREM PursuitHolds == Spec => []Pursuit
<1>1. IInv => Pursuit
  BY DEF IInv
<1> QED BY <1>1, Invariance, PTL

-----------------------------------------------------------------------------
(* Death is final.                                                         *)

LEMMA StepKeepsDead ==
  ASSUME IInv, [Next]_vars, NEW q \in Players, ~IsAlive(q)
  PROVE  health'[q] = 0
<1>0. TypeOK
  BY DEF IInv
<1> USE <1>0
<1>1. health \in [Players -> Nat] /\ health[q] = 0
  BY DEF TypeOK, IsAlive
<1>2. ASSUME NEW t \in Players, health' = [health EXCEPT ![t] = Hit(@, HitValue)]
      PROVE  health'[q] = 0
  BY <1>1, <1>2, SettingsAssumption DEF Hit
<1>3. ASSUME NEW p \in Players, NEW d \in Directions, MovePlayer(p, d) PROVE health'[q] = 0
  <2>1. p # q
    BY <1>3 DEF MovePlayer
  <2> QED BY <1>1, <1>3, <2>1 DEF MovePlayer
<1>4. ASSUME NEW p \in Players, ShootProjectile(p) PROVE health'[q] = 0
  <2>1. PICK t \in FindTarget(position[p]) :
          LET spawn == Step(position[p], NextDirection[position[p]][position[t]])
          IN  /\ NextDirection[position[p]][position[t]] # "UNKNOWN_DIRECTION"
              /\ \/ /\ grid[spawn].type = "PLAYER"
                    /\ health' = [health EXCEPT ![grid[spawn].id] = Hit(@, HitValue)]
                 \/ UNCHANGED health
    BY <1>4 DEF ShootProjectile
  <2> DEFINE spawn == Step(position[p], NextDirection[position[p]][position[t]])
  <2>2. position[p] \in Open /\ position[t] \in Open \ {position[p]}
        /\ Reachable(position[p], position[t])
    BY TargetFacts DEF TypeOK
  <2>3. spawn \in Cells
    BY <2>2, OnTheWay DEF Open
  <2>4. grid[spawn].type = "PLAYER" => grid[spawn].id \in Players
    BY <2>3, ObjectFacts DEF TypeOK
  <2> QED BY <2>1, <2>4, <1>1, <1>2
<1>5. ASSUME NEW p \in Players, KillPlayer(p) PROVE health'[q] = 0
  BY <1>1, <1>5 DEF KillPlayer
<1>6. ASSUME NEW n \in 1 .. MaxUpdates, UpdatePlayers(n) PROVE health'[q] = 0
  BY <1>6, DrainedNat DEF UpdatePlayers
<1>7. ASSUME NEW b \in Bullets, MoveProjectile(b) PROVE health'[q] = 0
  <2> DEFINE new == Step(bullet[b].pos, Heading(b))
  <2>1. CASE UNCHANGED health
    BY <2>1, <1>1
  <2>2. CASE /\ Heading(b) # "UNKNOWN_DIRECTION"
             /\ grid[new].type = "PLAYER"
             /\ health' = [health EXCEPT ![grid[new].id] = Hit(@, HitValue)]
    <3>1. b \in DOMAIN bullet
      BY <1>7 DEF MoveProjectile, IInv, BulletsOnMap
    <3>2. /\ IsAlive(bullet[b].target)
          /\ Heading(b) = NextDirection[bullet[b].pos][position[bullet[b].target]]
      BY <2>2 DEF Heading
    <3>3. bullet[b].pos \in Open /\ position[bullet[b].target] \in Open
      BY <3>1 DEF TypeOK, Projectile
    <3>4. /\ bullet[b].pos # position[bullet[b].target]
          /\ Reachable(bullet[b].pos, position[bullet[b].target])
      BY <3>1, <3>2 DEF IInv, Pursuit
    <3>5. new \in Cells
      BY <3>2, <3>3, <3>4, OnTheWay DEF Open
    <3>6. grid[new].id \in Players
      BY <2>2, <3>5, ObjectFacts DEF TypeOK
    <3> QED BY <2>2, <3>6, <1>2
  <2> QED BY <1>7, <2>1, <2>2 DEF MoveProjectile
<1>8. CASE FinishUpdate
  BY <1>1, <1>8 DEF FinishUpdate
<1>9. CASE UNCHANGED vars
  BY <1>1, <1>9 DEF vars
<1> QED BY <1>3, <1>4, <1>5, <1>6, <1>7, <1>8, <1>9 DEF Next, Tick

(***************************************************************************)
(* Who is dead between two handlers is dead for the rest of the game,      *)
(* although standing still and health packs give health.                   *)
(***************************************************************************)
THEOREM DeathIsFinal == Spec => DeadStayDead
<1>1. IInv /\ [Next]_vars => [\A p \in Players : ~IsAlive(p) => health'[p] = 0]_vars
  <2> SUFFICES ASSUME IInv, [Next]_vars
               PROVE  \A p \in Players : ~IsAlive(p) => health'[p] = 0
    OBVIOUS
  <2> QED BY StepKeepsDead
<1> QED BY <1>1, Invariance, PTL DEF Spec, DeadStayDead

\* A player whom the price of a move has left with nothing gets nothing back
LEMMA PaidWithAll ==
  ASSUME TypeOK, MaxUpdates = 1 \/ StayDrop >= 0,
         NEW p \in Players, NEW n \in 1 .. MaxUpdates, moved[p], StepPaid(p) = 0
  PROVE  Drained(p, n) = 0
<1> DEFINE others == StayDrop * (n - 1)
<1>1. others \in Int /\ others >= 0
  <2>1. StayDrop \in Int /\ n - 1 \in Nat
    BY SettingsAssumption
  <2>2. CASE MaxUpdates = 1
    <3>1. n - 1 = 0
      BY <2>2
    <3> QED BY <2>1, <3>1
  <2>3. CASE StayDrop >= 0
    <3>1. StayDrop \in Nat
      BY <2>1, <2>3
    <3> QED BY <2>1, <3>1
  <2> QED BY <2>2, <2>3
<1>2. CASE IsAlive(p)
  <2>1. Drained(p, n) = Hit(0, others)
    BY <1>2 DEF Drained
  <2> HIDE DEF others
  <2> QED BY <1>1, <2>1 DEF Hit
<1>3. CASE ~IsAlive(p)
  BY <1>3, DrainedNat
<1> QED BY <1>2, <1>3

(***************************************************************************)
(* Whoever has no health left has lost, also in the middle of a tick, as   *)
(* long as a tick stands for one period or standing still gives nothing    *)
(* back.  Without that condition it does not hold: a late tick revives.    *)
(***************************************************************************)
THEOREM LostAtZero ==
  ASSUME MaxUpdates = 1 \/ StayDrop >= 0
  PROVE  Spec => LosesAtZero
<1>1. IInv /\ [Next]_vars
        => [\A p \in Players :
              \/ ~IsAlive(p)
              \/ /\ phase = "idle" /\ phase' = "projectiles"
                 /\ moved[p] /\ StepPaid(p) = 0
              => health'[p] = 0]_vars
  <2> SUFFICES ASSUME IInv, [Next]_vars, NEW p \in Players,
                      \/ ~IsAlive(p)
                      \/ /\ phase = "idle" /\ phase' = "projectiles"
                         /\ moved[p] /\ StepPaid(p) = 0
               PROVE  health'[p] = 0
    OBVIOUS
  <2>1. CASE ~IsAlive(p)
    BY <2>1, StepKeepsDead
  <2>2. CASE /\ phase = "idle" /\ phase' = "projectiles"
             /\ moved[p] /\ StepPaid(p) = 0
    <3>1. PICK n \in 1 .. MaxUpdates : UpdatePlayers(n)
      BY <2>2 DEF Next, Tick, vars, MovePlayer, ShootProjectile, KillPlayer, MoveProjectile,
                  FinishUpdate
    <3>2. Drained(p, n) = 0
      BY <2>2, PaidWithAll DEF IInv
    <3> QED BY <3>1, <3>2 DEF UpdatePlayers
  <2> QED BY <2>1, <2>2
<1> QED BY <1>1, Invariance, PTL DEF Spec, LosesAtZero

LEMMA AtMostOne ==
  ASSUME NEW S, IsFiniteSet(S), Cardinality(S) <= 1
  PROVE  \A p, q \in S : p = q
<1> SUFFICES ASSUME NEW p \in S, NEW q \in S, p # q
             PROVE  FALSE
  OBVIOUS
<1>1. IsFiniteSet({p}) /\ Cardinality({p}) = 1
  BY FS_Singleton
<1>2. IsFiniteSet({p} \union {q}) /\ Cardinality({p} \union {q}) = 2
  <2>1. q \notin {p}
    OBVIOUS
  <2>2. IsFiniteSet({p} \union {q})
    BY <1>1, FS_AddElement
  <2>3. Cardinality({p} \union {q}) =
          IF q \in {p} THEN Cardinality({p}) ELSE Cardinality({p}) + 1
    BY <1>1, FS_AddElement, Zenon
  <2> QED BY <1>1, <2>1, <2>2, <2>3
<1>3. /\ Cardinality({p} \union {q}) <= Cardinality(S)
      /\ Cardinality(S) \in Nat
  BY <1>2, FS_Subset, FS_CardinalityType, {p} \union {q} \subseteq S
<1> QED BY <1>2, <1>3

LEMMA AliveShrinks ==
  ASSUME IInv, [Next]_vars
  PROVE  Alive' \subseteq Alive
<1>1. \A p \in Players : ~IsAlive(p) => health'[p] = 0
  BY StepKeepsDead
<1> QED BY <1>1 DEF Alive, IsAlive

(***************************************************************************)
(* The end of the game is not taken back: once is_ended_ is set, at most   *)
(* one player is alive for good.                                           *)
(***************************************************************************)
THEOREM EndIsFinal == Spec => []EndedForGood
<1>1. Init => EndedForGood
  BY DEF Init, EndedForGood
<1>2. IInv /\ EndedForGood /\ [Next]_vars => EndedForGood'
  <2> SUFFICES ASSUME IInv, EndedForGood, [Next]_vars, ended'
               PROVE  Cardinality(Alive') <= 1
    BY DEF EndedForGood
  <2>1. Alive' \subseteq Alive /\ IsFiniteSet(Alive)
    <3>1. Alive \subseteq Players /\ IsFiniteSet(Players)
      BY SettingsAssumption DEF Alive
    <3> QED BY <3>1, AliveShrinks, FS_Subset
  <2>2. /\ Cardinality(Alive') <= Cardinality(Alive)
        /\ Cardinality(Alive') \in Nat /\ Cardinality(Alive) \in Nat
    <3>1. IsFiniteSet(Alive')
      BY <2>1, FS_Subset
    <3> QED BY <2>1, <3>1, FS_Subset, FS_CardinalityType
  <2>3. ended \/ GameOver
    BY DEF Next, Tick, MovePlayer, ShootProjectile, KillPlayer, UpdatePlayers,
           MoveProjectile, FinishUpdate, vars
  <2>4. Cardinality(Alive) <= 1
    BY <2>3 DEF EndedForGood, GameOver
  <2> QED BY <2>2, <2>4
<1> QED BY <1>1, <1>2, Invariance, PTL DEF Spec

(***************************************************************************)
(* The engine implements the elimination: whatever command, tick or lost   *)
(* connection comes, players only drop out, and is_ended_ is set only when *)
(* at most one is left, for good.                                          *)
(***************************************************************************)
THEOREM ImplementsElimination == Spec => Contest!Spec
<1>1. Init => Contest!Init
  <2> SUFFICES ASSUME Init
               PROVE  Alive = Players /\ ended = FALSE
    BY DEF Contest!Init
  <2>1. \A p \in Players : health[p] > 0
    BY SettingsAssumption DEF Init
  <2> QED BY <2>1 DEF Init, Alive, IsAlive
<1>2. IInv /\ [Next]_vars => [Contest!Next]_<<Alive, ended>>
  <2> SUFFICES ASSUME IInv, [Next]_vars
               PROVE  [Contest!Next]_<<Alive, ended>>
    OBVIOUS
  <2>1. Alive' \subseteq Alive
    BY AliveShrinks
  <2>2. CASE FinishUpdate
    <3>1. Alive' = Alive
      BY <2>2 DEF FinishUpdate, Alive, IsAlive
    <3>2. IsFiniteSet(Alive')
      <4>1. Alive' \subseteq Players
        BY DEF Alive
      <4> QED BY <4>1, SettingsAssumption, FS_Subset
    <3>3. ended' = ended \/ (ended' = TRUE /\ Cardinality(Alive') <= 1)
      BY <2>2, <3>1 DEF FinishUpdate, GameOver, IInv, TypeOK
    <3>4. ended' = ended \/ (ended' = TRUE /\ \A p, q \in Alive' : p = q)
      BY <3>2, <3>3, AtMostOne
    <3> QED BY <2>1, <3>4 DEF Contest!Next, Contest!Decided
  <2>3. CASE ~FinishUpdate
    <3>1. ended' = ended
      BY <2>3 DEF Next, Tick, MovePlayer, ShootProjectile, KillPlayer, UpdatePlayers,
                  MoveProjectile, vars
    <3> QED BY <2>1, <3>1 DEF Contest!Next
  <2> QED BY <2>2, <2>3
<1> QED BY <1>1, <1>2, Invariance, PTL DEF Spec, Contest!Spec
=============================================================================
