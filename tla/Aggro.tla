------------------------------- MODULE Aggro -------------------------------
(***************************************************************************)
(* Who fights whom.  The shared world remembers, for every practice mob,  *)
(* the session that holds it (staticActorCombatEngagedBy), whether it was *)
(* acquired by mere nearness (proximityEngagedBy), the sessions it spares *)
(* until they walk away (staticActorProximityAggroSuppress, and, for those *)
(* who left, pendingProximityAggroSuppressByVID), and for every session   *)
(* the target it has selected (sessionCombatTargets).  A session has its   *)
(* own idea of its target (activeCombatTargetVID and the snapshot version  *)
(* it was selected under) and its own hit points, of which the shared      *)
(* world holds a copy.                                                     *)
(*                                                                         *)
(* A step is one critical section of the shared world's lock.  A handler   *)
(* of several sections starts with the first and leaves the others in      *)
(* todo, in order; its session takes no other packet meanwhile (stateMu),  *)
(* but every other session and every poll may come between.                *)
(***************************************************************************)
EXTENDS Integers, Sequences, FiniteSets, SequencesExt

CONSTANTS
    Player,       \* one character and the session that plays it
    Mob,          \* spawn-backed practice mobs, standing at home
    None,
    Place,        \* where a player can stand, on a line
    Town,         \* where /restart_town takes a fallen player
    Stand,        \* where each mob stands
    Radius,       \* the mobs' aggro radius
    Reach,        \* staticActorCombatTargetMaxDistance
    MaxHP,        \* hits a mob takes
    MaxLife,      \* blows a player takes
    RespawnDelay, \* ticks a dead mob waits
    Pack,         \* the mobs that share a regen prefix
    SharedHP,     \* the pack opted into shared_hp
    SyncRespawn,  \* the pack opted into sync_respawn
    Switch,       \* the mobs authored with target_switch
    MaxOpen       \* bound: handlers between two sections at once

ASSUME AggroConstants ==
    /\ None \notin Player \cup Mob
    /\ Place \subseteq Nat /\ Town \in Place /\ Stand \in [Mob -> Nat]
    /\ Radius \in Nat /\ Reach \in Nat
    /\ MaxHP \in Nat \ {0} /\ MaxLife \in Nat \ {0} /\ RespawnDelay \in Nat \ {0}
    /\ Pack \subseteq Mob /\ Switch \subseteq Mob
    /\ SharedHP \in BOOLEAN /\ SyncRespawn \in BOOLEAN /\ MaxOpen \in Nat

VARIABLES
    mob,   \* [Mob -> record]: hit points, respawn wait, holder, marks
    who,   \* [Player -> record]: the session, its selection and its life
    todo,  \* the sections the session's handler has still to run
    foe    \* the mob the session's running handler is about

vars == <<mob, who, todo, foe>>

Named == {"join", "select", "assist", "answer", "drop", "release", "forget", "record",
          "check", "rise", "carry", "leave"}

\* A mob among the sections stands for the one in which it joins its pack's fight.
Section == Named \cup Mob

\* A pack has eight members at most (spawnGroupPackMemberPrefix).
ASSUME PackAssumption == Named \cap Mob = {} /\ IsFiniteSet(Pack)

MobState == [hp : 0 .. MaxHP, wait : 0 .. RespawnDelay, owner : Player \cup {None},
             near : BOOLEAN, spared : SUBSET Player, parked : SUBSET Player]

PlayerState == [here : BOOLEAN, at : Place, down : BOOLEAN, life : 0 .. MaxLife,
                target : Mob \cup {None}, aim : Mob \cup {None}, stale : BOOLEAN]

TypeOK ==
    /\ mob \in [Mob -> MobState]
    /\ who \in [Player -> PlayerState]
    /\ todo \in [Player -> Seq(Section)]
    /\ foe \in [Player -> Mob \cup {None}]

----------------------------------------------------------------------------
(* Distances, and who counts for a mob. *)

Dist(m, x) == IF Stand[m] < x THEN x - Stand[m] ELSE Stand[m] - x

\* EvaluateStaticActorSpawnAggroAcquisition, for a mob at home.
Inside(m, p) == Dist(m, who[p].at) <= Radius

\* Connected, and above the hit point floor as the shared world knows it.
Live(p) == who[p].here /\ ~who[p].down

LiveInside(m) == {p \in Player : Live(p) /\ Inside(m, p)}

SomebodyHere == \E p \in Player : who[p].here

----------------------------------------------------------------------------
(* What is done to a mob, as functions of its record. *)

Freed(b) == [b EXCEPT !.owner = None, !.near = FALSE]

EngagedKeepingMarks(b, p) ==
    IF b.owner # None THEN b ELSE [b EXCEPT !.owner = p, !.near = FALSE]

\* setStaticActorCombatEngagementLocked: the first lock stands.
Engaged(b, p) ==
    IF b.owner # None THEN b
    ELSE [b EXCEPT !.owner = p, !.near = FALSE, !.spared = {}, !.parked = {}]

PartedUnmarked(b) == Freed(b)

\* A release that marks the holder only.
Parted(b) == [Freed(b) EXCEPT !.spared = @ \cup ({b.owner} \ {None})]

\* A release that spares everyone live and near, as death and rebuilding do.
Spent(m, b) == [Freed(b) EXCEPT !.spared = @ \cup LiveInside(m)]

\* clearStaticActorCombatEngagementsBySubjectLocked, for one mob.
LetGo(m, b, p) ==
    IF b.owner = p THEN [Freed(b) EXCEPT !.spared = @ \cup {p} \cup LiveInside(m)] ELSE b

SlainHeld(m, b) ==
    [b EXCEPT !.spared = @ \cup LiveInside(m), !.hp = 0, !.wait = RespawnDelay]

Slain(m, b) == [Spent(m, b) EXCEPT !.hp = 0, !.wait = RespawnDelay]

Risen(m, b) == [Spent(m, b) EXCEPT !.hp = MaxHP, !.wait = 0]

\* A session's own target, forgotten by the session and by the world.
Aimless(w) == [w EXCEPT !.target = None, !.aim = None, !.stale = FALSE]

----------------------------------------------------------------------------
(* attemptStaticActorCombatTargetLocked. *)

Held(p, m) == mob[m].owner \notin {None, p} /\ Live(mob[m].owner)

AcceptableDead(p, m) == Live(p) /\ Dist(m, who[p].at) <= Reach /\ ~Held(p, m)

Acceptable(p, m) ==
    /\ Live(p)
    /\ Dist(m, who[p].at) <= Reach
    /\ mob[m].hp > 0
    /\ ~Held(p, m)

\* A holder that is gone or fallen loses the mob to whoever asks next.
Lapses(p, m) == mob[m].owner \notin {None, p}

Asked(p, m) == IF Lapses(p, m) THEN Parted(mob[m]) ELSE mob[m]

Unselect(p, m) ==
    [q \in Player |-> IF Lapses(p, m) /\ q = mob[m].owner
                      THEN [who[q] EXCEPT !.target = None] ELSE who[q]]

----------------------------------------------------------------------------
(* AcquireProximitySpawnGroupAggro. *)

Eligible(m) == LiveInside(m) \ mob[m].spared

Nearest(m) ==
    {p \in Eligible(m) : \A q \in Eligible(m) : Dist(m, who[p].at) <= Dist(m, who[q].at)}

MaySwitchAnyLock(m, p) ==
    /\ m \in Switch /\ mob[m].owner \in LiveInside(m)
    /\ Dist(m, who[p].at) < Dist(m, who[mob[m].owner].at)

MaySwitch(m, p) ==
    LET b == mob[m] IN
    /\ m \in Switch /\ b.near /\ b.hp = MaxHP
    /\ \A q \in Player : who[q].target # m
    /\ b.owner \in LiveInside(m)
    /\ Dist(m, who[p].at) < Dist(m, who[b.owner].at)

\* The scan's outcome for one mob when p is the candidate it picks.
Scanned(m, p) ==
    LET b == [mob[m] EXCEPT !.spared = @ \cap LiveInside(m)] IN
    IF b.hp = 0 \/ p = None THEN b
    ELSE IF b.owner = None THEN [Engaged(b, p) EXCEPT !.near = TRUE]
    ELSE IF MaySwitch(m, p) THEN [b EXCEPT !.owner = p]
    ELSE b

\* Without a live candidate the scan returns before it touches a mark.
ScanWorld ==
    IF \A p \in Player : ~Live(p) THEN mob' = mob
    ELSE \E pick \in [Mob -> Player \cup {None}] :
            /\ \A m \in Mob : pick[m] \in IF Eligible(m) = {} THEN {None} ELSE Nearest(m)
            /\ mob' = [m \in Mob |-> Scanned(m, pick[m])]

----------------------------------------------------------------------------
(* The shape of a handler. *)

Busy == {p \in Player : todo[p] # <<>>}

Idle(p) == todo[p] = <<>> /\ Cardinality(Busy) < MaxOpen

Playing(p) == Idle(p) /\ who[p].here

\* Up in the session's own copy, which its handlers look at first.
Able(p) == Playing(p) /\ who[p].life > 0

Leaves(p, sections) == todo' = [todo EXCEPT ![p] = sections]

At(p, section) == todo[p] # <<>> /\ Head(todo[p]) = section

Done(p) == todo' = [todo EXCEPT ![p] = Tail(@)]

Due(m) == mob[m].hp = 0 /\ mob[m].wait = 0

\* What clearActiveCombatTarget does, in two sections.
ClearActive == <<"drop", "release">>

\* What follows a blow that left the player this much life.
AfterBlow(life) ==
    IF life = 0 THEN <<"drop", "release", "forget", "record">> ELSE <<"record">>

----------------------------------------------------------------------------
(* Coming and going. *)

\* ENTERGAME flushes the due respawns and scans, then joins.
Enter(p) ==
    /\ Idle(p) /\ ~who[p].here
    /\ \A m \in Mob : ~Due(m)
    /\ ScanWorld
    /\ Leaves(p, <<"join">>)
    /\ UNCHANGED <<who, foe>>

Join(p) ==
    /\ At(p, "join")
    /\ who' = [who EXCEPT ![p].here = TRUE, ![p].down = (who[p].life = 0)]
    /\ mob' = [m \in Mob |->
                  IF p \in mob[m].parked
                  THEN [mob[m] EXCEPT !.spared = @ \cup {p}, !.parked = @ \ {p}]
                  ELSE mob[m]]
    /\ Done(p)
    /\ UNCHANGED foe

\* Quit, logout, the way back to the character list, a lost connection.
Quit(p) ==
    /\ Playing(p)
    /\ Leaves(p, <<"drop", "release", "leave">>)
    /\ UNCHANGED <<mob, who, foe>>

LeaveForgets(p) ==
    /\ At(p, "leave")
    /\ who' = [who EXCEPT ![p] = [Aimless(@) EXCEPT !.here = FALSE]]
    /\ mob' = [m \in Mob |-> [LetGo(m, mob[m], p) EXCEPT !.spared = @ \ {p}]]
    /\ Done(p)
    /\ UNCHANGED foe

\* Every handler that leaves has let go just before.
LeaveTrusting(p) ==
    /\ At(p, "leave")
    /\ who' = [who EXCEPT ![p] = [Aimless(@) EXCEPT !.here = FALSE]]
    /\ mob' = [m \in Mob |->
                  IF p \in mob[m].spared
                  THEN [mob[m] EXCEPT !.spared = @ \ {p}, !.parked = @ \cup {p}]
                  ELSE mob[m]]
    /\ Done(p)
    /\ UNCHANGED foe

\* Leave: engagements end, marks are kept under the VID.
Leave(p) ==
    /\ At(p, "leave")
    /\ who' = [who EXCEPT ![p] = [Aimless(@) EXCEPT !.here = FALSE]]
    /\ mob' = [m \in Mob |->
                  LET b == LetGo(m, mob[m], p) IN
                  IF p \in b.spared
                  THEN [b EXCEPT !.spared = @ \ {p}, !.parked = @ \cup {p}]
                  ELSE b]
    /\ Done(p)
    /\ UNCHANGED foe

Move(p, x) ==
    /\ Able(p) /\ x # who[p].at
    /\ who' = [who EXCEPT ![p].at = x]
    /\ Leaves(p, <<"check">>)
    /\ UNCHANGED <<mob, foe>>

\* clearInvalidActiveCombatTargetAfterMovement.  With a target the session
\* asks for it anew; without one, what holds it by nearness loses it.
Check(p) ==
    /\ At(p, "check")
    /\ UNCHANGED foe
    /\ LET aim == who[p].aim IN
       \/ /\ aim # None /\ Acceptable(p, aim)
          /\ mob' = [mob EXCEPT ![aim] = Asked(p, aim)]
          /\ who' = Unselect(p, aim)
          /\ Done(p)
       \/ /\ aim # None /\ ~Acceptable(p, aim)
          /\ Leaves(p, ClearActive)
          /\ UNCHANGED <<mob, who>>
       \/ /\ aim = None
          /\ mob' = [m \in Mob |-> IF mob[m].owner = p /\ Live(p) /\ ~Inside(m, p)
                                   THEN Parted(mob[m]) ELSE mob[m]]
          /\ Done(p)
          /\ UNCHANGED who

\* transfer: the target and the engagements go, then the player stands there.
Carried(p, x, life) ==
    /\ mob' = [m \in Mob |-> LetGo(m, mob[m], p)]
    /\ UNCHANGED foe
    /\ who' = [who EXCEPT ![p].target = None, ![p].at = x,
                          ![p].life = life, ![p].down = (life = 0)]

Warp(p, x) ==
    /\ Playing(p) /\ x # who[p].at
    /\ Carried(p, x, who[p].life)
    /\ Leaves(p, ClearActive)

----------------------------------------------------------------------------
(* Selecting and striking. *)

\* TARGET resolves in one section and is recorded in another.
Target(p, m) ==
    /\ Able(p) /\ Acceptable(p, m)
    /\ mob' = [mob EXCEPT ![m] = Asked(p, m)]
    /\ who' = [Unselect(p, m) EXCEPT ![p].aim = m, ![p].stale = FALSE]
    /\ Leaves(p, <<"select">>)
    /\ UNCHANGED foe

Select(p) ==
    /\ At(p, "select")
    /\ who' = [who EXCEPT ![p].target = who[p].aim]
    /\ Done(p)
    /\ UNCHANGED <<mob, foe>>

Untarget(p) ==
    /\ Able(p)
    /\ Leaves(p, ClearActive)
    /\ UNCHANGED <<mob, who, foe>>

DropTarget(p) ==
    /\ At(p, "drop")
    /\ who' = [who EXCEPT ![p] = Aimless(@)]
    /\ Done(p)
    /\ UNCHANGED <<mob, foe>>

ReleaseAll(p) ==
    /\ At(p, "release")
    /\ mob' = [m \in Mob |-> LetGo(m, mob[m], p)]
    /\ Done(p)
    /\ UNCHANGED <<who, foe>>

SharedUnreleased(m, n, hp) ==
    IF SharedHP /\ {m, n} \subseteq Pack /\ mob[n].hp > 0
    THEN [mob[n] EXCEPT !.hp = hp, !.near = FALSE,
                        !.wait = IF hp = 0 THEN RespawnDelay ELSE @]
    ELSE mob[n]

\* copyOptInPackSharedHPLocked, for one mob other than the one struck.
Shared(m, n, hp) ==
    IF SharedHP /\ {m, n} \subseteq Pack /\ mob[n].hp > 0
    THEN LET b == [mob[n] EXCEPT !.hp = hp, !.near = FALSE]
         IN  IF hp = 0 THEN Slain(n, b) ELSE b
    ELSE mob[n]

\* The mob struck: damaged, locked by who struck it, or dead.
Struck(p, m, hp) ==
    LET b == Engaged([Asked(p, m) EXCEPT !.hp = hp, !.near = FALSE], p)
    IN  IF hp = 0 THEN Slain(m, b) ELSE b

AlignedNot(m, n, hp, b) == b

\* alignOptInPackSyncRespawnLocked: the pack's dead wait for the last of them.
Aligned(m, n, hp, b) ==
    IF SyncRespawn /\ hp = 0 /\ {m, n} \subseteq Pack /\ b.hp = 0
    THEN [b EXCEPT !.wait = RespawnDelay] ELSE b

\* An accepted ATTACK, and the mob's immediate answer to it.
Strike(p) ==
    /\ Able(p) /\ who[p].aim # None /\ who[p].target = who[p].aim /\ ~who[p].stale
    /\ Acceptable(p, who[p].aim)
    /\ LET m    == who[p].aim
           hp   == mob[m].hp - 1
           life == IF hp > 0 \/ who[p].life = 1 THEN who[p].life - 1 ELSE who[p].life
       IN  /\ mob' = [n \in Mob |-> Aligned(m, n, hp,
                         IF n = m THEN Struck(p, m, hp) ELSE Shared(m, n, hp))]
           /\ who' = [q \in Player |->
                  IF q = p THEN [who[q] EXCEPT !.life = life,
                                               !.target = IF hp = 0 THEN None ELSE @]
                  ELSE IF who[q].target = m THEN [who[q] EXCEPT !.target = None]
                  ELSE Unselect(p, m)[q]]
           /\ foe' = [foe EXCEPT ![p] = m]
           /\ Leaves(p, (IF hp = 0 THEN ClearActive
                         ELSE IF m \in Pack THEN <<"assist">> ELSE <<>>)
                        \o (IF life < who[p].life THEN AfterBlow(life) ELSE <<>>))

\* applySpawnGroupPackAssistEngagement: one section to see whether the mob struck
\* is still held, and one for each mob of its pack, in the order of their IDs.
Assist(p) ==
    /\ At(p, "assist")
    /\ UNCHANGED <<mob, who, foe>>
    /\ IF mob[foe[p]].hp > 0 /\ mob[foe[p]].owner = p
         THEN \E mates \in SetToSeqs(Pack \ {foe[p]}) : Leaves(p, mates \o Tail(todo[p]))
         ELSE Done(p)

\* Fault: whoever holds the mob loses it.
AssistOverrides(p) ==
    \E n \in Pack :
        /\ At(p, n)
        /\ mob' = [mob EXCEPT ![n] = IF @.hp > 0 THEN Engaged(Freed(@), p) ELSE @]
        /\ Done(p)
        /\ UNCHANGED <<who, foe>>

AssistMate(p) ==
    \E n \in Pack :
        /\ At(p, n)
        /\ mob' = [mob EXCEPT ![n] = IF @.hp > 0 THEN Engaged(@, p) ELSE @]
        /\ Done(p)
        /\ UNCHANGED <<who, foe>>

\* The delayed answer of a mob: it is asked for as a target is, and strikes if
\* it turns out to hold the player.
Retaliate(p, m) ==
    /\ Able(p) /\ Acceptable(p, m)
    /\ mob' = [mob EXCEPT ![m] = Asked(p, m)]
    /\ who' = Unselect(p, m)
    /\ foe' = [foe EXCEPT ![p] = m]
    /\ Leaves(p, <<"answer">>)

Answer(p) ==
    /\ At(p, "answer")
    /\ UNCHANGED <<mob, foe>>
    /\ IF mob[foe[p]].owner = p /\ who[p].life > 0
         THEN /\ who' = [who EXCEPT ![p].life = @ - 1]
              /\ Leaves(p, AfterBlow(who[p].life - 1))
         ELSE Done(p) /\ UNCHANGED who

\* ClearStaticActorCombatEngagement.
Forget(p) ==
    /\ At(p, "forget")
    /\ mob' = [mob EXCEPT ![foe[p]] = IF @.owner = p THEN Parted(@) ELSE @]
    /\ Done(p)
    /\ UNCHANGED <<who, foe>>

\* The shared world's copy of the player follows, and a target that a blow
\* which did not fell the player left invalid goes.
Record(p) ==
    /\ At(p, "record")
    /\ Done(p)
    /\ UNCHANGED foe
    /\ LET w    == who[p]
           lost == w.life > 0 /\ w.target # None /\ ~Acceptable(p, w.target)
       IN  /\ who' = [who EXCEPT ![p].down = (w.life = 0),
                                 ![p].target = IF lost THEN None ELSE @]
           /\ mob' = IF lost THEN [m \in Mob |-> LetGo(m, mob[m], p)] ELSE mob

----------------------------------------------------------------------------
(* Rising again, and what the polls do. *)

\* /restart_here and /restart_town: both scan while the player is still down.
Restart(p, how) ==
    /\ Playing(p) /\ who[p].life = 0
    /\ \A m \in Mob : ~Due(m)
    /\ ScanWorld
    /\ Leaves(p, <<how, "drop", "release">>)
    /\ UNCHANGED <<who, foe>>

RiseHere(p) ==
    /\ At(p, "rise")
    /\ who' = [who EXCEPT ![p].life = MaxLife, ![p].down = FALSE]
    /\ Done(p)
    /\ UNCHANGED <<mob, foe>>

RiseInTown(p) == At(p, "carry") /\ Carried(p, Town, MaxLife) /\ Done(p)

Scan == ScanWorld /\ UNCHANGED <<who, todo, foe>>

RespawnUnseen(m) ==
    /\ Due(m) /\ LiveInside(m) = {}
    /\ mob' = [mob EXCEPT ![m] = Risen(m, @)]
    /\ who' = [q \in Player |->
                  [who[q] EXCEPT !.target = IF @ = m THEN None ELSE @,
                                 !.stale = (@ \/ who[q].aim = m)]]
    /\ UNCHANGED <<todo, foe>>

\* flushReadyStaticActorRespawnLocked.
Respawn(m) ==
    /\ Due(m)
    /\ mob' = [mob EXCEPT ![m] = Risen(m, @)]
    /\ who' = [q \in Player |->
                  [who[q] EXCEPT !.target = IF @ = m THEN None ELSE @,
                                 !.stale = (@ \/ who[q].aim = m)]]
    /\ UNCHANGED <<todo, foe>>

Tick ==
    /\ \E m \in Mob : mob[m].wait > 0
    /\ mob' = [m \in Mob |-> [mob[m] EXCEPT !.wait = IF @ > 0 THEN @ - 1 ELSE 0]]
    /\ UNCHANGED <<who, todo, foe>>

Handler(p) ==
    \/ Enter(p) \/ Quit(p) \/ Untarget(p) \/ Strike(p)
    \/ \E x \in Place : Move(p, x) \/ Warp(p, x)
    \/ \E m \in Mob : Target(p, m) \/ Retaliate(p, m)
    \/ \E how \in {"rise", "carry"} : Restart(p, how)

Continue(p) ==
    \/ Join(p) \/ Leave(p) \/ Check(p) \/ Select(p) \/ DropTarget(p) \/ ReleaseAll(p)
    \/ Assist(p) \/ AssistMate(p) \/ Answer(p) \/ Forget(p) \/ Record(p)
    \/ RiseHere(p) \/ RiseInTown(p)

Fresh == [hp |-> MaxHP, wait |-> 0, owner |-> None, near |-> FALSE, spared |-> {}, parked |-> {}]

Init ==
    /\ mob = [m \in Mob |-> Fresh]
    /\ \E at \in [Player -> Place] :
          who = [p \in Player |-> [here |-> FALSE, at |-> at[p], down |-> FALSE,
                                   life |-> MaxLife, target |-> None, aim |-> None,
                                   stale |-> FALSE]]
    /\ todo = [p \in Player |-> <<>>]
    /\ foe = [p \in Player |-> None]

Next ==
    \/ \E p \in Player : Handler(p) \/ Continue(p)
    \/ \E m \in Mob : Respawn(m)
    \/ Scan
    \/ Tick

Spec == Init /\ [][Next]_vars

\* Handlers run to their end, the clock runs, and a session's poll, while
\* one is connected, comes to the mobs that are due.
FairSpec ==
    /\ Spec
    /\ \A p \in Player : WF_vars(Continue(p))
    /\ WF_vars(Tick)
    /\ \A m \in Mob : WF_vars(SomebodyHere /\ Respawn(m))

----------------------------------------------------------------------------
(* Properties. *)

\* A dead mob holds nobody, however it died: struck down, or with its pack.
\* It comes back for whoever strikes it first, not for its killer.
DeadAreFree == \A m \in Mob : mob[m].hp = 0 => mob[m].owner = None

\* A mob that fights somebody spares nobody: the marks and the parked marks
\* of earlier releases end with the lock, on every path that takes one.
HeldSparesNobody ==
    \A m \in Mob : mob[m].owner # None => mob[m].spared = {} /\ mob[m].parked = {}

\* Who holds a mob, who is spared and whose target is recorded is connected;
\* parked marks are of players who are not.  Scans, strikes, respawns and
\* other players' departures come between the sections of a departure.
PartiesAreConnected ==
    /\ \A m \in Mob :
          /\ mob[m].owner # None => who[mob[m].owner].here
          /\ \A p \in mob[m].spared : who[p].here
          /\ \A p \in mob[m].parked : ~who[p].here
    /\ \A p \in Player : who[p].target # None => who[p].here

\* The dead of a sync_respawn pack wait for the same moment, whether one blow
\* killed them or one died while the other was waiting already.
PackWaitsTogether ==
    SyncRespawn => \A m, n \in Pack : mob[m].hp = 0 /\ mob[n].hp = 0 => mob[m].wait = mob[n].wait

LockKept(m) ==
    LET b == mob[m] p == b.owner q == mob'[m].owner IN
    p # None /\ q # None /\ q # p =>
        \/ ~Live(p)
        \/ b.near /\ b.hp = MaxHP /\ \A r \in Player : who[r].target # m

\* The first lock stands: a mob goes over from one player to another only if
\* the first is gone or fallen, or held it by nearness alone, unhurt and
\* untargeted.  Another's strike, TARGET, assist or scan cannot take it.
LocksAreKept == [][\A m \in Mob : LockKept(m)]_vars

\* A mob that lets go of a player who stands by, alive, marks him, so that the
\* next scan does not take him again: whether he untargets, is beaten, warps,
\* leaves, kills it, or it rises.
ReleaseMarks ==
    [][\A m \in Mob, p \in Player :
         /\ mob[m].owner = p /\ mob'[m].owner = None
         /\ Live(p) /\ Inside(m, p)
         => p \in mob'[m].spared \cup mob'[m].parked]_vars

MarkLost(m, p) == p \in mob[m].spared /\ p \notin mob'[m].spared

MayLose(m, p) == ~Inside(m, p) \/ mob'[m].owner # None \/ p \in mob'[m].parked

\* A player on his feet keeps his mark until he walks out of the radius, the
\* mob is fought again, or he leaves the world with it.
SparedWhileUp ==
    [][\A m \in Mob, p \in Player : MarkLost(m, p) => MayLose(m, p) \/ who[p].down]_vars

\* What the documentation says: the mark outlasts a fall and /restart_here,
\* and only leaving the radius ends it.
SparedUntilTheyLeave ==
    [][\A m \in Mob, p \in Player : MarkLost(m, p) => MayLose(m, p)]_vars

\* While somebody stays connected, no mob stays dead: deaths, releases, other
\* sessions' handlers and scans never put a respawn off for good.  (For a mob
\* outside sync_respawn packs, whose later deaths do put it off.)
RisesAgain == (<>[]SomebodyHere) => \A m \in Mob : []<>(mob[m].hp > 0)
============================================================================
