---------------------------- MODULE Aggro_proofs ----------------------------
(***************************************************************************)
(* Proofs about Aggro.  What is done to a mob is done by a few functions of *)
(* its record; each keeps the record sound, and every section applies them  *)
(* to some mobs and leaves who is connected as it was, but for Join and     *)
(* Leave.                                                                   *)
(***************************************************************************)
EXTENDS Aggro, FiniteSetTheorems, TLAPS

Here == {p \in Player : who[p].here}

\* A mob's record agrees with itself and with who is connected.
Marked(b, H) ==
    /\ b.owner # None => b.owner \in H /\ b.spared = {} /\ b.parked = {}
    /\ b.spared \subseteq H
    /\ b.parked \cap H = {}

Sound(b, H) == Marked(b, H) /\ (b.hp = 0 => b.owner = None)

\* Sections about the mob the handler is about, and those that select or lock.
AboutFoe == {"assist", "answer"}
Claiming == {"select"} \cup Mob

\* What is left to do is done by a session that still can.
SectionsInv ==
    \A p \in Player : \A i \in 1 .. Len(todo[p]) :
        /\ todo[p][i] \in AboutFoe => foe[p] # None
        /\ todo[p][i] \in Claiming => who[p].here
        /\ todo[p][i] = "leave" => i = Len(todo[p])

MobsInv == \A m \in Mob : Sound(mob[m], Here)

TargetsInv == \A p \in Player : who[p].target # None => who[p].here

IInv == TypeOK /\ MobsInv /\ TargetsInv /\ SectionsInv

\* The state the functions below read, whatever the rest is.
Typed == mob \in [Mob -> MobState] /\ who \in [Player -> PlayerState]

-----------------------------------------------------------------------------
(* The functions of a mob's record. *)

LEMMA LiveInsideHere ==
    ASSUME Typed, NEW m
    PROVE  LiveInside(m) \subseteq Here /\ LiveInside(m) \subseteq Player
  BY DEF LiveInside, Live, Here

LEMMA FreedSound ==
    ASSUME NEW b \in MobState
    PROVE  /\ Freed(b) \in MobState
           /\ Freed(b).owner = None /\ Freed(b).hp = b.hp /\ Freed(b).wait = b.wait
           /\ Freed(b).spared = b.spared /\ Freed(b).parked = b.parked
  BY DEF Freed, MobState

LEMMA EngagedSound ==
    ASSUME NEW b \in MobState, NEW p \in Player, NEW H
    PROVE  /\ Engaged(b, p) \in MobState
           /\ Engaged(b, p).hp = b.hp /\ Engaged(b, p).wait = b.wait
           /\ Engaged(b, p).owner = IF b.owner # None THEN b.owner ELSE p
           /\ Engaged(b, p).spared = IF b.owner # None THEN b.spared ELSE {}
           /\ Marked(b, H) /\ p \in H => Marked(Engaged(b, p), H)
  BY AggroConstants DEF Engaged, MobState, Marked

LEMMA PartedSound ==
    ASSUME NEW b \in MobState, NEW H
    PROVE  /\ Parted(b) \in MobState
           /\ Parted(b).owner = None /\ Parted(b).hp = b.hp /\ Parted(b).wait = b.wait
           /\ Parted(b).spared = b.spared \cup ({b.owner} \ {None})
           /\ Sound(b, H) => Sound(Parted(b), H)
<1>1. /\ Parted(b) \in MobState
      /\ Parted(b).owner = None /\ Parted(b).hp = b.hp /\ Parted(b).wait = b.wait
      /\ Parted(b).spared = b.spared \cup ({b.owner} \ {None})
      /\ Parted(b).parked = b.parked
    BY DEF Parted, Freed, MobState
<1>2. Sound(b, H) => Sound(Parted(b), H)
    BY <1>1 DEF Sound, Marked
<1> QED BY <1>1, <1>2

LEMMA SpentSound ==
    ASSUME Typed, NEW m \in Mob, NEW b \in MobState
    PROVE  /\ Spent(m, b) \in MobState
           /\ Spent(m, b).owner = None /\ Spent(m, b).hp = b.hp
           /\ Spent(m, b).spared = b.spared \cup LiveInside(m)
           /\ Marked(b, Here) => Marked(Spent(m, b), Here)
<1>1. /\ Spent(m, b) \in MobState
      /\ Spent(m, b).owner = None /\ Spent(m, b).hp = b.hp
      /\ Spent(m, b).spared = b.spared \cup LiveInside(m)
      /\ Spent(m, b).parked = b.parked
    BY LiveInsideHere DEF Spent, Freed, MobState
<1>2. Marked(b, Here) => Marked(Spent(m, b), Here)
    BY <1>1, LiveInsideHere DEF Sound, Marked
<1> QED BY <1>1, <1>2

LEMMA LetGoSound ==
    ASSUME Typed, NEW m \in Mob, NEW b \in MobState, NEW p \in Player
    PROVE  /\ LetGo(m, b, p) \in MobState
           /\ LetGo(m, b, p).hp = b.hp /\ LetGo(m, b, p).wait = b.wait
           /\ LetGo(m, b, p).owner = IF b.owner = p THEN None ELSE b.owner
           /\ b.spared \subseteq LetGo(m, b, p).spared
           /\ b.owner = p => p \in LetGo(m, b, p).spared
           /\ LetGo(m, b, p).parked = b.parked
           /\ Sound(b, Here) => Sound(LetGo(m, b, p), Here)
<1>1. /\ LetGo(m, b, p) \in MobState
      /\ LetGo(m, b, p).hp = b.hp /\ LetGo(m, b, p).wait = b.wait
      /\ LetGo(m, b, p).owner = IF b.owner = p THEN None ELSE b.owner
      /\ LetGo(m, b, p).spared =
            IF b.owner = p THEN b.spared \cup {p} \cup LiveInside(m) ELSE b.spared
      /\ LetGo(m, b, p).parked = b.parked
    BY LiveInsideHere DEF LetGo, Freed, MobState
<1>2. Sound(b, Here) => Sound(LetGo(m, b, p), Here)
    BY <1>1, LiveInsideHere, AggroConstants DEF Sound, Marked
<1> QED BY <1>1, <1>2

LEMMA SlainSound ==
    ASSUME Typed, NEW m \in Mob, NEW b \in MobState
    PROVE  /\ Slain(m, b) \in MobState
           /\ Slain(m, b).owner = None /\ Slain(m, b).hp = 0
           /\ Slain(m, b).wait = RespawnDelay
           /\ Slain(m, b).spared = b.spared \cup LiveInside(m)
           /\ Marked(b, Here) => Marked(Slain(m, b), Here)
<1>1. Spent(m, b) \in MobState
    BY SpentSound
<1>2. /\ Slain(m, b) \in MobState
      /\ Slain(m, b).owner = Spent(m, b).owner /\ Slain(m, b).hp = 0
      /\ Slain(m, b).wait = RespawnDelay
      /\ Slain(m, b).spared = Spent(m, b).spared
      /\ Slain(m, b).parked = Spent(m, b).parked
    <2>1. 0 \in 0 .. MaxHP /\ RespawnDelay \in 0 .. RespawnDelay
        BY AggroConstants
    <2>2. Slain(m, b) = [Spent(m, b) EXCEPT !.hp = 0, !.wait = RespawnDelay]
        BY DEF Slain
    <2>3. Slain(m, b) \in MobState
        BY <1>1, <2>1, <2>2 DEF MobState
    <2> QED BY <1>1, <2>2, <2>3 DEF MobState
<1>3. Marked(b, Here) => Marked(Slain(m, b), Here)
    BY <1>2, SpentSound DEF Sound, Marked
<1> QED BY <1>2, <1>3, SpentSound

LEMMA RisenSound ==
    ASSUME Typed, NEW m \in Mob, NEW b \in MobState
    PROVE  /\ Risen(m, b) \in MobState
           /\ Risen(m, b).owner = None /\ Risen(m, b).hp = MaxHP
           /\ Risen(m, b).spared = b.spared \cup LiveInside(m)
           /\ Marked(b, Here) => Marked(Risen(m, b), Here)
<1>1. Spent(m, b) \in MobState
    BY SpentSound
<1>2. /\ Risen(m, b) \in MobState
      /\ Risen(m, b).owner = Spent(m, b).owner /\ Risen(m, b).hp = MaxHP
      /\ Risen(m, b).spared = Spent(m, b).spared
      /\ Risen(m, b).parked = Spent(m, b).parked
    <2>1. MaxHP \in 0 .. MaxHP /\ 0 \in 0 .. RespawnDelay
        BY AggroConstants
    <2>2. Risen(m, b) = [Spent(m, b) EXCEPT !.hp = MaxHP, !.wait = 0]
        BY DEF Risen
    <2>3. Risen(m, b) \in MobState
        BY <1>1, <2>1, <2>2 DEF MobState
    <2> QED BY <1>1, <2>2, <2>3 DEF MobState
<1>3. Marked(b, Here) => Marked(Risen(m, b), Here)
    BY <1>2, SpentSound DEF Sound, Marked
<1> QED BY <1>2, <1>3, SpentSound

LEMMA AskedSound ==
    ASSUME Typed, NEW m \in Mob, NEW p \in Player
    PROVE  /\ Asked(p, m) \in MobState
           /\ Asked(p, m).hp = mob[m].hp /\ Asked(p, m).wait = mob[m].wait
           /\ Asked(p, m).owner = IF Lapses(p, m) THEN None ELSE mob[m].owner
           /\ mob[m].spared \subseteq Asked(p, m).spared
           /\ Lapses(p, m) => mob[m].owner \in Asked(p, m).spared
           /\ \A H : Sound(mob[m], H) => Sound(Asked(p, m), H)
<1>1. mob[m] \in MobState
    BY DEF Typed
<1> QED BY <1>1, PartedSound DEF Asked, Lapses

\* A player the scan may pick.
LEMMA NearestIsLive ==
    ASSUME NEW m, NEW p \in Nearest(m)
    PROVE  p \in Player /\ Live(p) /\ Inside(m, p) /\ p \in Here
  BY DEF Nearest, Eligible, LiveInside, Live, Here

LEMMA ScannedSound ==
    ASSUME Typed, MobsInv, NEW m \in Mob,
           NEW p \in Player \cup {None}, p = None \/ p \in Here
    PROVE  /\ Scanned(m, p) \in MobState /\ Sound(Scanned(m, p), Here)
           /\ Scanned(m, p).hp = mob[m].hp /\ Scanned(m, p).wait = mob[m].wait
           /\ \/ Scanned(m, p).owner = mob[m].owner
              \/ mob[m].owner = None
              \/ p \in Player /\ MaySwitch(m, p)
           /\ mob[m].owner # None => Scanned(m, p).owner # None
           /\ \/ Scanned(m, p).owner # None
              \/ Scanned(m, p).spared = mob[m].spared \cap LiveInside(m)
<1> DEFINE b == [mob[m] EXCEPT !.spared = @ \cap LiveInside(m)]
<1>1. /\ b \in MobState /\ b.hp = mob[m].hp /\ b.wait = mob[m].wait
      /\ b.owner = mob[m].owner /\ b.spared = mob[m].spared \cap LiveInside(m)
      /\ b.parked = mob[m].parked
    BY DEF Typed, MobState
<1>2. Sound(b, Here)
    <2>1. Sound(mob[m], Here)
        BY DEF MobsInv
    <2> HIDE DEF b
    <2> QED BY <1>1, <2>1 DEF Sound, Marked
<1>3. Scanned(m, p) = IF b.hp = 0 \/ p = None THEN b
                      ELSE IF b.owner = None THEN [Engaged(b, p) EXCEPT !.near = TRUE]
                      ELSE IF MaySwitch(m, p) THEN [b EXCEPT !.owner = p]
                      ELSE b
    BY DEF Scanned
<1> HIDE DEF b
<1>4. CASE b.hp = 0 \/ p = None
    BY <1>1, <1>2, <1>3, <1>4
<1>5. CASE ~(b.hp = 0 \/ p = None) /\ b.owner = None
    <2>1. p \in Player /\ p \in Here
        BY <1>5
    <2> DEFINE e == Engaged(b, p)
    <2>2. /\ e \in MobState /\ e.hp = b.hp /\ e.wait = b.wait /\ e.owner = p
          /\ Sound(e, Here)
        <3>1. /\ e \in MobState /\ e.hp = b.hp /\ e.wait = b.wait /\ e.owner = p
              /\ Marked(b, Here) /\ p \in Here => Marked(e, Here)
            BY <1>1, <1>5, <2>1, EngagedSound
        <3> HIDE DEF e
        <3> QED BY <1>1, <1>2, <1>5, <2>1, <3>1 DEF Sound
    <2> HIDE DEF e
    <2>3. /\ [e EXCEPT !.near = TRUE] \in MobState
          /\ [e EXCEPT !.near = TRUE].hp = e.hp /\ [e EXCEPT !.near = TRUE].wait = e.wait
          /\ [e EXCEPT !.near = TRUE].owner = e.owner
          /\ [e EXCEPT !.near = TRUE].spared = e.spared
          /\ [e EXCEPT !.near = TRUE].parked = e.parked
        BY <2>2 DEF MobState
    <2>4. Sound([e EXCEPT !.near = TRUE], Here)
        BY <2>2, <2>3 DEF Sound, Marked
    <2>5. Scanned(m, p) = [e EXCEPT !.near = TRUE]
        BY <1>3, <1>5 DEF e
    <2>6. p # None
        BY <1>5
    <2> QED BY <1>1, <1>5, <2>2, <2>3, <2>4, <2>5, <2>6
<1>6. CASE ~(b.hp = 0 \/ p = None) /\ b.owner # None
    <2>1. p \in Player /\ p \in Here /\ p # None
        BY <1>6
    <2>2. CASE MaySwitch(m, p)
        <3>1. /\ [b EXCEPT !.owner = p] \in MobState
              /\ [b EXCEPT !.owner = p].hp = b.hp /\ [b EXCEPT !.owner = p].wait = b.wait
              /\ [b EXCEPT !.owner = p].owner = p
              /\ [b EXCEPT !.owner = p].spared = b.spared
              /\ [b EXCEPT !.owner = p].parked = b.parked
            BY <1>1, <2>1 DEF MobState
        <3>2. Sound([b EXCEPT !.owner = p], Here)
            BY <1>2, <1>6, <2>1, <3>1 DEF Sound, Marked
        <3> QED BY <1>1, <1>3, <1>6, <2>1, <2>2, <3>1, <3>2
    <2>3. CASE ~MaySwitch(m, p)
        BY <1>1, <1>2, <1>3, <1>6, <2>3
    <2> QED BY <2>2, <2>3
<1> QED BY <1>4, <1>5, <1>6

\* The scan keeps every mob sound.
LEMMA ScanSound ==
    ASSUME Typed, MobsInv, ScanWorld
    PROVE  /\ mob' \in [Mob -> MobState]
           /\ \A m \in Mob : Sound(mob'[m], Here)
           /\ \A m \in Mob :
                 /\ mob'[m].hp = mob[m].hp /\ mob'[m].wait = mob[m].wait
                 /\ \/ mob'[m].owner = mob[m].owner
                    \/ mob[m].owner = None
                    \/ \E p \in Player : MaySwitch(m, p)
                 /\ mob[m].owner # None => mob'[m].owner # None
                 /\ \/ mob'[m].owner # None
                    \/ mob[m].spared \cap LiveInside(m) \subseteq mob'[m].spared
<1>1. CASE mob' = mob
    BY <1>1 DEF Typed, MobsInv
<1>2. CASE \E pick \in [Mob -> Player \cup {None}] :
              /\ \A m \in Mob : pick[m] \in IF Eligible(m) = {} THEN {None} ELSE Nearest(m)
              /\ mob' = [m \in Mob |-> Scanned(m, pick[m])]
    <2> PICK pick \in [Mob -> Player \cup {None}] :
              /\ \A m \in Mob : pick[m] \in IF Eligible(m) = {} THEN {None} ELSE Nearest(m)
              /\ mob' = [m \in Mob |-> Scanned(m, pick[m])]
        BY <1>2
    <2>1. ASSUME NEW m \in Mob
          PROVE  /\ pick[m] \in Player \cup {None}
                 /\ pick[m] = None \/ pick[m] \in Here
        <3>1. CASE Eligible(m) = {}
            BY <3>1
        <3>2. CASE Eligible(m) # {}
            BY <3>2, NearestIsLive
        <3> QED BY <3>1, <3>2
    <2> QED BY <2>1, ScannedSound
<1> QED BY <1>1, <1>2 DEF ScanWorld

-----------------------------------------------------------------------------
(* What a section leaves to do, and who stays connected. *)

SameHere == \A q \in Player : who'[q].here = who[q].here

LEMMA HereKept ==
    ASSUME SameHere, \A m \in Mob : Sound(mob'[m], Here)
    PROVE  MobsInv' /\ Here' = Here
  BY DEF SameHere, MobsInv, Here, Sound

LEMMA TargetsKept ==
    ASSUME TargetsInv, SameHere,
           \A q \in Player : \/ who'[q].target \in {who[q].target, None}
                             \/ who[q].here
    PROVE  TargetsInv'
  BY DEF TargetsInv, SameHere

LEMMA SectionsDone ==
    ASSUME TypeOK, SectionsInv, NEW p \in Player, todo[p] # <<>>, Done(p),
           foe' = foe, \A q \in Player : who[q].here => who'[q].here \/ (Len(todo[q]) = 1 /\ q = p)
    PROVE  SectionsInv' /\ todo' \in [Player -> Seq(Section)]
<1>1. /\ todo' \in [Player -> Seq(Section)]
      /\ todo'[p] = Tail(todo[p])
      /\ \A q \in Player : q # p => todo'[q] = todo[q]
    BY DEF TypeOK, Done
<1>2. /\ todo[p] \in Seq(Section) /\ Len(todo'[p]) = Len(todo[p]) - 1
      /\ \A i \in 1 .. Len(todo'[p]) : todo'[p][i] = todo[p][i + 1]
    BY <1>1 DEF TypeOK
<1>3. ASSUME NEW q \in Player, NEW i \in 1 .. Len(todo'[q])
      PROVE  /\ todo'[q][i] \in AboutFoe => foe'[q] # None
             /\ todo'[q][i] \in Claiming => who'[q].here
             /\ todo'[q][i] = "leave" => i = Len(todo'[q])
    <2>1. CASE q = p
        <3>1. i + 1 \in 1 .. Len(todo[p]) /\ Len(todo[p]) \in Nat /\ Len(todo[p]) > 1
            BY <1>2, <1>3, <2>1
        <3> QED BY <1>2, <2>1, <3>1 DEF SectionsInv
    <2>2. CASE q # p
        BY <1>1, <1>3, <2>2 DEF SectionsInv
    <2> QED BY <2>1, <2>2
<1> QED BY <1>1, <1>3 DEF SectionsInv

\* Sections a session may be left with.
Fit(s, foeOf, here) ==
    \A i \in 1 .. Len(s) :
        /\ s[i] \in AboutFoe => foeOf # None
        /\ s[i] \in Claiming => here
        /\ s[i] = "leave" => i = Len(s)

LEMMA SectionsLeft ==
    ASSUME TypeOK, SectionsInv, NEW p \in Player, NEW s \in Seq(Section), Leaves(p, s),
           SameHere, \A q \in Player : q # p => foe'[q] = foe[q],
           Fit(s, foe'[p], who[p].here)
    PROVE  SectionsInv' /\ todo' \in [Player -> Seq(Section)]
<1>1. /\ todo' \in [Player -> Seq(Section)] /\ todo'[p] = s
      /\ \A q \in Player : q # p => todo'[q] = todo[q]
    BY DEF TypeOK, Leaves
<1>2. ASSUME NEW q \in Player, NEW i \in 1 .. Len(todo'[q])
      PROVE  /\ todo'[q][i] \in AboutFoe => foe'[q] # None
             /\ todo'[q][i] \in Claiming => who'[q].here
             /\ todo'[q][i] = "leave" => i = Len(todo'[q])
    <2>1. CASE q = p
        BY <1>1, <1>2, <2>1 DEF Fit, SameHere
    <2>2. CASE q # p
        BY <1>1, <1>2, <2>2 DEF SectionsInv, SameHere
    <2> QED BY <2>1, <2>2
<1> QED BY <1>1, <1>2 DEF SectionsInv

\* The lists of sections that handlers leave.
LEMMA Lists ==
    /\ \A x \in Named : <<x>> \in Seq(Section) /\ Len(<<x>>) = 1
    /\ <<>> \in Seq(Section) /\ ClearActive \in Seq(Section)
    /\ <<"drop", "release", "leave">> \in Seq(Section)
    /\ \A how \in {"rise", "carry"} : <<how, "drop", "release">> \in Seq(Section)
    /\ \A life : AfterBlow(life) \in Seq(Section)
<1>1. \A x \in Named : <<x>> \in Seq(Section) /\ Len(<<x>>) = 1
    BY DEF Section
<1>2. /\ <<>> \in Seq(Section) /\ <<"drop", "release">> \in Seq(Section)
      /\ <<"drop", "release", "leave">> \in Seq(Section)
    BY DEF Section, Named
<1>3. \A how \in {"rise", "carry"} : <<how, "drop", "release">> \in Seq(Section)
    BY DEF Section, Named
<1>4. <<"drop", "release", "forget", "record">> \in Seq(Section) /\ <<"record">> \in Seq(Section)
    BY DEF Section, Named
<1> QED BY <1>1, <1>2, <1>3, <1>4 DEF ClearActive, AfterBlow

LEMMA ListsFit ==
    ASSUME NEW f, NEW here
    PROVE  /\ \A x \in Named \ {"assist", "answer", "select"} : Fit(<<x>>, f, here)
           /\ f # None => Fit(<<"assist">>, f, here) /\ Fit(<<"answer">>, f, here)
           /\ here => Fit(<<"select">>, f, here)
           /\ Fit(<<>>, f, here) /\ Fit(ClearActive, f, here)
           /\ Fit(<<"drop", "release", "leave">>, f, here)
           /\ \A how \in {"rise", "carry"} : Fit(<<how, "drop", "release">>, f, here)
           /\ \A life : Fit(AfterBlow(life), f, here)
<1>1. /\ \A x \in Named \ {"assist", "answer", "select"} : Fit(<<x>>, f, here)
      /\ f # None => Fit(<<"assist">>, f, here) /\ Fit(<<"answer">>, f, here)
      /\ here => Fit(<<"select">>, f, here)
      /\ Fit(<<>>, f, here)
    BY PackAssumption DEF Fit, AboutFoe, Claiming, Named
<1>2. Fit(<<"drop", "release">>, f, here) /\ Fit(<<"drop", "release", "leave">>, f, here)
    BY PackAssumption DEF Fit, AboutFoe, Claiming, Named
<1>3. \A how \in {"rise", "carry"} : Fit(<<how, "drop", "release">>, f, here)
    BY PackAssumption DEF Fit, AboutFoe, Claiming, Named
<1>4. Fit(<<"drop", "release", "forget", "record">>, f, here) /\ Fit(<<"record">>, f, here)
    BY PackAssumption DEF Fit, AboutFoe, Claiming, Named
<1> QED BY <1>1, <1>2, <1>3, <1>4 DEF ClearActive, AfterBlow

\* What is left after the first section.
LEMMA FitTail ==
    ASSUME TypeOK, SectionsInv, NEW p \in Player, todo[p] # <<>>
    PROVE  Tail(todo[p]) \in Seq(Section) /\ Fit(Tail(todo[p]), foe[p], who[p].here)
<1> DEFINE s == todo[p]
<1>1. /\ s \in Seq(Section) /\ Tail(s) \in Seq(Section) /\ Len(Tail(s)) = Len(s) - 1
      /\ \A i \in 1 .. Len(Tail(s)) : Tail(s)[i] = s[i + 1] /\ i + 1 \in 1 .. Len(s)
    BY DEF TypeOK
<1> QED BY <1>1 DEF Fit, SectionsInv

\* The mobs of a pack, in any order.
LEMMA MatesFit ==
    ASSUME NEW f, NEW mates \in SetToSeqs(Pack \ {f})
    PROVE  /\ mates \in Seq(Section)
           /\ \A i \in 1 .. Len(mates) : mates[i] # "leave"
           /\ \A g : Fit(mates, g, TRUE)
<1>1. IsFiniteSet(Pack \ {f})
    BY PackAssumption, FS_Subset
<1>2. Cardinality(Pack \ {f}) \in Nat /\ mates \in [1 .. Cardinality(Pack \ {f}) -> Pack \ {f}]
    BY <1>1, FS_CardinalityType DEF SetToSeqs
<1>3. mates \in Seq(Mob) /\ \A i \in 1 .. Len(mates) : mates[i] \in Mob
    <2> DEFINE n == Cardinality(Pack \ {f})
    <2>1. n \in Nat /\ mates \in [1 .. n -> Mob]
        BY <1>2, AggroConstants
    <2> HIDE DEF n
    <2>2. mates \in Seq(Mob)
        BY <2>1
    <2> QED BY <2>2
<1>4. \A n \in Mob : n \notin Named
    BY PackAssumption
<1>5. mates \in Seq(Section)
    BY <1>3 DEF Section
<1> QED BY <1>3, <1>4, <1>5 DEF Fit, AboutFoe, Named

\* Two lists one after the other; only the second may end in a departure.
LEMMA FitConcat ==
    ASSUME NEW s \in Seq(Section), NEW t \in Seq(Section), NEW f, NEW here,
           Fit(s, f, here), Fit(t, f, here), \A i \in 1 .. Len(s) : s[i] # "leave"
    PROVE  s \o t \in Seq(Section) /\ Fit(s \o t, f, here)
<1>1. /\ s \o t \in Seq(Section) /\ Len(s \o t) = Len(s) + Len(t)
      /\ Len(s) \in Nat /\ Len(t) \in Nat
      /\ \A i \in 1 .. Len(s \o t) : (s \o t)[i] = IF i <= Len(s) THEN s[i] ELSE t[i - Len(s)]
    OBVIOUS
<1>2. ASSUME NEW i \in 1 .. Len(s \o t)
      PROVE  /\ (s \o t)[i] \in AboutFoe => f # None
             /\ (s \o t)[i] \in Claiming => here
             /\ (s \o t)[i] = "leave" => i = Len(s \o t)
    <2>1. CASE i <= Len(s)
        <3>1. i \in 1 .. Len(s) /\ (s \o t)[i] = s[i]
            BY <1>1, <1>2, <2>1
        <3> QED BY <3>1 DEF Fit
    <2>2. CASE ~(i <= Len(s))
        <3>1. i - Len(s) \in 1 .. Len(t) /\ (s \o t)[i] = t[i - Len(s)]
            BY <1>1, <1>2, <2>2
        <3> QED BY <1>1, <1>2, <3>1 DEF Fit
    <2> QED BY <2>1, <2>2
<1> QED BY <1>1, <1>2 DEF Fit

LEMMA UnselectKeeps ==
    ASSUME Typed, NEW p \in Player, NEW m \in Mob
    PROVE  /\ Unselect(p, m) \in [Player -> PlayerState]
           /\ \A q \in Player :
                 /\ Unselect(p, m)[q].here = who[q].here
                 /\ Unselect(p, m)[q].target \in {who[q].target, None}
                 /\ Unselect(p, m)[q].aim = who[q].aim
                 /\ Unselect(p, m)[q].life = who[q].life
  BY DEF Typed, Unselect, PlayerState

-----------------------------------------------------------------------------
(* The sections, one by one. *)

LEMMA EnterKeeps == ASSUME IInv, NEW p \in Player, Enter(p) PROVE IInv'
<1> USE DEF IInv
<1>1. Typed /\ SameHere
    BY DEF Enter, TypeOK, Typed, SameHere
<1>2. mob' \in [Mob -> MobState] /\ MobsInv'
    BY <1>1, ScanSound, HereKept DEF Enter
<1>3. TargetsInv'
    BY <1>1, TargetsKept DEF Enter
<1>4. SectionsInv' /\ todo' \in [Player -> Seq(Section)]
    <2>1. <<"join">> \in Seq(Section) /\ Fit(<<"join">>, foe'[p], who[p].here)
        BY Lists, ListsFit DEF Named
    <2> QED BY <1>1, <2>1, SectionsLeft DEF Enter
<1> QED BY <1>2, <1>3, <1>4 DEF TypeOK, Enter

LEMMA JoinKeeps == ASSUME IInv, NEW p \in Player, Join(p) PROVE IInv'
<1> USE DEF IInv
<1>1. /\ who' \in [Player -> PlayerState] /\ who'[p].here
      /\ \A q \in Player : q # p => who'[q] = who[q]
      /\ who'[p].target = who[p].target
    BY ZenonT(60) DEF Join, TypeOK, PlayerState
<1>2. Here' = Here \cup {p}
    BY <1>1 DEF Here
<1>3. ASSUME NEW m \in Mob
      PROVE  mob'[m] \in MobState /\ Sound(mob'[m], Here \cup {p})
    <2>1. mob[m] \in MobState /\ Sound(mob[m], Here)
        BY DEF TypeOK, MobsInv
    <2> DEFINE b == mob[m]
    <2>2. mob'[m] = IF p \in b.parked
                    THEN [b EXCEPT !.spared = @ \cup {p}, !.parked = @ \ {p}]
                    ELSE b
        BY DEF Join
    <2>3. CASE p \in b.parked
        <3> HIDE DEF b
        <3>1. b \in MobState
            BY <2>1 DEF b
        <3>2. mob'[m] \in MobState
            <4> DEFINE S == b.spared \cup {p}
                       T == b.parked \ {p}
            <4>1. S \in SUBSET Player /\ T \in SUBSET Player
                BY <3>1 DEF MobState
            <4>2. mob'[m] = [b EXCEPT !.spared = S, !.parked = T]
                BY <2>2, <2>3
            <4> HIDE DEF S, T
            <4> QED BY <3>1, <4>1, <4>2 DEF MobState
        <3>3. /\ mob'[m].hp = b.hp /\ mob'[m].owner = b.owner
              /\ mob'[m].spared = b.spared \cup {p}
              /\ mob'[m].parked = b.parked \ {p}
            BY <2>2, <2>3, <3>1 DEF MobState
        <3> QED BY <2>1, <2>3, <3>2, <3>3 DEF Sound, Marked, b
    <2>4. CASE p \notin b.parked
        BY <2>1, <2>2, <2>4 DEF Sound, Marked
    <2> QED BY <2>3, <2>4
<1>4. mob' \in [Mob -> MobState] /\ MobsInv'
    <2>1. mob' = [m \in Mob |-> mob'[m]]
        BY DEF Join
    <2> QED BY <1>2, <1>3, <2>1 DEF MobsInv
<1>5. TargetsInv'
    BY <1>1 DEF TargetsInv
<1>6. SectionsInv' /\ todo' \in [Player -> Seq(Section)]
    <2>1. \A q \in Player : who[q].here => who'[q].here
        BY <1>1
    <2>2. todo[p] # <<>> /\ Done(p) /\ foe' = foe
        BY DEF Join, At
    <2> QED BY <2>1, <2>2, SectionsDone
<1> QED BY <1>1, <1>4, <1>5, <1>6 DEF TypeOK, Join

LEMMA QuitKeeps == ASSUME IInv, NEW p \in Player, Quit(p) PROVE IInv'
<1> USE DEF IInv
<1>1. Typed /\ SameHere
    BY DEF Quit, TypeOK, Typed, SameHere
<1>2. mob' \in [Mob -> MobState] /\ MobsInv'
    BY <1>1, HereKept DEF Quit, TypeOK, MobsInv
<1>3. TargetsInv'
    BY <1>1, TargetsKept DEF Quit
<1>4. SectionsInv' /\ todo' \in [Player -> Seq(Section)]
    BY <1>1, Lists, ListsFit, SectionsLeft DEF Quit
<1> QED BY <1>2, <1>3, <1>4 DEF TypeOK, Quit

LEMMA LeaveKeeps == ASSUME IInv, NEW p \in Player, Leave(p) PROVE IInv'
<1> USE DEF IInv
<1>1. /\ who' \in [Player -> PlayerState] /\ ~who'[p].here
      /\ \A q \in Player : q # p => who'[q] = who[q]
      /\ who'[p].target = None
    BY ZenonT(60), AggroConstants DEF Leave, Aimless, TypeOK, PlayerState
<1>2. Here' = Here \ {p} /\ Typed
    BY <1>1 DEF Here, Typed, TypeOK
<1>3. ASSUME NEW m \in Mob
      PROVE  mob'[m] \in MobState /\ Sound(mob'[m], Here \ {p})
    <2> DEFINE b == LetGo(m, mob[m], p)
    <2>1. mob[m] \in MobState /\ Sound(mob[m], Here)
        BY DEF TypeOK, MobsInv
    <2>2. /\ b \in MobState /\ Sound(b, Here) /\ b.owner # p
          /\ b.owner = mob[m].owner \/ b.owner = None
        BY <1>2, <2>1, LetGoSound, AggroConstants
    <2>3. mob'[m] = IF p \in b.spared
                    THEN [b EXCEPT !.spared = @ \ {p}, !.parked = @ \cup {p}]
                    ELSE b
        BY DEF Leave
    <2> HIDE DEF b
    <2>4. CASE p \in b.spared
        <3>1. /\ mob'[m] \in MobState /\ mob'[m].hp = b.hp
              /\ mob'[m].owner = b.owner
              /\ mob'[m].spared = b.spared \ {p}
              /\ mob'[m].parked = b.parked \cup {p}
            BY ZenonT(60), <2>2, <2>3, <2>4 DEF MobState
        <3> QED BY <2>2, <2>4, <3>1 DEF Sound, Marked
    <2>5. CASE p \notin b.spared
        BY <2>2, <2>3, <2>5 DEF Sound, Marked
    <2> QED BY <2>4, <2>5
<1>4. mob' \in [Mob -> MobState] /\ MobsInv'
    <2>1. mob' = [m \in Mob |-> mob'[m]]
        BY DEF Leave
    <2> QED BY <1>2, <1>3, <2>1 DEF MobsInv
<1>5. TargetsInv'
    BY <1>1 DEF TargetsInv
<1>6. SectionsInv' /\ todo' \in [Player -> Seq(Section)]
    <2>1. todo[p] # <<>> /\ Head(todo[p]) = "leave"
        BY DEF Leave, At
    <2>2. todo[p] \in Seq(Section) /\ Len(todo[p]) >= 1 /\ todo[p][1] = "leave"
        BY <2>1 DEF TypeOK
    <2>3. Len(todo[p]) = 1
        <3>1. 1 \in 1 .. Len(todo[p])
            BY <2>2
        <3> QED BY <2>2, <3>1 DEF SectionsInv
    <2>4. \A q \in Player : who[q].here => who'[q].here \/ (Len(todo[q]) = 1 /\ q = p)
        BY <1>1, <2>3
    <2>5. Done(p) /\ foe' = foe
        BY DEF Leave
    <2> QED BY <2>1, <2>4, <2>5, SectionsDone
<1> QED BY <1>1, <1>4, <1>5, <1>6 DEF TypeOK, Leave

\* For all other sections: who is connected stays so, and each mob is sound.
LEMMA Kept ==
    ASSUME IInv, SameHere, who' \in [Player -> PlayerState],
           mob' = [m \in Mob |-> mob'[m]],
           \A m \in Mob : mob'[m] \in MobState /\ Sound(mob'[m], Here),
           \A q \in Player : who'[q].target \in {who[q].target, None} \/ who[q].here,
           SectionsInv', todo' \in [Player -> Seq(Section)],
           foe' \in [Player -> Mob \cup {None}]
    PROVE  IInv'
<1>1. mob' \in [Mob -> MobState] /\ MobsInv'
    BY HereKept
<1>2. TargetsInv'
    BY TargetsKept DEF IInv
<1> QED BY <1>1, <1>2 DEF IInv, TypeOK

\* The state every section finds.
LEMMA Found ==
    ASSUME IInv
    PROVE  /\ Typed /\ mob = [m \in Mob |-> mob[m]]
           /\ \A m \in Mob : mob[m] \in MobState /\ Sound(mob[m], Here)
           /\ \A q \in Player : who[q].here <=> q \in Here
  BY DEF IInv, TypeOK, Typed, MobsInv, Here

\* A session done with a section, while who is connected stays so.
LEMMA DoneFits ==
    ASSUME IInv, NEW p \in Player, NEW x, At(p, x), Done(p), SameHere, UNCHANGED foe
    PROVE  /\ SectionsInv' /\ todo' \in [Player -> Seq(Section)]
           /\ foe' \in [Player -> Mob \cup {None}]
<1>1. \A q \in Player : who[q].here => who'[q].here \/ (Len(todo[q]) = 1 /\ q = p)
    BY DEF SameHere
<1>2. todo[p] # <<>> /\ foe' = foe
    BY DEF At
<1> QED BY <1>1, <1>2, SectionsDone DEF IInv, TypeOK

\* A session that begins, and leaves this to do.
LEMMA LeftFits ==
    ASSUME IInv, NEW p \in Player, NEW s \in Seq(Section), Leaves(p, s), SameHere,
           UNCHANGED foe, Fit(s, foe[p], who[p].here)
    PROVE  /\ SectionsInv' /\ todo' \in [Player -> Seq(Section)]
           /\ foe' \in [Player -> Mob \cup {None}]
  BY SectionsLeft DEF IInv, TypeOK

LEMMA MoveKeeps ==
    ASSUME IInv, NEW p \in Player, NEW x \in Place, Move(p, x) PROVE IInv'
<1>1. /\ who' \in [Player -> PlayerState] /\ SameHere
      /\ \A q \in Player : who'[q].target = who[q].target
    BY Found DEF Move, Typed, PlayerState, SameHere
<1>2. <<"check">> \in Seq(Section) /\ Fit(<<"check">>, foe[p], who[p].here)
    BY Lists, ListsFit DEF Named
<1>3. /\ SectionsInv' /\ todo' \in [Player -> Seq(Section)]
      /\ foe' \in [Player -> Mob \cup {None}]
    BY <1>1, <1>2, LeftFits DEF Move
<1> QED BY <1>1, <1>3, Found, Kept DEF Move

LEMMA CheckKeeps == ASSUME IInv, NEW p \in Player, Check(p) PROVE IInv'
<1> DEFINE aim == who[p].aim
<1>0. At(p, "check") /\ UNCHANGED foe /\ aim \in Mob \cup {None}
    BY Found DEF Check, Typed, PlayerState
<1>1. CASE /\ aim # None /\ Acceptable(p, aim)
           /\ mob' = [mob EXCEPT ![aim] = Asked(p, aim)]
           /\ who' = Unselect(p, aim)
           /\ Done(p)
    <2>1. aim \in Mob /\ Typed
        BY <1>0, <1>1, Found
    <2>2. /\ who' \in [Player -> PlayerState] /\ SameHere
          /\ \A q \in Player : who'[q].target \in {who[q].target, None}
        BY <1>1, <2>1, UnselectKeeps DEF SameHere
    <2>3. ASSUME NEW m \in Mob
          PROVE  mob'[m] \in MobState /\ Sound(mob'[m], Here)
        <3> HIDE DEF aim
        <3> QED BY <1>1, <2>1, Found, AskedSound
    <2>4. mob' = [m \in Mob |-> mob'[m]]
        BY <1>1, Found
    <2> QED BY <1>0, <1>1, <2>2, <2>3, <2>4, DoneFits, Kept
<1>2. CASE aim # None /\ ~Acceptable(p, aim) /\ Leaves(p, ClearActive) /\ UNCHANGED <<mob, who>>
    <2>1. SameHere /\ who' \in [Player -> PlayerState]
        BY <1>2, Found DEF SameHere, Typed
    <2>2. /\ SectionsInv' /\ todo' \in [Player -> Seq(Section)]
          /\ foe' \in [Player -> Mob \cup {None}]
        BY <1>0, <1>2, <2>1, Lists, ListsFit, LeftFits
    <2> QED BY <1>2, <2>1, <2>2, Found, Kept
<1>3. CASE /\ aim = None
           /\ mob' = [m \in Mob |-> IF mob[m].owner = p /\ Live(p) /\ ~Inside(m, p)
                                    THEN Parted(mob[m]) ELSE mob[m]]
           /\ Done(p)
           /\ UNCHANGED who
    <2>1. SameHere /\ who' \in [Player -> PlayerState]
        BY <1>3, Found DEF SameHere, Typed
    <2>2. ASSUME NEW m \in Mob
          PROVE  mob'[m] \in MobState /\ Sound(mob'[m], Here)
        BY <1>3, Found, PartedSound
    <2> QED BY <1>0, <1>3, <2>1, <2>2, DoneFits, Kept
<1> QED BY <1>1, <1>2, <1>3 DEF Check

\* What transfer does, whatever is left to do.
LEMMA CarriedSound ==
    ASSUME IInv, NEW p \in Player, NEW x \in Place, NEW life \in 0 .. MaxLife,
           Carried(p, x, life)
    PROVE  /\ SameHere /\ who' \in [Player -> PlayerState]
           /\ mob' = [m \in Mob |-> mob'[m]]
           /\ \A m \in Mob : mob'[m] \in MobState /\ Sound(mob'[m], Here)
           /\ \A q \in Player : who'[q].target \in {who[q].target, None}
<1>1. /\ SameHere /\ who' \in [Player -> PlayerState]
      /\ \A q \in Player : who'[q].target \in {who[q].target, None}
    <2>1. who \in [Player -> PlayerState] /\ (life = 0) \in BOOLEAN
        BY Found DEF Typed
    <2>2. \A q \in Player : q # p => who'[q] = who[q]
        BY <2>1 DEF Carried
    <2>3. who'[p] = [who[p] EXCEPT !.target = None, !.at = x,
                                   !.life = life, !.down = (life = 0)]
        BY <2>1 DEF Carried
    <2>4. who'[p] \in PlayerState /\ who'[p].here = who[p].here /\ who'[p].target = None
        BY ZenonT(60), <2>1, <2>3 DEF PlayerState
    <2>5. who' = [q \in Player |-> who'[q]]
        BY <2>1 DEF Carried
    <2> QED BY <2>1, <2>2, <2>4, <2>5 DEF SameHere
<1>2. \A m \in Mob : mob'[m] \in MobState /\ Sound(mob'[m], Here)
    BY Found, LetGoSound DEF Carried
<1> QED BY <1>1, <1>2 DEF Carried

LEMMA WarpKeeps ==
    ASSUME IInv, NEW p \in Player, NEW x \in Place, Warp(p, x) PROVE IInv'
<1>1. who[p].life \in 0 .. MaxLife /\ Carried(p, x, who[p].life) /\ UNCHANGED foe
    BY Found DEF Warp, Typed, PlayerState, Carried
<1>2. /\ SectionsInv' /\ todo' \in [Player -> Seq(Section)]
      /\ foe' \in [Player -> Mob \cup {None}]
    BY <1>1, CarriedSound, Lists, ListsFit, LeftFits DEF Warp
<1> QED BY <1>1, <1>2, CarriedSound, Kept

LEMMA TargetKeeps ==
    ASSUME IInv, NEW p \in Player, NEW m \in Mob, Target(p, m) PROVE IInv'
<1>1. Typed /\ who[p].here
    BY Found DEF Target, Able, Playing
<1>2. /\ who' \in [Player -> PlayerState] /\ SameHere
      /\ \A q \in Player : who'[q].target \in {who[q].target, None}
    <2> DEFINE U == Unselect(p, m)
    <2>1. /\ U \in [Player -> PlayerState]
          /\ \A q \in Player : U[q].here = who[q].here /\ U[q].target \in {who[q].target, None}
        BY <1>1, UnselectKeeps
    <2>2. who' = [U EXCEPT ![p].aim = m, ![p].stale = FALSE]
        BY DEF Target
    <2> HIDE DEF U
    <2> QED BY ZenonT(60), <2>1, <2>2 DEF PlayerState, SameHere
<1>3. ASSUME NEW n \in Mob
      PROVE  mob'[n] \in MobState /\ Sound(mob'[n], Here)
    BY <1>1, Found, AskedSound DEF Target
<1>4. /\ SectionsInv' /\ todo' \in [Player -> Seq(Section)]
      /\ foe' \in [Player -> Mob \cup {None}]
    <2>1. <<"select">> \in Seq(Section) /\ Fit(<<"select">>, foe[p], who[p].here)
        BY <1>1, Lists, ListsFit DEF Named
    <2> QED BY <1>2, <2>1, LeftFits DEF Target
<1>5. mob' = [n \in Mob |-> mob'[n]]
    BY Found DEF Target
<1> QED BY <1>2, <1>3, <1>4, <1>5, Kept

LEMMA SelectKeeps == ASSUME IInv, NEW p \in Player, Select(p) PROVE IInv'
<1>1. who[p].here
    <2>1. todo[p] \in Seq(Section) /\ todo[p] # <<>> /\ Head(todo[p]) = "select"
        BY DEF Select, At, IInv, TypeOK
    <2>2. 1 \in 1 .. Len(todo[p]) /\ todo[p][1] = "select"
        BY <2>1
    <2>3. todo[p][1] \in Claiming
        BY <2>2 DEF Claiming
    <2> QED BY <2>2, <2>3 DEF IInv, SectionsInv
<1>2. /\ who' \in [Player -> PlayerState] /\ SameHere
      /\ \A q \in Player : who'[q].target = who[q].target \/ who[q].here
    BY <1>1, Found DEF Select, Typed, PlayerState, SameHere
<1>3. At(p, "select") /\ Done(p) /\ UNCHANGED foe /\ mob' = mob
    BY DEF Select
<1> QED BY <1>2, <1>3, Found, DoneFits, Kept

LEMMA UntargetKeeps == ASSUME IInv, NEW p \in Player, Untarget(p) PROVE IInv'
<1>1. SameHere /\ who' \in [Player -> PlayerState]
    BY Found DEF SameHere, Typed, Untarget
<1>2. /\ SectionsInv' /\ todo' \in [Player -> Seq(Section)]
      /\ foe' \in [Player -> Mob \cup {None}]
    BY <1>1, Lists, ListsFit, LeftFits DEF Untarget
<1> QED BY <1>1, <1>2, Found, Kept DEF Untarget

LEMMA DropTargetKeeps == ASSUME IInv, NEW p \in Player, DropTarget(p) PROVE IInv'
<1>1. /\ who' \in [Player -> PlayerState] /\ SameHere
      /\ \A q \in Player : who'[q].target \in {who[q].target, None}
    BY Found DEF DropTarget, Aimless, Typed, PlayerState, SameHere
<1>2. At(p, "drop") /\ Done(p) /\ UNCHANGED foe /\ mob' = mob
    BY DEF DropTarget
<1> QED BY <1>1, <1>2, Found, DoneFits, Kept

LEMMA ReleaseAllKeeps == ASSUME IInv, NEW p \in Player, ReleaseAll(p) PROVE IInv'
<1>1. SameHere /\ who' \in [Player -> PlayerState] /\ who' = who
    BY Found DEF SameHere, Typed, ReleaseAll
<1>2. \A m \in Mob : mob'[m] \in MobState /\ Sound(mob'[m], Here)
    BY Found, LetGoSound DEF ReleaseAll
<1>3. At(p, "release") /\ Done(p) /\ UNCHANGED foe /\ mob' = [m \in Mob |-> mob'[m]]
    BY DEF ReleaseAll
<1> QED BY <1>1, <1>2, <1>3, DoneFits, Kept

-----------------------------------------------------------------------------
(* The blow, and what follows it. *)

LEMMA StruckSound ==
    ASSUME IInv, NEW p \in Player, who[p].here, NEW m \in Mob, Acceptable(p, m),
           NEW hp, hp = mob[m].hp - 1
    PROVE  /\ hp \in 0 .. MaxHP
           /\ Struck(p, m, hp) \in MobState /\ Struck(p, m, hp).hp = hp
           /\ Sound(Struck(p, m, hp), Here)
           /\ Struck(p, m, hp).owner = IF hp = 0 THEN None ELSE p
           /\ hp = 0 => LiveInside(m) \subseteq Struck(p, m, hp).spared
           /\ hp = 0 => Struck(p, m, hp).wait = RespawnDelay
<1> DEFINE a == Asked(p, m)
           c == [a EXCEPT !.hp = hp, !.near = FALSE]
           b == Engaged(c, p)
<1>0. mob[m] \in MobState /\ mob[m].hp > 0 /\ p \in Here /\ Typed
    BY Found DEF Acceptable
<1>1. /\ a \in MobState /\ Sound(a, Here) /\ hp \in 0 .. MaxHP
      /\ a.owner \in {p, None}
    <2>1. hp \in 0 .. MaxHP
        BY <1>0, AggroConstants DEF MobState
    <2>2. a \in MobState /\ Sound(a, Here)
        BY <1>0, Found, AskedSound
    <2>3. a.owner \in {p, None}
        BY <1>0, AskedSound DEF Lapses
    <2> QED BY <2>1, <2>2, <2>3
<1>2. Struck(p, m, hp) = IF hp = 0 THEN Slain(m, b) ELSE b
    BY DEF Struck
<1> HIDE DEF a
<1>3. /\ c \in MobState /\ c.hp = hp /\ c.owner = a.owner
      /\ c.spared = a.spared /\ c.parked = a.parked
    BY <1>1 DEF MobState
<1> HIDE DEF c
<1>4. Marked(c, Here)
    BY <1>1, <1>3 DEF Sound, Marked
<1>5. b \in MobState /\ b.hp = hp /\ b.owner = p /\ Marked(b, Here)
    BY <1>0, <1>1, <1>3, <1>4, EngagedSound, AggroConstants
<1> HIDE DEF b
<1>6. CASE hp = 0
    BY <1>0, <1>1, <1>2, <1>5, <1>6, SlainSound DEF Sound
<1>7. CASE hp # 0
    BY <1>0, <1>1, <1>2, <1>5, <1>7 DEF Sound
<1> QED BY <1>1, <1>6, <1>7

LEMMA SharedSound ==
    ASSUME IInv, NEW m \in Mob, NEW n \in Mob, NEW hp \in 0 .. MaxHP
    PROVE  /\ Shared(m, n, hp) \in MobState /\ Sound(Shared(m, n, hp), Here)
           /\ Shared(m, n, hp).owner \in {mob[n].owner, None}
           /\ Shared(m, n, hp).owner # mob[n].owner =>
                  LiveInside(n) \subseteq Shared(m, n, hp).spared
           /\ mob[n].spared \subseteq Shared(m, n, hp).spared
           /\ mob[n].hp # 0 /\ Shared(m, n, hp).hp = 0 =>
                  hp = 0 /\ {m, n} \subseteq Pack /\ Shared(m, n, hp).wait = RespawnDelay
           /\ mob[n].hp = 0 => Shared(m, n, hp) = mob[n]
<1> DEFINE b == [mob[n] EXCEPT !.hp = hp, !.near = FALSE]
<1>0. mob[n] \in MobState /\ Sound(mob[n], Here) /\ Typed
    BY Found
<1>1. /\ b \in MobState /\ b.hp = hp /\ b.owner = mob[n].owner
      /\ b.spared = mob[n].spared /\ b.parked = mob[n].parked
    BY <1>0 DEF MobState
<1>2. Shared(m, n, hp) = IF SharedHP /\ {m, n} \subseteq Pack /\ mob[n].hp > 0
                         THEN IF hp = 0 THEN Slain(n, b) ELSE b
                         ELSE mob[n]
    BY DEF Shared
<1>3. mob[n].hp \in Nat
    BY <1>0, AggroConstants DEF MobState
<1> HIDE DEF b
<1>4. Marked(b, Here)
    BY <1>0, <1>1 DEF Sound, Marked
<1>5. CASE SharedHP /\ {m, n} \subseteq Pack /\ mob[n].hp > 0 /\ hp = 0
    <2> DEFINE s == Slain(n, b)
    <2>1. /\ s \in MobState /\ s.owner = None /\ s.hp = 0 /\ s.wait = RespawnDelay
          /\ s.spared = b.spared \cup LiveInside(n) /\ Marked(s, Here)
        BY <1>0, <1>1, <1>4, SlainSound
    <2>2. Shared(m, n, hp) = s
        BY <1>2, <1>5
    <2> HIDE DEF s
    <2> QED BY <1>1, <1>3, <1>5, <2>1, <2>2 DEF Sound
<1>6. CASE SharedHP /\ {m, n} \subseteq Pack /\ mob[n].hp > 0 /\ hp # 0
    BY <1>1, <1>2, <1>3, <1>4, <1>6 DEF Sound
<1>7. CASE ~(SharedHP /\ {m, n} \subseteq Pack /\ mob[n].hp > 0)
    BY <1>0, <1>2, <1>3, <1>7
<1> QED BY <1>5, <1>6, <1>7

\* Only the wait of a mob changes when its pack's deaths are aligned.
LEMMA AlignedSound ==
    ASSUME NEW b \in MobState, NEW m, NEW n, NEW hp
    PROVE  /\ Aligned(m, n, hp, b) \in MobState
           /\ Aligned(m, n, hp, b).hp = b.hp /\ Aligned(m, n, hp, b).owner = b.owner
           /\ Aligned(m, n, hp, b).near = b.near
           /\ Aligned(m, n, hp, b).spared = b.spared
           /\ Aligned(m, n, hp, b).parked = b.parked
           /\ Aligned(m, n, hp, b).wait =
                 IF SyncRespawn /\ hp = 0 /\ {m, n} \subseteq Pack /\ b.hp = 0
                 THEN RespawnDelay ELSE b.wait
           /\ \A H : Sound(b, H) => Sound(Aligned(m, n, hp, b), H)
<1>1. RespawnDelay \in 0 .. RespawnDelay
    BY AggroConstants
<1>2. /\ Aligned(m, n, hp, b) \in MobState
      /\ Aligned(m, n, hp, b).hp = b.hp /\ Aligned(m, n, hp, b).owner = b.owner
      /\ Aligned(m, n, hp, b).near = b.near
      /\ Aligned(m, n, hp, b).spared = b.spared
      /\ Aligned(m, n, hp, b).parked = b.parked
      /\ Aligned(m, n, hp, b).wait =
            IF SyncRespawn /\ hp = 0 /\ {m, n} \subseteq Pack /\ b.hp = 0
            THEN RespawnDelay ELSE b.wait
    BY <1>1 DEF Aligned, MobState
<1>3. \A H : Sound(b, H) => Sound(Aligned(m, n, hp, b), H)
    BY <1>2 DEF Sound, Marked
<1> QED BY <1>2, <1>3

\* What a strike leaves to do.
LEMMA StrikeList ==
    ASSUME NEW A, A \in {ClearActive, <<"assist">>, <<>>},
           NEW B, B = <<>> \/ \E life : B = AfterBlow(life),
           NEW f, f # None, NEW here
    PROVE  A \o B \in Seq(Section) /\ Fit(A \o B, f, here)
<1>1. A \in Seq(Section) /\ Fit(A, f, here)
    BY Lists, ListsFit DEF Named
<1>2. \A i \in 1 .. Len(A) : A[i] # "leave"
    <2>1. CASE A = ClearActive
        BY <2>1 DEF ClearActive
    <2>2. CASE A = <<"assist">>
        BY <2>2
    <2>3. CASE A = <<>>
        BY <2>3
    <2> QED BY <2>1, <2>2, <2>3
<1>3. B \in Seq(Section) /\ Fit(B, f, here)
    BY Lists, ListsFit
<1> HIDE DEF Fit
<1> QED BY <1>1, <1>2, <1>3, FitConcat

\* The strike's effects, conjunct by conjunct.
LEMMA StrikeStep ==
    ASSUME IInv, NEW p \in Player, Strike(p)
    PROVE  \E m \in Mob : \E hp \in 0 .. MaxHP : \E life \in 0 .. MaxLife :
              /\ m = who[p].aim /\ m = who[p].target /\ Acceptable(p, m)
              /\ hp = mob[m].hp - 1 /\ who[p].here
              /\ mob' = [n \in Mob |-> Aligned(m, n, hp,
                           IF n = m THEN Struck(p, m, hp) ELSE Shared(m, n, hp))]
              /\ who' = [q \in Player |->
                     IF q = p THEN [who[q] EXCEPT !.life = life,
                                                  !.target = IF hp = 0 THEN None ELSE @]
                     ELSE IF who[q].target = m THEN [who[q] EXCEPT !.target = None]
                     ELSE Unselect(p, m)[q]]
              /\ foe' = [foe EXCEPT ![p] = m]
              /\ \E A \in {ClearActive, <<"assist">>, <<>>} : \E B :
                    /\ B = <<>> \/ \E l : B = AfterBlow(l)
                    /\ Leaves(p, A \o B)
<1> DEFINE m    == who[p].aim
           hp   == mob[m].hp - 1
           life == IF hp > 0 \/ who[p].life = 1 THEN who[p].life - 1 ELSE who[p].life
<1>1. m \in Mob /\ m = who[p].target /\ Acceptable(p, m) /\ who[p].here /\ who[p].life > 0
    BY Found DEF Strike, Able, Playing, Typed, PlayerState
<1>2. hp \in 0 .. MaxHP
    BY <1>1, Found, AggroConstants DEF Acceptable, MobState
<1>3. life \in 0 .. MaxLife
    BY <1>1, Found, AggroConstants DEF Typed, PlayerState
<1>4. \E A \in {ClearActive, <<"assist">>, <<>>} : \E B :
          /\ B = <<>> \/ \E l : B = AfterBlow(l)
          /\ Leaves(p, A \o B)
    <2> DEFINE A == IF hp = 0 THEN ClearActive ELSE IF m \in Pack THEN <<"assist">> ELSE <<>>
               B == IF life < who[p].life THEN AfterBlow(life) ELSE <<>>
    <2>1. Leaves(p, A \o B)
        BY DEF Strike
    <2>2. A \in {ClearActive, <<"assist">>, <<>>} /\ (B = <<>> \/ \E l : B = AfterBlow(l))
        OBVIOUS
    <2> HIDE DEF A, B
    <2> QED BY <2>1, <2>2
<1>5. /\ mob' = [n \in Mob |-> Aligned(m, n, hp,
                   IF n = m THEN Struck(p, m, hp) ELSE Shared(m, n, hp))]
      /\ who' = [q \in Player |->
             IF q = p THEN [who[q] EXCEPT !.life = life,
                                          !.target = IF hp = 0 THEN None ELSE @]
             ELSE IF who[q].target = m THEN [who[q] EXCEPT !.target = None]
             ELSE Unselect(p, m)[q]]
      /\ foe' = [foe EXCEPT ![p] = m]
    BY DEF Strike
<1> HIDE DEF m, life
<1> QED BY <1>1, <1>2, <1>3, <1>4, <1>5 DEF m

LEMMA StrikeKeeps == ASSUME IInv, NEW p \in Player, Strike(p) PROVE IInv'
<1>0. PICK m \in Mob, hp \in 0 .. MaxHP, life \in 0 .. MaxLife :
              /\ m = who[p].aim /\ m = who[p].target /\ Acceptable(p, m)
              /\ hp = mob[m].hp - 1 /\ who[p].here
              /\ mob' = [n \in Mob |-> Aligned(m, n, hp,
                           IF n = m THEN Struck(p, m, hp) ELSE Shared(m, n, hp))]
              /\ who' = [q \in Player |->
                     IF q = p THEN [who[q] EXCEPT !.life = life,
                                                  !.target = IF hp = 0 THEN None ELSE @]
                     ELSE IF who[q].target = m THEN [who[q] EXCEPT !.target = None]
                     ELSE Unselect(p, m)[q]]
              /\ foe' = [foe EXCEPT ![p] = m]
              /\ \E A \in {ClearActive, <<"assist">>, <<>>} : \E B :
                    /\ B = <<>> \/ \E l : B = AfterBlow(l)
                    /\ Leaves(p, A \o B)
    BY StrikeStep
<1>1. ASSUME NEW q \in Player
      PROVE  /\ who'[q] \in PlayerState /\ who'[q].here = who[q].here
             /\ who'[q].target \in {who[q].target, None}
    <2>1. CASE q = p
        <3> DEFINE t == IF hp = 0 THEN None ELSE who[q].target
        <3>1. who'[q] = [who[q] EXCEPT !.life = life, !.target = t]
            BY <1>0, <2>1
        <3>2. who[q] \in PlayerState
            BY Found DEF Typed
        <3>3. t \in {who[q].target, None} /\ t \in Mob \cup {None}
            BY <3>2 DEF PlayerState
        <3> DEFINE w == who[q]
        <3> HIDE DEF t, w
        <3>4. w \in PlayerState /\ who'[q] = [w EXCEPT !.life = life, !.target = t]
            BY <3>1, <3>2 DEF w
        <3>5. who'[q] \in PlayerState
            BY <3>3, <3>4 DEF PlayerState
        <3>6. who'[q].here = w.here /\ who'[q].target = t
            BY <3>4, <3>5 DEF PlayerState
        <3> QED BY <3>3, <3>5, <3>6 DEF w
    <2>2. CASE q # p /\ who[q].target = m
        <3>1. who'[q] = [who[q] EXCEPT !.target = None] /\ who[q] \in PlayerState
            BY <1>0, <2>2, Found DEF Typed
        <3> QED BY <3>1 DEF PlayerState
    <2>3. CASE q # p /\ who[q].target # m
        BY ZenonT(60), <1>0, <2>3, Found, UnselectKeeps
    <2> QED BY <2>1, <2>2, <2>3
<1>2. who' \in [Player -> PlayerState] /\ SameHere
    BY <1>0, <1>1 DEF SameHere
<1>3. ASSUME NEW n \in Mob
      PROVE  mob'[n] \in MobState /\ Sound(mob'[n], Here)
    <2> DEFINE b == IF n = m THEN Struck(p, m, hp) ELSE Shared(m, n, hp)
    <2>1. b \in MobState /\ Sound(b, Here)
        BY <1>0, StruckSound, SharedSound
    <2>2. mob'[n] = Aligned(m, n, hp, b)
        BY <1>0
    <2> HIDE DEF b
    <2>3. /\ Aligned(m, n, hp, b) \in MobState
          /\ Sound(b, Here) => Sound(Aligned(m, n, hp, b), Here)
        BY <2>1, AlignedSound
    <2> QED BY <2>1, <2>2, <2>3
<1>4. /\ SectionsInv' /\ todo' \in [Player -> Seq(Section)]
      /\ foe' \in [Player -> Mob \cup {None}]
    <2>1. foe' \in [Player -> Mob \cup {None}] /\ foe'[p] = m /\ m # None
          /\ \A q \in Player : q # p => foe'[q] = foe[q]
        BY <1>0, AggroConstants DEF IInv, TypeOK
    <2> PICK A \in {ClearActive, <<"assist">>, <<>>} :
              \E B : (B = <<>> \/ \E l : B = AfterBlow(l)) /\ Leaves(p, A \o B)
        BY <1>0
    <2>2. PICK B : (B = <<>> \/ \E l : B = AfterBlow(l)) /\ Leaves(p, A \o B)
        OBVIOUS
    <2>3. A \o B \in Seq(Section) /\ Fit(A \o B, m, who[p].here)
        BY <2>1, <2>2, StrikeList
    <2> DEFINE L == A \o B
    <2>4. L \in Seq(Section) /\ Fit(L, m, who[p].here) /\ Leaves(p, L)
        BY <2>2, <2>3
    <2> HIDE DEF L
    <2> QED BY <1>2, <2>1, <2>4, SectionsLeft DEF IInv
<1>5. mob' = [n \in Mob |-> mob'[n]]
    BY <1>0
<1> QED BY <1>1, <1>2, <1>3, <1>4, <1>5, Kept

\* The mob a section of the running handler is about.
LEMMA FoeKnown ==
    ASSUME IInv, NEW p \in Player, NEW x \in AboutFoe, At(p, x)
    PROVE  foe[p] \in Mob
<1>1. todo[p] \in Seq(Section) /\ todo[p] # <<>> /\ Head(todo[p]) = x
    BY DEF At, IInv, TypeOK
<1>2. 1 \in 1 .. Len(todo[p]) /\ todo[p][1] = x
    BY <1>1
<1> QED BY <1>2 DEF IInv, SectionsInv, TypeOK

LEMMA AssistKeeps == ASSUME IInv, NEW p \in Player, Assist(p) PROVE IInv'
<1>1. foe[p] \in Mob
    BY FoeKnown DEF Assist, AboutFoe
<1>2. SameHere /\ who' \in [Player -> PlayerState] /\ who' = who
    BY Found DEF SameHere, Typed, Assist
<1>3. CASE mob[foe[p]].owner = p /\ \E mates \in SetToSeqs(Pack \ {foe[p]}) :
                                     Leaves(p, mates \o Tail(todo[p]))
    <2> PICK mates \in SetToSeqs(Pack \ {foe[p]}) : Leaves(p, mates \o Tail(todo[p]))
        BY <1>3
    <2>1. who[p].here
        <3>1. Sound(mob[foe[p]], Here)
            BY <1>1, Found
        <3> QED BY <1>3, <3>1, AggroConstants DEF Sound, Marked, Here
    <2>2. todo[p] # <<>>
        BY DEF Assist, At
    <2>3. Tail(todo[p]) \in Seq(Section) /\ Fit(Tail(todo[p]), foe[p], who[p].here)
        BY <2>2, FitTail DEF IInv
    <2>4. /\ mates \in Seq(Section) /\ Fit(mates, foe[p], who[p].here)
          /\ \A i \in 1 .. Len(mates) : mates[i] # "leave"
        <3>1. who[p].here = TRUE
            BY <2>1, Found DEF Typed, PlayerState
        <3> QED BY <3>1, MatesFit
    <2> DEFINE L == mates \o Tail(todo[p])
    <2>5. L \in Seq(Section) /\ Fit(L, foe[p], who[p].here) /\ Leaves(p, L)
        BY <2>3, <2>4, FitConcat
    <2> HIDE DEF L
    <2>6. UNCHANGED <<mob, foe>>
        BY DEF Assist
    <2>7. /\ SectionsInv' /\ todo' \in [Player -> Seq(Section)]
          /\ foe' \in [Player -> Mob \cup {None}]
        BY <1>2, <2>5, <2>6, LeftFits
    <2> QED BY <1>2, <2>6, <2>7, Found, Kept
<1>4. CASE Done(p)
    <2>1. At(p, "assist") /\ UNCHANGED <<mob, foe>>
        BY DEF Assist
    <2> QED BY <1>2, <1>4, <2>1, Found, DoneFits, Kept
<1> QED BY <1>3, <1>4 DEF Assist

LEMMA AssistMateKeeps == ASSUME IInv, NEW p \in Player, AssistMate(p) PROVE IInv'
<1>0. PICK n \in Mob :
          /\ At(p, n) /\ Done(p) /\ UNCHANGED <<who, foe>>
          /\ mob' = [mob EXCEPT ![n] = IF @.hp > 0 THEN Engaged(@, p) ELSE @]
    BY AggroConstants DEF AssistMate
<1>1. p \in Here
    <2>1. todo[p] \in Seq(Section) /\ todo[p] # <<>> /\ Head(todo[p]) = n
        BY <1>0 DEF At, IInv, TypeOK
    <2>2. 1 \in 1 .. Len(todo[p]) /\ todo[p][1] = n /\ n \in Claiming
        BY <2>1 DEF Claiming
    <2> QED BY <2>2 DEF IInv, SectionsInv, Here
<1>2. SameHere /\ who' \in [Player -> PlayerState] /\ who' = who
    BY <1>0, Found DEF SameHere, Typed
<1>3. ASSUME NEW k \in Mob
      PROVE  mob'[k] \in MobState /\ Sound(mob'[k], Here)
    <2>1. /\ mob[k] \in MobState /\ Sound(mob[k], Here)
          /\ mob[k].hp > 0 => mob[k].hp # 0
        BY Found, AggroConstants DEF MobState
    <2>2. CASE k = n /\ mob[k].hp > 0
        <3>1. mob'[k] = Engaged(mob[k], p)
            BY <1>0, <2>2, Found
        <3> QED BY <1>1, <2>1, <2>2, <3>1, EngagedSound DEF Sound
    <2>3. CASE ~(k = n /\ mob[k].hp > 0)
        BY <1>0, <2>1, <2>3, Found
    <2> QED BY <2>2, <2>3
<1>4. mob' = [k \in Mob |-> mob'[k]]
    BY <1>0, Found
<1> QED BY <1>0, <1>2, <1>3, <1>4, DoneFits, Kept

LEMMA RetaliateKeeps ==
    ASSUME IInv, NEW p \in Player, NEW m \in Mob, Retaliate(p, m) PROVE IInv'
<1>1. /\ who' \in [Player -> PlayerState] /\ SameHere
      /\ \A q \in Player : who'[q].target \in {who[q].target, None}
    BY Found, UnselectKeeps DEF Retaliate, SameHere
<1>2. /\ SectionsInv' /\ todo' \in [Player -> Seq(Section)]
      /\ foe' \in [Player -> Mob \cup {None}]
    <2>1. /\ foe' \in [Player -> Mob \cup {None}] /\ foe'[p] # None
          /\ \A q \in Player : q # p => foe'[q] = foe[q]
        BY AggroConstants DEF Retaliate, IInv, TypeOK
    <2> DEFINE L == <<"answer">>
    <2>2. L \in Seq(Section) /\ Fit(L, foe'[p], who[p].here) /\ Leaves(p, L)
        BY <2>1, Lists, ListsFit DEF Retaliate, Named
    <2> HIDE DEF L
    <2> QED BY <1>1, <2>1, <2>2, SectionsLeft DEF IInv
<1>3. ASSUME NEW n \in Mob
      PROVE  mob'[n] \in MobState /\ Sound(mob'[n], Here)
    BY Found, AskedSound DEF Retaliate
<1>4. mob' = [n \in Mob |-> mob'[n]]
    BY Found DEF Retaliate
<1> QED BY <1>1, <1>2, <1>3, <1>4, Kept

LEMMA AnswerKeeps == ASSUME IInv, NEW p \in Player, Answer(p) PROVE IInv'
<1>1. At(p, "answer") /\ UNCHANGED <<mob, foe>>
    BY DEF Answer
<1>2. CASE /\ who[p].life > 0 /\ who' = [who EXCEPT ![p].life = who[p].life - 1]
           /\ Leaves(p, AfterBlow(who[p].life - 1))
    <2> DEFINE l == who[p].life - 1
    <2>1. l \in 0 .. MaxLife
        BY <1>2, Found, AggroConstants DEF Typed, PlayerState
    <2>2. who' = [who EXCEPT ![p].life = l] /\ Leaves(p, AfterBlow(l))
        BY <1>2
    <2> HIDE DEF l
    <2>3. /\ who' \in [Player -> PlayerState] /\ SameHere
          /\ \A q \in Player : who'[q].target = who[q].target
        BY <2>1, <2>2, Found DEF Typed, PlayerState, SameHere
    <2> DEFINE L == AfterBlow(l)
    <2>4. L \in Seq(Section) /\ Fit(L, foe[p], who[p].here) /\ Leaves(p, L)
        BY <2>2, Lists, ListsFit
    <2> HIDE DEF L
    <2>5. /\ SectionsInv' /\ todo' \in [Player -> Seq(Section)]
          /\ foe' \in [Player -> Mob \cup {None}]
        BY <1>1, <2>3, <2>4, LeftFits
    <2> QED BY <1>1, <2>3, <2>5, Found, Kept
<1>3. CASE Done(p) /\ UNCHANGED who
    <2>1. SameHere /\ who' \in [Player -> PlayerState]
        BY <1>3, Found DEF SameHere, Typed
    <2> QED BY <1>1, <1>3, <2>1, Found, DoneFits, Kept
<1> QED BY <1>2, <1>3 DEF Answer

LEMMA ForgetKeeps == ASSUME IInv, NEW p \in Player, Forget(p) PROVE IInv'
<1>1. SameHere /\ who' \in [Player -> PlayerState] /\ who' = who
    BY Found DEF SameHere, Typed, Forget
<1>2. \A m \in Mob : mob'[m] \in MobState /\ Sound(mob'[m], Here)
    BY Found, PartedSound DEF Forget
<1>3. At(p, "forget") /\ Done(p) /\ UNCHANGED foe /\ mob' = [m \in Mob |-> mob'[m]]
    BY Found DEF Forget
<1> QED BY <1>1, <1>2, <1>3, DoneFits, Kept

LEMMA RecordKeeps == ASSUME IInv, NEW p \in Player, Record(p) PROVE IInv'
<1> DEFINE w    == who[p]
           lost == w.life > 0 /\ w.target # None /\ ~Acceptable(p, w.target)
<1>1. /\ who' \in [Player -> PlayerState] /\ SameHere
      /\ \A q \in Player : who'[q].target \in {who[q].target, None}
    <2>1. who' = [who EXCEPT ![p].down = (w.life = 0),
                             ![p].target = IF lost THEN None ELSE @]
        BY DEF Record
    <2> DEFINE t == IF lost THEN None ELSE w.target
               d == (w.life = 0)
    <2>2. who' = [who EXCEPT ![p].down = d, ![p].target = t]
        BY <2>1
    <2>3. t \in {w.target, None} /\ t \in Mob \cup {None} /\ d \in BOOLEAN
        BY Found DEF Typed, PlayerState
    <2> HIDE DEF t, d
    <2>4. who'[p] = [w EXCEPT !.down = d, !.target = t]
        BY <2>2, Found DEF Typed
    <2>5. /\ who'[p] \in PlayerState /\ who'[p].here = w.here
          /\ who'[p].target \in {w.target, None}
        <3>1. w \in PlayerState
            BY Found DEF Typed
        <3> HIDE DEF w, lost
        <3>2. who'[p] \in PlayerState
            BY <2>3, <2>4, <3>1 DEF PlayerState
        <3> QED BY <2>3, <2>4, <3>1, <3>2 DEF PlayerState
    <2>6. /\ \A q \in Player : q # p => who'[q] = who[q] /\ who[q] \in PlayerState
          /\ who' = [q \in Player |-> who'[q]]
        <3>1. who \in [Player -> PlayerState]
            BY Found DEF Typed
        <3> HIDE DEF w
        <3> QED BY <2>2, <3>1
    <2> HIDE DEF w
    <2>7. p \in Player /\ w = who[p]
        BY DEF w
    <2>8. \A q \in Player : who'[q] \in PlayerState
        BY <2>5, <2>6
    <2> QED BY <2>5, <2>6, <2>7, <2>8 DEF SameHere
<1>2. mob' = IF lost THEN [m \in Mob |-> LetGo(m, mob[m], p)] ELSE mob
    BY DEF Record
<1> HIDE DEF lost
<1>3. \A m \in Mob : mob'[m] \in MobState /\ Sound(mob'[m], Here)
    BY <1>2, Found, LetGoSound
<1>4. At(p, "record") /\ Done(p) /\ UNCHANGED foe
    BY DEF Record
<1>5. mob' = [m \in Mob |-> mob'[m]]
    BY <1>2, Found
<1> QED BY <1>1, <1>3, <1>4, <1>5, DoneFits, Kept

LEMMA RestartKeeps ==
    ASSUME IInv, NEW p \in Player, NEW how \in {"rise", "carry"}, Restart(p, how) PROVE IInv'
<1>1. SameHere /\ who' \in [Player -> PlayerState] /\ who' = who
    BY Found DEF SameHere, Typed, Restart
<1>2. /\ mob' \in [Mob -> MobState]
      /\ \A m \in Mob : Sound(mob'[m], Here)
    BY Found, ScanSound DEF Restart, IInv
<1>3. /\ SectionsInv' /\ todo' \in [Player -> Seq(Section)]
      /\ foe' \in [Player -> Mob \cup {None}]
    BY <1>1, Lists, ListsFit, LeftFits DEF Restart
<1> QED BY <1>1, <1>2, <1>3, Kept

LEMMA RiseHereKeeps == ASSUME IInv, NEW p \in Player, RiseHere(p) PROVE IInv'
<1>1. /\ who' \in [Player -> PlayerState] /\ SameHere
      /\ \A q \in Player : who'[q].target = who[q].target
    <2>1. MaxLife \in 0 .. MaxLife
        BY AggroConstants
    <2> QED BY ZenonT(60), <2>1, Found DEF RiseHere, Typed, PlayerState, SameHere
<1>2. At(p, "rise") /\ Done(p) /\ UNCHANGED foe /\ mob' = mob
    BY DEF RiseHere
<1> QED BY <1>1, <1>2, Found, DoneFits, Kept

LEMMA RiseInTownKeeps == ASSUME IInv, NEW p \in Player, RiseInTown(p) PROVE IInv'
<1>1. /\ Town \in Place /\ MaxLife \in 0 .. MaxLife /\ Carried(p, Town, MaxLife)
      /\ At(p, "carry") /\ Done(p) /\ UNCHANGED foe
    BY AggroConstants DEF RiseInTown, Carried
<1> QED BY <1>1, CarriedSound, DoneFits, Kept

\* Steps of nobody's handler leave every list as it is.
LEMMA ListsStay ==
    ASSUME IInv, SameHere, UNCHANGED <<todo, foe>>
    PROVE  /\ SectionsInv' /\ todo' \in [Player -> Seq(Section)]
           /\ foe' \in [Player -> Mob \cup {None}]
  BY DEF IInv, TypeOK, SectionsInv, SameHere

LEMMA ScanKeeps == ASSUME IInv, Scan PROVE IInv'
<1>1. SameHere /\ who' \in [Player -> PlayerState] /\ who' = who
    BY Found DEF SameHere, Typed, Scan
<1>2. /\ mob' \in [Mob -> MobState]
      /\ \A m \in Mob : Sound(mob'[m], Here)
    BY Found, ScanSound DEF Scan, IInv
<1> QED BY <1>1, <1>2, ListsStay, Kept DEF Scan

LEMMA RespawnKeeps == ASSUME IInv, NEW m \in Mob, Respawn(m) PROVE IInv'
<1>1. ASSUME NEW q \in Player
      PROVE  /\ who'[q] \in PlayerState /\ who'[q].here = who[q].here
             /\ who'[q].target \in {who[q].target, None}
    <2>1. who[q] \in PlayerState
        BY Found DEF Typed
    <2>2. who'[q] = [who[q] EXCEPT !.target = IF @ = m THEN None ELSE @,
                                   !.stale = (@ \/ who[q].aim = m)]
        BY DEF Respawn
    <2> DEFINE t == IF who[q].target = m THEN None ELSE who[q].target
               u == who[q].stale \/ who[q].aim = m
    <2>3. who'[q] = [who[q] EXCEPT !.target = t, !.stale = u]
        BY <2>2
    <2>4. t \in {who[q].target, None} /\ t \in Mob \cup {None} /\ u \in BOOLEAN
        BY <2>1 DEF PlayerState
    <2> HIDE DEF t, u
    <2> QED BY <2>1, <2>3, <2>4 DEF PlayerState
<1>2. who' \in [Player -> PlayerState] /\ SameHere
    BY <1>1 DEF Respawn, SameHere
<1>3. ASSUME NEW n \in Mob
      PROVE  mob'[n] \in MobState /\ Sound(mob'[n], Here)
    <2>1. CASE n = m
        <3> DEFINE r == Risen(m, mob[m])
        <3>1. mob'[n] = r
            BY <2>1, Found DEF Respawn
        <3>2. r \in MobState /\ r.owner = None /\ Marked(r, Here)
            BY Found, RisenSound DEF Sound
        <3> HIDE DEF r
        <3> QED BY <3>1, <3>2 DEF Sound
    <2>2. CASE n # m
        BY <2>2, Found DEF Respawn
    <2> QED BY <2>1, <2>2
<1>4. mob' = [n \in Mob |-> mob'[n]]
    BY Found DEF Respawn
<1> QED BY <1>1, <1>2, <1>3, <1>4, ListsStay, Kept DEF Respawn

LEMMA TickKeeps == ASSUME IInv, Tick PROVE IInv'
<1>1. SameHere /\ who' \in [Player -> PlayerState] /\ who' = who
    BY Found DEF SameHere, Typed, Tick
<1>2. ASSUME NEW m \in Mob
      PROVE  mob'[m] \in MobState /\ Sound(mob'[m], Here)
    <2> DEFINE b == mob[m]
               t == IF b.wait > 0 THEN b.wait - 1 ELSE 0
    <2>1. b \in MobState /\ Sound(b, Here)
        BY Found
    <2>2. mob'[m] = [b EXCEPT !.wait = t]
        BY DEF Tick
    <2> HIDE DEF b
    <2>3. t \in 0 .. RespawnDelay
        BY <2>1, AggroConstants DEF MobState
    <2> HIDE DEF t
    <2>4. /\ mob'[m] \in MobState /\ mob'[m].hp = b.hp /\ mob'[m].owner = b.owner
          /\ mob'[m].spared = b.spared /\ mob'[m].parked = b.parked
        BY <2>1, <2>2, <2>3 DEF MobState
    <2> QED BY <2>1, <2>4 DEF Sound, Marked
<1>3. mob' = [m \in Mob |-> mob'[m]]
    BY DEF Tick
<1> QED BY <1>1, <1>2, <1>3, ListsStay, Kept DEF Tick

-----------------------------------------------------------------------------
(* The invariants. *)

LEMMA InitIInv == ASSUME Init PROVE IInv
<1>1. Fresh \in MobState /\ Sound(Fresh, Here)
    BY AggroConstants DEF Fresh, MobState, Sound, Marked
<1>2. mob \in [Mob -> MobState] /\ MobsInv
    BY <1>1 DEF Init, MobsInv
<1>3. who \in [Player -> PlayerState] /\ TargetsInv
    <2> PICK at \in [Player -> Place] :
            who = [p \in Player |-> [here |-> FALSE, at |-> at[p], down |-> FALSE,
                                     life |-> MaxLife, target |-> None, aim |-> None,
                                     stale |-> FALSE]]
        BY DEF Init
    <2>1. MaxLife \in 0 .. MaxLife
        BY AggroConstants
    <2> QED BY <2>1 DEF PlayerState, TargetsInv
<1>4. todo \in [Player -> Seq(Section)] /\ foe \in [Player -> Mob \cup {None}] /\ SectionsInv
    BY DEF Init, SectionsInv
<1> QED BY <1>2, <1>3, <1>4 DEF IInv, TypeOK

LEMMA NextIInv == ASSUME IInv, [Next]_vars PROVE IInv'
<1>1. CASE UNCHANGED vars
    BY <1>1 DEF vars, IInv, TypeOK, MobsInv, TargetsInv, SectionsInv, Sound, Marked, Here
<1>2. CASE \E p \in Player : Handler(p)
    BY <1>2, EnterKeeps, QuitKeeps, UntargetKeeps, StrikeKeeps, MoveKeeps, WarpKeeps,
       TargetKeeps, RetaliateKeeps, RestartKeeps DEF Handler
<1>3. CASE \E p \in Player : Continue(p)
    BY <1>3, JoinKeeps, LeaveKeeps, CheckKeeps, SelectKeeps, DropTargetKeeps,
       ReleaseAllKeeps, AssistKeeps, AssistMateKeeps, AnswerKeeps, ForgetKeeps, RecordKeeps, RiseHereKeeps,
       RiseInTownKeeps DEF Continue
<1>4. CASE (\E m \in Mob : Respawn(m)) \/ Scan \/ Tick
    BY <1>4, RespawnKeeps, ScanKeeps, TickKeeps
<1> QED BY <1>1, <1>2, <1>3, <1>4 DEF Next

THEOREM AggroInvariant == Spec => []IInv
<1>1. Init => IInv
    BY InitIInv
<1>2. IInv /\ [Next]_vars => IInv'
    BY NextIInv
<1> QED BY <1>1, <1>2, PTL DEF Spec

(* The state of every mob and session keeps its type: no blow takes more   *)
(* hit points than there are, and nobody is struck who is not there.       *)
THEOREM AggroTypeCorrect == Spec => []TypeOK
<1>1. IInv => TypeOK
    BY DEF IInv
<1> QED BY <1>1, AggroInvariant, PTL

(* A dead mob holds nobody, whether a blow killed it or its pack's hit     *)
(* points did.                                                             *)
THEOREM AggroDeadAreFree == Spec => []DeadAreFree
<1>1. IInv => DeadAreFree
    BY DEF IInv, MobsInv, Sound, DeadAreFree
<1> QED BY <1>1, AggroInvariant, PTL

(* A mob that fights somebody spares nobody, on whatever path it took the  *)
(* lock.                                                                   *)
THEOREM AggroHeldSparesNobody == Spec => []HeldSparesNobody
<1>1. IInv => HeldSparesNobody
    BY DEF IInv, MobsInv, Sound, Marked, HeldSparesNobody
<1> QED BY <1>1, AggroInvariant, PTL

(* Holders, spared players and owners of recorded targets are connected,   *)
(* parked marks are of players who are not, between any two sections of a  *)
(* departure.                                                              *)
THEOREM AggroPartiesAreConnected == Spec => []PartiesAreConnected
<1>1. IInv => PartiesAreConnected
    BY DEF IInv, MobsInv, TargetsInv, Sound, Marked, Here, TypeOK, MobState,
           PartiesAreConnected
<1> QED BY <1>1, AggroInvariant, PTL

-----------------------------------------------------------------------------
(* What a step may do to one mob: from its record now to b2. *)

Tame(m, b2) ==
    LET b == mob[m] IN
    /\ \/ b2.owner = b.owner \/ b2.owner = None \/ b.owner = None \/ ~Live(b.owner)
       \/ b.near /\ b.hp = MaxHP /\ \A r \in Player : who[r].target # m
    /\ \A p \in Player :
          b.owner = p /\ b2.owner = None /\ Live(p) /\ Inside(m, p) =>
              p \in b2.spared \cup b2.parked
    /\ \A p \in Player :
          p \in b.spared /\ p \notin b2.spared =>
              ~Inside(m, p) \/ b2.owner # None \/ p \in b2.parked \/ who[p].down

\* Its hit points and its wait stay.
Lasts(m, b2) == b2.hp = mob[m].hp /\ b2.wait = mob[m].wait

LEMMA StayTame == ASSUME NEW m PROVE Tame(m, mob[m]) /\ Lasts(m, mob[m])
  BY AggroConstants DEF Tame, Lasts

LEMMA PartedTame ==
    ASSUME IInv, NEW m \in Mob PROVE Tame(m, Parted(mob[m])) /\ Lasts(m, Parted(mob[m]))
<1> DEFINE b2 == Parted(mob[m])
<1>1. /\ b2.owner = None /\ b2.hp = mob[m].hp /\ b2.wait = mob[m].wait
      /\ b2.spared = mob[m].spared \cup ({mob[m].owner} \ {None})
    BY Found, PartedSound
<1> HIDE DEF b2
<1>2. Tame(m, b2) /\ Lasts(m, b2)
    BY <1>1, AggroConstants DEF Tame, Lasts
<1> QED BY <1>2 DEF b2

LEMMA LetGoTame ==
    ASSUME IInv, NEW m \in Mob, NEW p \in Player
    PROVE  Tame(m, LetGo(m, mob[m], p)) /\ Lasts(m, LetGo(m, mob[m], p))
<1> DEFINE b2 == LetGo(m, mob[m], p)
<1>1. /\ b2.owner = IF mob[m].owner = p THEN None ELSE mob[m].owner
      /\ b2.hp = mob[m].hp /\ b2.wait = mob[m].wait
      /\ mob[m].spared \subseteq b2.spared
      /\ mob[m].owner = p => p \in b2.spared
    BY Found, LetGoSound
<1> HIDE DEF b2
<1>2. Tame(m, b2) /\ Lasts(m, b2)
    BY <1>1, AggroConstants DEF Tame, Lasts
<1> QED BY <1>2 DEF b2

LEMMA AskedTame ==
    ASSUME IInv, NEW m \in Mob, NEW p \in Player
    PROVE  Tame(m, Asked(p, m)) /\ Lasts(m, Asked(p, m))
  BY StayTame, PartedTame DEF Asked

LEMMA ScanTame ==
    ASSUME IInv, ScanWorld, NEW m \in Mob PROVE Tame(m, mob'[m]) /\ Lasts(m, mob'[m])
<1>1. /\ mob'[m].hp = mob[m].hp /\ mob'[m].wait = mob[m].wait
      /\ \/ mob'[m].owner = mob[m].owner
         \/ mob[m].owner = None
         \/ \E p \in Player : MaySwitch(m, p)
      /\ mob[m].owner # None => mob'[m].owner # None
      /\ \/ mob'[m].owner # None
         \/ mob[m].spared \cap LiveInside(m) \subseteq mob'[m].spared
    BY Found, ScanSound DEF IInv
<1>2. \A p \in Player : p \in mob[m].spared => who[p].here
    BY Found DEF Sound, Marked
<1>3. \A p \in Player :
          p \in mob[m].spared => p \in LiveInside(m) \/ who[p].down \/ ~Inside(m, p)
    BY <1>2 DEF LiveInside, Live
<1>4. (\E p \in Player : MaySwitch(m, p)) =>
          mob[m].near /\ mob[m].hp = MaxHP /\ \A r \in Player : who[r].target # m
    BY DEF MaySwitch
<1> QED BY <1>1, <1>3, <1>4, AggroConstants DEF Tame, Lasts

\* Every section but the blow's, and every poll but the one that revives.
LEMMA QuietSteps ==
    ASSUME IInv, NEW p \in Player, NEW m \in Mob,
           \/ Enter(p) \/ Join(p) \/ Quit(p) \/ Leave(p) \/ Check(p)
           \/ Select(p) \/ Untarget(p) \/ DropTarget(p) \/ ReleaseAll(p)
           \/ Assist(p) \/ AssistMate(p) \/ Answer(p) \/ Forget(p) \/ Record(p) \/ RiseHere(p) \/ RiseInTown(p)
           \/ (\E x \in Place : Move(p, x) \/ Warp(p, x))
           \/ (\E n \in Mob : Target(p, n) \/ Retaliate(p, n))
           \/ (\E how \in {"rise", "carry"} : Restart(p, how))
           \/ Scan
    PROVE  Tame(m, mob'[m]) /\ Lasts(m, mob'[m])
<1>1. CASE ScanWorld
    BY <1>1, ScanTame
<1>2. CASE UNCHANGED mob
    BY <1>2, StayTame
<1>3. CASE mob' = [n \in Mob |-> LetGo(n, mob[n], p)]
    BY <1>3, LetGoTame
<1>4. CASE Join(p)
    <2> DEFINE b == mob[m]
    <2>1. mob'[m] = IF p \in b.parked
                    THEN [b EXCEPT !.spared = @ \cup {p}, !.parked = @ \ {p}]
                    ELSE b
        BY <1>4 DEF Join
    <2>2. b \in MobState /\ Sound(b, Here)
        BY Found
    <2> HIDE DEF b
    <2>3. /\ mob'[m].hp = b.hp /\ mob'[m].wait = b.wait /\ mob'[m].owner = b.owner
          /\ b.spared \subseteq mob'[m].spared
        BY <2>1, <2>2 DEF MobState
    <2> QED BY <2>3, AggroConstants DEF Tame, Lasts, b
<1>5. CASE Leave(p)
    <2> DEFINE b == LetGo(m, mob[m], p)
    <2>1. mob'[m] = IF p \in b.spared
                    THEN [b EXCEPT !.spared = @ \ {p}, !.parked = @ \cup {p}]
                    ELSE b
        BY <1>5 DEF Leave
    <2>2. b \in MobState /\ Tame(m, b) /\ Lasts(m, b)
        BY Found, LetGoSound, LetGoTame
    <2> HIDE DEF b
    <2>3. /\ mob'[m].hp = b.hp /\ mob'[m].wait = b.wait /\ mob'[m].owner = b.owner
          /\ b.spared \subseteq mob'[m].spared \cup mob'[m].parked
          /\ b.parked \subseteq mob'[m].parked
          /\ b.spared \ mob'[m].spared \subseteq mob'[m].parked
        BY <2>1, <2>2 DEF MobState
    <2> QED BY <2>2, <2>3 DEF Tame, Lasts
<1>6. CASE Check(p)
    <2>1. CASE who[p].aim # None /\ mob' = [mob EXCEPT ![who[p].aim] = Asked(p, who[p].aim)]
        BY <2>1, Found, StayTame, AskedTame
    <2>2. CASE mob' = [n \in Mob |-> IF mob[n].owner = p /\ Live(p) /\ ~Inside(n, p)
                                     THEN Parted(mob[n]) ELSE mob[n]]
        BY <2>2, StayTame, PartedTame
    <2> QED BY <1>2, <1>6, <2>1, <2>2 DEF Check
<1>7. CASE \E n \in Mob : Target(p, n) \/ Retaliate(p, n)
    BY <1>7, Found, StayTame, AskedTame DEF Target, Retaliate
<1>8. CASE AssistMate(p)
    <2>1. CASE mob'[m] = mob[m]
        BY <2>1, StayTame
    <2>2. CASE mob'[m] = Engaged(mob[m], p)
        <3> DEFINE b2 == Engaged(mob[m], p)
        <3>1. /\ b2.hp = mob[m].hp /\ b2.wait = mob[m].wait
              /\ b2.owner = IF mob[m].owner # None THEN mob[m].owner ELSE p
              /\ b2.spared = IF mob[m].owner # None THEN mob[m].spared ELSE {}
            BY Found, EngagedSound
        <3>2. mob'[m] = b2
            BY <2>2
        <3> HIDE DEF b2
        <3> QED BY <3>1, <3>2, AggroConstants DEF Tame, Lasts
    <2> QED BY <1>8, <2>1, <2>2, Found DEF AssistMate
<1>9. CASE Forget(p)
    BY <1>9, Found, StayTame, PartedTame DEF Forget
<1>10. CASE Record(p)
    BY <1>2, <1>3, <1>10 DEF Record
<1>11. CASE RiseInTown(p) \/ \E x \in Place : Warp(p, x)
    BY <1>3, <1>11 DEF RiseInTown, Warp, Carried
<1>12. CASE \/ Quit(p) \/ Select(p) \/ Untarget(p) \/ DropTarget(p) \/ RiseHere(p)
            \/ (\E x \in Place : Move(p, x)) \/ Assist(p) \/ Answer(p)
    BY <1>2, <1>12 DEF Quit, Select, Untarget, DropTarget, RiseHere, Move, Assist, Answer
<1>13. CASE \/ Enter(p) \/ Scan \/ (\E how \in {"rise", "carry"} : Restart(p, how))
    BY <1>1, <1>13 DEF Enter, Scan, Restart
<1>14. CASE ReleaseAll(p)
    BY <1>3, <1>14 DEF ReleaseAll
<1> QED BY <1>4, <1>5, <1>6, <1>7, <1>8, <1>9, <1>10, <1>11, <1>12, <1>13, <1>14

\* What the blow does to the mobs.
LEMMA StrikeMobs ==
    ASSUME IInv, NEW p \in Player, Strike(p)
    PROVE  \E m \in Mob : \E hp \in 0 .. MaxHP :
              /\ Acceptable(p, m) /\ hp = mob[m].hp - 1 /\ who[p].here
              /\ \A n \in Mob : mob'[n] = Aligned(m, n, hp,
                    IF n = m THEN Struck(p, m, hp) ELSE Shared(m, n, hp))
<1> DEFINE m  == who[p].aim
           hp == mob[m].hp - 1
<1>1. m \in Mob /\ Acceptable(p, m) /\ who[p].here
    BY Found DEF Strike, Able, Playing, Typed, PlayerState
<1>2. hp \in 0 .. MaxHP
    BY <1>1, StruckSound
<1>3. \A n \in Mob : mob'[n] = Aligned(m, n, hp,
          IF n = m THEN Struck(p, m, hp) ELSE Shared(m, n, hp))
    BY DEF Strike
<1> HIDE DEF m
<1> QED BY <1>1, <1>2, <1>3

\* The blow takes the mob from whoever cannot hold it, or kills.
LEMMA StrikeTame ==
    ASSUME IInv, NEW p \in Player, Strike(p), NEW n \in Mob PROVE Tame(n, mob'[n])
<1>0. PICK m \in Mob, hp \in 0 .. MaxHP :
          /\ Acceptable(p, m) /\ hp = mob[m].hp - 1 /\ who[p].here
          /\ \A k \in Mob : mob'[k] = Aligned(m, k, hp,
                IF k = m THEN Struck(p, m, hp) ELSE Shared(m, k, hp))
    BY StrikeMobs
<1>1. Acceptable(p, m) /\ hp = mob[m].hp - 1 /\ who[p].here
    BY <1>0
<1>1a. /\ Struck(p, m, hp).owner = IF hp = 0 THEN None ELSE p
       /\ hp = 0 => LiveInside(m) \subseteq Struck(p, m, hp).spared
    <2>1. mob[m].hp \in 0 .. MaxHP
        BY Found DEF MobState
    <2>2. mob[m].hp \in Int /\ hp \in Int
        BY <2>1, AggroConstants
    <2> QED BY <1>1, <2>2, StruckSound
<1> DEFINE b == IF n = m THEN Struck(p, m, hp) ELSE Shared(m, n, hp)
<1>2. b \in MobState /\ mob'[n] = Aligned(m, n, hp, b)
    BY <1>0, <1>1, StruckSound, SharedSound
<1>3. Tame(n, b)
    <2>1. CASE n = m
        <3> DEFINE s == Struck(p, m, hp)
        <3>1. /\ s.owner = IF hp = 0 THEN None ELSE p
              /\ hp = 0 => LiveInside(m) \subseteq s.spared
            BY <1>1a
        <3>2. b = s
            BY <2>1
        <3>3. mob[m].owner \in {None, p} \/ ~Live(mob[m].owner)
            BY <1>1 DEF Acceptable, Held
        <3>4. \A q \in Player : q \in mob[m].spared => who[q].here
            BY Found DEF Sound, Marked
        <3> HIDE DEF s, b
        <3>5. \A q \in Player : q \in mob[m].spared /\ hp = 0 =>
                  q \in s.spared \/ who[q].down \/ ~Inside(m, q)
            BY <3>1, <3>4 DEF LiveInside, Live
        <3>6. \A q \in Player : Live(q) /\ Inside(m, q) /\ hp = 0 => q \in s.spared
            BY <3>1 DEF LiveInside
        <3> QED BY <2>1, <3>1, <3>2, <3>3, <3>5, <3>6, AggroConstants DEF Tame
    <2>2. CASE n # m
        <3> DEFINE s == Shared(m, n, hp)
        <3>1. /\ s.owner \in {mob[n].owner, None}
              /\ s.owner # mob[n].owner => LiveInside(n) \subseteq s.spared
              /\ mob[n].spared \subseteq s.spared
            BY <1>1, SharedSound
        <3>2. b = s
            BY <2>2
        <3> HIDE DEF s, b
        <3>3. \A q \in Player : Live(q) /\ Inside(n, q) => q \in LiveInside(n)
            BY DEF LiveInside
        <3> QED BY <3>1, <3>2, <3>3, AggroConstants DEF Tame
    <2> QED BY <2>1, <2>2
<1> HIDE DEF b
<1> DEFINE c == Aligned(m, n, hp, b)
<1>4. c.owner = b.owner /\ c.spared = b.spared /\ c.parked = b.parked
    BY <1>2, AlignedSound
<1>5. mob'[n] = c
    BY <1>2
<1> HIDE DEF c
<1> QED BY <1>3, <1>4, <1>5 DEF Tame

LEMMA RespawnTame ==
    ASSUME IInv, NEW m \in Mob, Respawn(m), NEW n \in Mob PROVE Tame(n, mob'[n])
<1>1. CASE n = m
    <2> DEFINE r == Risen(m, mob[m])
    <2>1. r.owner = None /\ r.spared = mob[m].spared \cup LiveInside(m)
        BY Found, RisenSound
    <2>2. mob'[m] = r
        BY Found DEF Respawn
    <2> HIDE DEF r
    <2>3. \A q \in Player : Live(q) /\ Inside(m, q) => q \in LiveInside(m)
        BY DEF LiveInside
    <2> QED BY <1>1, <2>1, <2>2, <2>3 DEF Tame
<1>2. CASE n # m
    BY <1>2, Found, StayTame DEF Respawn
<1> QED BY <1>1, <1>2

LEMMA TickTame == ASSUME IInv, Tick, NEW m \in Mob PROVE Tame(m, mob'[m])
<1> DEFINE b == mob[m]
           t == IF b.wait > 0 THEN b.wait - 1 ELSE 0
<1>1. b \in MobState /\ mob'[m] = [b EXCEPT !.wait = t] /\ Tame(m, b)
    BY Found, StayTame DEF Tick
<1> HIDE DEF b, t
<1>2. mob'[m].owner = b.owner /\ mob'[m].spared = b.spared /\ mob'[m].parked = b.parked
    BY <1>1 DEF MobState
<1> QED BY <1>1, <1>2 DEF Tame

LEMMA NextTame == ASSUME IInv, [Next]_vars, NEW m \in Mob PROVE Tame(m, mob'[m])
<1>1. CASE UNCHANGED vars
    BY <1>1, StayTame DEF vars
<1>2. CASE \E p \in Player : Handler(p)
    BY <1>2, QuietSteps, StrikeTame DEF Handler
<1>3. CASE \E p \in Player : Continue(p)
    BY <1>3, QuietSteps DEF Continue
<1>4. CASE Scan
    BY <1>4, ScanTame DEF Scan
<1>5. CASE (\E n \in Mob : Respawn(n)) \/ Tick
    BY <1>5, RespawnTame, TickTame
<1> QED BY <1>1, <1>2, <1>3, <1>4, <1>5 DEF Next

(* A mob passes from one player to another only when the first is gone or  *)
(* fallen, or had it by nearness alone: no strike, TARGET, assist or scan  *)
(* of another takes it, however the sections of their handlers fall.       *)
THEOREM AggroLocksAreKept == Spec => LocksAreKept
<1>1. IInv /\ [Next]_vars => [\A m \in Mob : LockKept(m)]_vars
    BY NextTame DEF Tame, LockKept
<1> QED BY <1>1, AggroInvariant, PTL DEF Spec, LocksAreKept

(* A player who stands by, alive, when a mob lets go of him is marked.     *)
THEOREM AggroReleaseMarks == Spec => ReleaseMarks
<1> DEFINE A == \A m \in Mob, p \in Player :
                    /\ mob[m].owner = p /\ mob'[m].owner = None
                    /\ Live(p) /\ Inside(m, p)
                    => p \in mob'[m].spared \cup mob'[m].parked
<1>1. IInv /\ [Next]_vars => [A]_vars
    BY NextTame DEF Tame
<1> QED BY <1>1, AggroInvariant, PTL DEF Spec, ReleaseMarks

(* The mark of a player on his feet stays until he walks out, the mob is   *)
(* fought again, or it is parked as he leaves.                             *)
THEOREM AggroSparedWhileUp == Spec => SparedWhileUp
<1> DEFINE A == \A m \in Mob, p \in Player :
                    MarkLost(m, p) => MayLose(m, p) \/ who[p].down
<1>1. IInv /\ [Next]_vars => [A]_vars
    BY NextTame DEF Tame, MarkLost, MayLose
<1> QED BY <1>1, AggroInvariant, PTL DEF Spec, SparedWhileUp

-----------------------------------------------------------------------------
(* Packs that rise together. *)

LEMMA PackStays ==
    ASSUME PackWaitsTogether, \A m \in Mob : Lasts(m, mob'[m]) PROVE PackWaitsTogether'
  BY AggroConstants DEF PackWaitsTogether, Lasts

LEMMA PackStrike ==
    ASSUME IInv, PackWaitsTogether, NEW p \in Player, Strike(p) PROVE PackWaitsTogether'
<1>0. PICK m \in Mob, hp \in 0 .. MaxHP :
          /\ Acceptable(p, m) /\ hp = mob[m].hp - 1 /\ who[p].here
          /\ \A k \in Mob : mob'[k] = Aligned(m, k, hp,
                IF k = m THEN Struck(p, m, hp) ELSE Shared(m, k, hp))
    BY StrikeMobs
<1>1. Acceptable(p, m) /\ hp = mob[m].hp - 1 /\ who[p].here
    BY <1>0
<1> DEFINE B(n) == IF n = m THEN Struck(p, m, hp) ELSE Shared(m, n, hp)
<1>2. ASSUME NEW n \in Mob
      PROVE  /\ mob'[n].hp = B(n).hp
             /\ mob'[n].wait = IF SyncRespawn /\ hp = 0 /\ {m, n} \subseteq Pack /\ B(n).hp = 0
                               THEN RespawnDelay ELSE B(n).wait
    <2> DEFINE b == B(n)
    <2>1. b \in MobState /\ mob'[n] = Aligned(m, n, hp, b)
        BY <1>0, <1>1, StruckSound, SharedSound
    <2> HIDE DEF b
    <2>2. /\ mob'[n].hp = b.hp
          /\ mob'[n].wait = IF SyncRespawn /\ hp = 0 /\ {m, n} \subseteq Pack /\ b.hp = 0
                            THEN RespawnDelay ELSE b.wait
        BY <2>1, AlignedSound
    <2> QED BY <2>2 DEF b
<1>3. ASSUME NEW n \in Mob, B(n).hp = 0, ~(hp = 0 /\ {m, n} \subseteq Pack), n \in Pack
      PROVE  mob[n].hp = 0 /\ B(n).wait = mob[n].wait
    <2>1. n # m
        <3>1. SUFFICES ASSUME n = m PROVE FALSE
            OBVIOUS
        <3>2. B(n) = Struck(p, m, hp)
            BY <3>1
        <3>3. Struck(p, m, hp).hp = hp
            BY <1>1, StruckSound
        <3> QED BY <1>3, <3>1, <3>2, <3>3
    <2>2. B(n) = Shared(m, n, hp)
        BY <2>1
    <2> DEFINE s == Shared(m, n, hp)
    <2>3. /\ mob[n].hp # 0 /\ s.hp = 0 => hp = 0 /\ {m, n} \subseteq Pack
          /\ mob[n].hp = 0 => s = mob[n]
        BY SharedSound
    <2> HIDE DEF s
    <2>4. B(n) = s
        BY <2>2 DEF s
    <2> QED BY <1>3, <2>3, <2>4
<1> HIDE DEF B
<1>4. ASSUME SyncRespawn, NEW n \in Pack, NEW k \in Pack, mob'[n].hp = 0, mob'[k].hp = 0
      PROVE  mob'[n].wait = mob'[k].wait
    <2>1. n \in Mob /\ k \in Mob
        BY AggroConstants
    <2>2. CASE hp = 0 /\ m \in Pack
        BY <1>2, <1>4, <2>1, <2>2
    <2>3. CASE ~(hp = 0 /\ m \in Pack)
        <3>1. /\ mob[n].hp = 0 /\ mob'[n].wait = mob[n].wait
              /\ mob[k].hp = 0 /\ mob'[k].wait = mob[k].wait
            BY <1>2, <1>3, <1>4, <2>1, <2>3
        <3> QED BY <1>4, <3>1 DEF PackWaitsTogether
    <2> QED BY <2>2, <2>3
<1> QED BY <1>4 DEF PackWaitsTogether

LEMMA PackRespawn ==
    ASSUME IInv, PackWaitsTogether, NEW m \in Mob, Respawn(m) PROVE PackWaitsTogether'
<1>1. mob'[m].hp # 0
    <2> DEFINE r == Risen(m, mob[m])
    <2>1. r.hp = MaxHP
        BY Found, RisenSound
    <2>2. mob'[m] = r
        BY Found DEF Respawn
    <2> HIDE DEF r
    <2> QED BY <2>1, <2>2, AggroConstants
<1>2. \A n \in Mob : n # m => mob'[n] = mob[n]
    BY Found DEF Respawn
<1> QED BY <1>1, <1>2, AggroConstants DEF PackWaitsTogether

LEMMA PackTick == ASSUME IInv, PackWaitsTogether, Tick PROVE PackWaitsTogether'
<1>1. ASSUME NEW m \in Mob
      PROVE  /\ mob'[m].hp = mob[m].hp
             /\ mob'[m].wait = IF mob[m].wait > 0 THEN mob[m].wait - 1 ELSE 0
    <2> DEFINE b == mob[m]
               t == IF b.wait > 0 THEN b.wait - 1 ELSE 0
    <2>1. b \in MobState /\ mob'[m] = [b EXCEPT !.wait = t]
        BY Found DEF Tick
    <2> HIDE DEF b, t
    <2>2. mob'[m].hp = b.hp /\ mob'[m].wait = t
        BY <2>1 DEF MobState
    <2> QED BY <2>2 DEF b, t
<1> QED BY <1>1, AggroConstants DEF PackWaitsTogether

(* The dead of a sync_respawn pack wait for the same moment, in packs of   *)
(* any size, with or without shared hit points.                            *)
THEOREM AggroPackWaitsTogether == Spec => []PackWaitsTogether
<1>1. Init => PackWaitsTogether
    BY AggroConstants DEF Init, Fresh, PackWaitsTogether
<1>2. IInv /\ PackWaitsTogether /\ [Next]_vars => PackWaitsTogether'
    <2> SUFFICES ASSUME IInv, PackWaitsTogether, [Next]_vars PROVE PackWaitsTogether'
        OBVIOUS
    <2>1. CASE UNCHANGED vars
        BY <2>1 DEF vars, PackWaitsTogether
    <2>2. CASE \E p \in Player : Handler(p)
        BY <2>2, QuietSteps, PackStays, PackStrike DEF Handler
    <2>3. CASE \E p \in Player : Continue(p)
        BY <2>3, QuietSteps, PackStays DEF Continue
    <2>4. CASE Scan
        BY <2>4, ScanTame, PackStays DEF Scan
    <2>5. CASE (\E m \in Mob : Respawn(m)) \/ Tick
        BY <2>5, PackRespawn, PackTick
    <2> QED BY <2>1, <2>2, <2>3, <2>4, <2>5 DEF Next
<1> QED BY <1>1, <1>2, AggroInvariant, PTL DEF Spec
=============================================================================
