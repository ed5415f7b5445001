------------------------------ MODULE Custody ------------------------------
(***************************************************************************)
(* Where the items of the game are.  The same item may be recorded in      *)
(* several places: the account row on disk, the runtime of the session     *)
(* that plays the character, the shared world's copy of that character, a  *)
(* handle on the ground, and the file of durable ground handles.  This     *)
(* module declares those places and the steps that bring a character into  *)
(* the world and out of it; GroundItems and PeerDeals move the items, and  *)
(* ItemWorld puts them together and states what must hold.                 *)
(*                                                                         *)
(* A handler holds the stateMu of its own session from start to end, but   *)
(* the account store, the shared world and a peer's session are each       *)
(* visited under a lock of their own.  One visit is one action; the job of *)
(* a character is what its handler carries from one visit to the next.     *)
(*                                                                         *)
(* Gold is a set of coins, items that cannot be given away and that fill   *)
(* no cell; a price is one coin.  Distances, stacks and templates are left *)
(* out: who refuses because of them changes nothing.                       *)
(***************************************************************************)
EXTENDS FiniteSets, Integers

CONSTANTS
    Character,     \* characters, one per account
    Item, Coin,    \* item instances, and those of them that are gold
    Tradable,      \* what a template lets a trade show, gold included
    Vid, VidsOf,   \* handles on the ground; VidsOf[c]: those c's cells map to
    BagSize,       \* carried cells
    Contend,       \* may handlers that share a character, item or handle overlap?
    CrashMidway,   \* may the server die inside a handler?
    StoreFails,    \* may the account store refuse a save?
    RestoreFails,  \* may the save that undoes an earlier one fail as well?
    NoHandle, NoJob

ASSUME BagAssumption == BagSize \in Nat /\ IsFiniteSet(Item)
ASSUME CoinAssumption == Coin \subseteq Item
ASSUME TradableAssumption == Tradable \subseteq Item
ASSUME VidAssumption == VidsOf \in [Character -> SUBSET Vid] /\ Vid \cap Item = {}
ASSUME SwitchAssumption ==
    {Contend, CrashMidway, StoreFails, RestoreFails} \subseteq BOOLEAN

VARIABLES
    here,      \* the characters that are in the shared world
    row,       \* the character in its account's row
    live,      \* the character in the runtime of its session
    seen,      \* the shared world's copy of the character
    shop,      \* the stock of the character's private shop, {} when closed
    ground,    \* groundItemsByVID
    file,      \* the durable handles, as a restart would read them now
    unsaved,   \* the file is behind: a hook is pending, or its save was refused
    job        \* what the character's handler carries

vars == <<here, row, live, seen, shop, ground, file, unsaved, job>>
people == <<here, row, live, seen, shop>>
floor == <<ground, file, unsaved>>

Bag == {b \in SUBSET Item : Cardinality(b \ Coin) <= BagSize}
State == [bag: Bag, down: BOOLEAN]
Nobody == [bag |-> {}, down |-> FALSE]

Handle == [item: Item, owner: Character, exclusive: BOOLEAN, bound: BOOLEAN]
Durable(h) == IF h = NoHandle THEN NoHandle ELSE [h EXCEPT !.bound = FALSE]

Rows == [own: State, peer: State]
GroundJob == [op: {"drop", "pick"}, stage: {"save", "ground"}, item: Item, vid: Vid]
PeerJob == [op: {"give", "buy", "trade"}, stage: {"own", "peer", "apply", "close", "show"},
            peer: Character, there: BOOLEAN, out: SUBSET Item, in: SUBSET Item,
            mine: State, theirs: State, rows: Rows]
Job == GroundJob \cup PeerJob

ASSUME NullAssumption == NoHandle \notin Handle /\ NoJob \notin Job

\* The type of the state.  It says as well that no bag, on disk, in a session, in
\* the shared world or in a handler's copies, ever has more items than cells.
TypeOK ==
    /\ here \subseteq Character
    /\ row \in [Character -> State]
    /\ live \in [Character -> State]
    /\ seen \in [Character -> State]
    /\ shop \in [Character -> SUBSET Item]
    /\ ground \in [Vid -> Handle \cup {NoHandle}]
    /\ file \in [Vid -> Handle \cup {NoHandle}]
    /\ unsaved \in BOOLEAN
    /\ job \in [Character -> Job \cup {NoJob}]

-----------------------------------------------------------------------------
(* Who may start.                                                          *)

Free(c) == job[c] = NoJob
Dealing(c) == ~Free(c) /\ job[c].op \in {"give", "buy", "trade"}

Parties(c) == {c} \cup IF Dealing(c) THEN {job[c].peer} ELSE {}
Things(c) ==
    IF Free(c) THEN {}
    ELSE IF Dealing(c) THEN job[c].out \cup job[c].in ELSE {job[c].item, job[c].vid}

\* Nobody else's handler is about one of these characters, items or handles.
Undisputed(c, peers, things) ==
    \A d \in Character \ {c} : ~Free(d) =>
        Parties(d) \cap ({c} \cup peers) = {} /\ Things(d) \cap things = {}

Begin(c, peers, things) == Free(c) /\ (Contend \/ Undisputed(c, peers, things))

\* currentSelectedPlayer, alive, in the shared world with the same HP there.
Playing(c) == c \in here /\ ~live[c].down /\ ~seen[c].down

\* Fault: a full bag takes one more.
RoomForOneMore(s, i) == i \in Coin \/ Cardinality(s.bag \ Coin) <= BagSize

Room(s, i) == i \in Coin \/ Cardinality(s.bag \ Coin) < BagSize

Gains(s, things) == [s EXCEPT !.bag = @ \cup things]
Loses(s, things) == [s EXCEPT !.bag = @ \ things]

\* Own item commit: the row, the runtime and then the shared world's copy.
CommitOwn(c, bag) ==
    /\ row' = [row EXCEPT ![c].bag = bag]
    /\ live' = [live EXCEPT ![c].bag = bag]
    /\ seen' = [seen EXCEPT ![c] = live'[c]]

-----------------------------------------------------------------------------
(* In and out of the world.                                                *)

\* Fault: a handle that waited for its owner is not bound to the new session.
NotRebound(c) == ground

\* Exclusive handles wait for their owner: it may come back as a new entity.
Rebound(c) ==
    [v \in Vid |-> IF ground[v] # NoHandle /\ ground[v].exclusive /\ ground[v].owner = c
                   THEN [ground[v] EXCEPT !.bound = TRUE] ELSE ground[v]]

Join(c) ==
    /\ c \notin here /\ Begin(c, {}, {})
    /\ here' = here \cup {c}
    /\ live' = [live EXCEPT ![c] = row[c]]
    /\ seen' = [seen EXCEPT ![c] = row[c]]
    /\ ground' = Rebound(c)
    /\ UNCHANGED <<row, shop, file, unsaved, job>>

BoundTo(c) == {v \in Vid : ground[v] # NoHandle /\ ground[v].bound /\ ground[v].owner = c}

Parked(c) ==
    [v \in Vid |-> IF v \in BoundTo(c) THEN [ground[v] EXCEPT !.bound = FALSE] ELSE ground[v]]

Removed(c) == [v \in Vid |-> IF v \in BoundTo(c) THEN NoHandle ELSE ground[v]]

\* Fault: the handles that go with their owner stay in the file.
LeaveUnsaved(c) ==
    /\ c \in here /\ Free(c)
    /\ here' = here \ {c}
    /\ live' = [live EXCEPT ![c] = Nobody]
    /\ seen' = [seen EXCEPT ![c] = Nobody]
    /\ shop' = [shop EXCEPT ![c] = {}]
    /\ ground' = IF seen[c].down THEN Parked(c) ELSE Removed(c)
    /\ job' = [d \in Character |-> IF Dealing(d) /\ job[d].peer = c
                                   THEN [job[d] EXCEPT !.there = FALSE] ELSE job[d]]
    /\ UNCHANGED <<row, file, unsaved>>

\* Its own handles, released ones included, go with a living owner; those of an
\* owner at the HP floor stay.  Deals of others with c now name a gone entity.
Leave(c) ==
    /\ c \in here /\ Free(c)
    /\ here' = here \ {c}
    /\ live' = [live EXCEPT ![c] = Nobody]
    /\ seen' = [seen EXCEPT ![c] = Nobody]
    /\ shop' = [shop EXCEPT ![c] = {}]
    /\ ground' = IF seen[c].down THEN Parked(c) ELSE Removed(c)
    /\ unsaved' = (unsaved \/ (~seen[c].down /\ BoundTo(c) # {}))
    /\ job' = [d \in Character |-> IF Dealing(d) /\ job[d].peer = c
                                   THEN [job[d] EXCEPT !.there = FALSE] ELSE job[d]]
    /\ UNCHANGED <<row, file>>

\* Retaliation brings c to the HP floor.  The shared world learns of it even if
\* the row does not; a shop closes.
Fall(c) ==
    /\ Begin(c, {}, {}) /\ Playing(c)
    /\ live' = [live EXCEPT ![c].down = TRUE]
    /\ \/ row' = [row EXCEPT ![c].down = TRUE]
       \/ StoreFails /\ UNCHANGED row
    /\ seen' = [seen EXCEPT ![c] = live'[c]]
    /\ shop' = [shop EXCEPT ![c] = {}]
    /\ UNCHANGED <<here, floor, job>>

\* restart_here, restart_town: the character comes back as persisted.
Revive(c) ==
    /\ Begin(c, {}, {}) /\ c \in here /\ live[c].down
    /\ row' = [row EXCEPT ![c].down = FALSE]
    /\ live' = [live EXCEPT ![c] = row'[c]]
    /\ seen' = [seen EXCEPT ![c] = row'[c]]
    /\ shop' = [shop EXCEPT ![c] = {}]
    /\ UNCHANGED <<here, floor, job>>

\* The process ends without closing its sessions and starts again.  It drops the
\* handles whose time has passed and releases those whose exclusive time has.
Crash ==
    /\ here # {}
    /\ CrashMidway \/ (~unsaved /\ \A c \in Character : Free(c))
    /\ here' = {}
    /\ live' = [c \in Character |-> Nobody]
    /\ seen' = [c \in Character |-> Nobody]
    /\ shop' = [c \in Character |-> {}]
    /\ job' = [c \in Character |-> NoJob]
    /\ \E expired, released \in SUBSET Vid :
          file' = [v \in Vid |->
                     IF file[v] = NoHandle \/ v \in expired THEN NoHandle
                     ELSE [file[v] EXCEPT !.exclusive = @ /\ v \notin released]]
    /\ ground' = file'
    /\ unsaved' = FALSE
    /\ UNCHANGED row

Init ==
    /\ here = {}
    /\ row \in {r \in [Character -> State] :
                  \A c \in Character :
                    /\ ~r[c].down
                    /\ \A d \in Character \ {c} : r[c].bag \cap r[d].bag = {}}
    /\ live = [c \in Character |-> Nobody]
    /\ seen = [c \in Character |-> Nobody]
    /\ shop = [c \in Character |-> {}]
    /\ ground = [v \in Vid |-> NoHandle]
    /\ file = [v \in Vid |-> NoHandle]
    /\ unsaved = FALSE
    /\ job = [c \in Character |-> NoJob]
=============================================================================
