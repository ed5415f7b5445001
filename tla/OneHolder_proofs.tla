-------------------------- MODULE OneHolder_proofs --------------------------
(***************************************************************************)
(* Who has an item, when handlers that share a character, an item or a     *)
(* handle do not overlap, the server does not die inside a handler and the *)
(* save that undoes another works.  The invariant says of every handler    *)
(* how far it has come, of every character without one that its copies     *)
(* agree, and of every item where it may be.                               *)
(***************************************************************************)
EXTENDS ItemWorld_proofs

Orderly == ~Contend /\ ~CrashMidway /\ ~RestoreFails

\* At work on an item of the ground.
Working(c) == ~Free(c) /\ ~Dealing(c)

Handles(c, i) ==
    \/ Dealing(c) /\ i \in job[c].out \cup job[c].in
    \/ Working(c) /\ job[c].item = i

Lies(v, i) == ground[v] # NoHandle /\ ground[v].item = i
Idle(c) == \A d \in Character : ~Free(d) => c \notin Parties(d)

\* No two handlers are about one character, item or handle.
Disjoint ==
    \A c, d \in Character : c # d /\ ~Free(c) /\ ~Free(d) =>
        Parties(c) \cap Parties(d) = {} /\ Things(c) \cap Things(d) = {}

\* The three copies of a character agree.
Settled(c) == live[c] = seen[c] /\ live[c].bag = row[c].bag
Rest == \A c \in here : Idle(c) => Settled(c)

\* What a deal is about, what has been saved of it and what has been applied.
Terms(c) ==
    /\ job[c].mine.bag \cap job[c].theirs.bag = {}
    /\ job[c].out \subseteq job[c].mine.bag /\ job[c].in \subseteq job[c].theirs.bag
    /\ job[c].op = "give" => job[c].in = {}
RowsSaved(c) ==
    /\ row[c].bag = IF job[c].stage = "own" THEN job[c].mine.bag ELSE OwnSide(c).bag
    /\ row[Peer(c)].bag =
         IF job[c].stage \in {"own", "peer"} THEN job[c].theirs.bag ELSE PeerSide(c).bag
    /\ job[c].stage # "own" =>
         /\ job[c].rows.own.bag = job[c].mine.bag
         /\ job[c].rows.peer.bag = job[c].theirs.bag
Applied(c) == job[c].stage \in {"close", "show"}
CopiesApplied(c) ==
    /\ live[c] = IF job[c].op = "give" \/ Applied(c) THEN OwnSide(c) ELSE job[c].mine
    /\ seen[c] = job[c].mine
    /\ Peer(c) \in here =>
         /\ live[Peer(c)] = IF Applied(c) THEN PeerSide(c) ELSE job[c].theirs
         /\ seen[Peer(c)] = IF job[c].stage = "show" THEN PeerSide(c) ELSE job[c].theirs
DealInv(c) ==
    /\ Peer(c) # c /\ (job[c].there <=> Peer(c) \in here)
    /\ Terms(c) /\ RowsSaved(c) /\ CopiesApplied(c)

\* Who drops or picks up stands, and the handle is free or still what was resolved.
WorkInv(c) ==
    /\ Settled(c) /\ ~live[c].down
    /\ job[c].op = "drop" => ground[job[c].vid] = NoHandle
    /\ job[c].op = "pick" /\ ground[job[c].vid] # NoHandle =>
         ground[job[c].vid].item = job[c].item /\ ~Blocks(ground[job[c].vid], c)

JobInv(c) ==
    ~Free(c) => c \in here /\ (Dealing(c) => DealInv(c)) /\ (Working(c) => WorkInv(c))

\* An item in a handler's hands is in no row but those of the handler's parties, and
\* lies nowhere but where it is being picked up.
InHand(c, i) ==
    /\ \A d \in Character \ Parties(c) : i \notin row[d].bag
    /\ Working(c) => (i \in row[c].bag <=> Picking(c, "ground"))
    /\ \A v \in Vid : Lies(v, i) => Working(c) /\ job[c].op = "pick" /\ v = job[c].vid

\* Any other item is in one row at most, or in one spot.
AtRest(i) ==
    /\ \A c, d \in Character : i \in row[c].bag /\ i \in row[d].bag => c = d
    /\ \A v, w \in Vid : Lies(v, i) /\ Lies(w, i) => v = w
    /\ \A c \in Character, v \in Vid : ~(i \in row[c].bag /\ Lies(v, i))

ItemInv(i) ==
    /\ \A c \in Character : Handles(c, i) => InHand(c, i)
    /\ (\A c \in Character : ~Handles(c, i)) => AtRest(i)

Order ==
    /\ Disjoint /\ Rest
    /\ \A c \in Character : JobInv(c)
    /\ \A i \in Item : ItemInv(i)

-----------------------------------------------------------------------------
(* What follows of a state.                                                *)

\* A handler that begins is the only one about its characters and its things.
LEMMA BeginAlone ==
    ASSUME Orderly, NEW c \in Character, NEW peers, NEW things, Begin(c, peers, things)
    PROVE  /\ Free(c) /\ Idle(c)
           /\ \A d \in Character : ~Free(d) =>
                Parties(d) \cap ({c} \cup peers) = {} /\ Things(d) \cap things = {}
           /\ \A d \in Character \cap peers : Free(d) /\ Idle(d)
BY DEF Orderly, Begin, Undisputed, Idle, Parties

LEMMA IdleFree ==
    ASSUME NEW c \in Character, Idle(c)
    PROVE  Free(c)
BY DEF Idle, Parties

\* The rows of two characters without a handler have nothing in common.
LEMMA RowsApart ==
    ASSUME TypeInv, Order, NEW c \in Character, NEW d \in Character, c # d, Idle(c), Idle(d)
    PROVE  row[c].bag \cap row[d].bag = {}
<1> SUFFICES ASSUME NEW i \in row[c].bag, i \in row[d].bag PROVE FALSE
    OBVIOUS
<1>1. i \in Item
    BY DEF TypeInv, TypeOK, State, Bag
<1>2. CASE \A e \in Character : ~Handles(e, i)
    BY <1>1, <1>2 DEF Order, ItemInv, AtRest
<1>3. ASSUME NEW e \in Character, Handles(e, i) PROVE FALSE
    <2>1. ~Free(e) /\ InHand(e, i)
        BY <1>1, <1>3 DEF Order, ItemInv, Handles, Dealing, Working
    <2>2. c \notin Parties(e)
        BY <2>1 DEF Idle
    <2> QED BY <2>1, <2>2 DEF InHand
<1> QED
    BY <1>2, <1>3

\* What an idle character has, nobody handles and nobody else has.
LEMMA OwnAtRest ==
    ASSUME TypeInv, Order, NEW c \in Character, Idle(c), NEW i \in row[c].bag
    PROVE  /\ i \in Item
           /\ \A e \in Character : ~Handles(e, i)
           /\ \A d \in Character \ {c} : i \notin row[d].bag
           /\ \A v \in Vid : ~Lies(v, i)
<1>1. i \in Item
    BY DEF TypeInv, TypeOK, State, Bag
<1>2. ASSUME NEW e \in Character, Handles(e, i) PROVE FALSE
    <2>1. ~Free(e) /\ InHand(e, i)
        BY <1>1, <1>2 DEF Order, ItemInv, Handles, Dealing, Working
    <2>2. c \notin Parties(e)
        BY <2>1 DEF Idle
    <2> QED BY <2>1, <2>2 DEF InHand
<1> QED
    BY <1>1, <1>2 DEF Order, ItemInv, AtRest

\* The bags a deal is to end with.
LEMMA SideBags ==
    ASSUME JobsTyped, NEW c \in Character, Dealing(c)
    PROVE  /\ OwnSide(c).bag = (job[c].mine.bag \ job[c].out) \cup job[c].in
           /\ PeerSide(c).bag = (job[c].theirs.bag \ job[c].in) \cup job[c].out
<1>1. job[c].mine \in State /\ job[c].theirs \in State
    BY JobParts DEF Dealing
<1> QED
    BY <1>1 DEF OwnSide, PeerSide, Gains, Loses, State

-----------------------------------------------------------------------------
(* What a step leaves alone.                                               *)

\* The handle is gone, or is still about the same item for the same owner and no more
\* exclusive than it was.
Thinned(v) ==
    \/ ground'[v] = NoHandle
    \/ /\ ground[v] # NoHandle
       /\ ground'[v].item = ground[v].item /\ ground'[v].owner = ground[v].owner
       /\ ground'[v].exclusive => ground[v].exclusive

Untouched(c) ==
    /\ row'[c] = row[c] /\ live'[c] = live[c] /\ seen'[c] = seen[c]
    /\ c \in here' <=> c \in here

\* A handler none of whose characters is touched.
LEMMA JobKept ==
    ASSUME JobsTyped, NEW c \in Character, JobInv(c), job'[c] = job[c],
           ~Free(c) => \A d \in Parties(c) : Untouched(d),
           Working(c) => Thinned(job[c].vid)
    PROVE  JobInv(c)'
<1> SUFFICES ASSUME ~Free(c) PROVE JobInv(c)'
    BY DEF JobInv, Free
<1>1. Untouched(c) /\ (Dealing(c) => Untouched(Peer(c)) /\ Peer(c) \in Character)
    BY JobParts DEF Parties, Peer, Dealing
<1>2. ~Free(c)' /\ (Dealing(c)' <=> Dealing(c)) /\ (Working(c)' <=> Working(c))
    BY DEF Free, Dealing, Working
<1>3. c \in here'
    BY <1>1 DEF JobInv, Untouched
<1>4. ASSUME Dealing(c) PROVE DealInv(c)'
    <2>1. DealInv(c)
        BY <1>4 DEF JobInv
    <2>2. OwnSide(c)' = OwnSide(c) /\ PeerSide(c)' = PeerSide(c) /\ Peer(c)' = Peer(c)
        BY DEF OwnSide, PeerSide, Peer
    <2>3. Untouched(c) /\ Untouched(Peer(c))
        BY <1>1, <1>4
    <2>4. Terms(c)' /\ RowsSaved(c)'
        BY <2>1, <2>2, <2>3 DEF DealInv, Terms, RowsSaved, Untouched
    <2>5. CopiesApplied(c)'
        BY <2>1, <2>2, <2>3 DEF DealInv, CopiesApplied, Applied, Untouched
    <2> QED BY <2>1, <2>2, <2>3, <2>4, <2>5 DEF DealInv, Untouched
<1>5. ASSUME Working(c) PROVE WorkInv(c)'
    <2>1. WorkInv(c) /\ Untouched(c) /\ Thinned(job[c].vid)
        BY <1>1, <1>5 DEF JobInv
    <2> QED BY <2>1 DEF WorkInv, Settled, Untouched, Thinned, Blocks
<1> QED
    BY <1>2, <1>3, <1>4, <1>5 DEF JobInv

\* An item that nobody takes up, lays down, saves or loses.
LEMMA ItemKept ==
    ASSUME NEW i, ItemInv(i),
           \A c \in Character : Handles(c, i)' <=> Handles(c, i),
           \A c \in Character : Handles(c, i) =>
               /\ Parties(c)' = Parties(c) /\ (Working(c)' <=> Working(c))
               /\ Working(c) => job'[c].op = job[c].op /\ job'[c].vid = job[c].vid
                                /\ (Picking(c, "ground")' <=> Picking(c, "ground")),
           \A c \in Character : i \in row'[c].bag <=> i \in row[c].bag,
           \A v \in Vid : Lies(v, i)' => Lies(v, i)
    PROVE  ItemInv(i)'
<1>1. ASSUME NEW c \in Character, Handles(c, i)' PROVE InHand(c, i)'
    <2>1. Handles(c, i) /\ InHand(c, i)
        BY <1>1 DEF ItemInv
    <2> QED BY <2>1 DEF InHand
<1>2. ASSUME \A c \in Character : ~Handles(c, i)' PROVE AtRest(i)'
    <2>1. AtRest(i)
        BY <1>2 DEF ItemInv
    <2> QED BY <2>1 DEF AtRest
<1> QED
    BY <1>1, <1>2 DEF ItemInv

LEMMA ThinnedLies ==
    ASSUME NEW v \in Vid, Thinned(v), NEW i
    PROVE  Lies(v, i)' => Lies(v, i)
BY DEF Thinned, Lies

\* Handlers that end, or go on about the same, stay apart.
LEMMA StayDisjoint ==
    ASSUME Disjoint,
           \A c \in Character : ~Free(c)' =>
               ~Free(c) /\ Parties(c)' = Parties(c) /\ Things(c)' = Things(c)
    PROVE  Disjoint'
BY DEF Disjoint

Elsewhere(A) == \A e \in Character \ A : Untouched(e)
OnlyJob(c) == \A d \in Character \ {c} : job'[d] = job[d]
Clear(A) == \A d \in Character : ~Free(d) => Parties(d) \cap A = {}

\* The handlers of the others go on if their characters and handles are left alone.
LEMMA OthersKept ==
    ASSUME TypeInv, Order, NEW c \in Character, NEW A, OnlyJob(c), Elsewhere(A),
           \A d \in Character \ {c} : ~Free(d) => Parties(d) \cap A = {},
           \A d \in Character \ {c} : Working(d) => Thinned(job[d].vid),
           NEW d \in Character, d # c
    PROVE  JobInv(d)'
<1>1. JobsTyped /\ JobInv(d) /\ job'[d] = job[d]
    BY TypeParts DEF Order, OnlyJob
<1>2. ~Free(d) => Parties(d) \subseteq Character
    BY <1>1, JobParts DEF Parties, Dealing
<1> QED
    BY <1>1, <1>2, JobKept DEF Elsewhere

\* Who is neither touched nor taken up stays settled.
LEMMA RestKept ==
    ASSUME Rest, NEW A, Elsewhere(A),
           \A e \in Character \ A : Idle(e)' => Idle(e),
           \A e \in A : e \in here' /\ Idle(e)' => Settled(e)',
           here' \subseteq Character
    PROVE  Rest'
<1> SUFFICES ASSUME NEW e \in here', Idle(e)' PROVE Settled(e)'
    BY DEF Rest
<1>1. CASE e \in A
    BY <1>1
<1>2. CASE e \notin A
    <2>1. Untouched(e) /\ e \in here /\ Settled(e)
        BY <1>2 DEF Elsewhere, Untouched, Rest
    <2> QED BY <2>1 DEF Untouched, Settled
<1> QED
    BY <1>1, <1>2

-----------------------------------------------------------------------------
(* The steps, by what they do to the order.                                *)

\* Characters nobody's handler is about move, and handles go or change hands.
Aside(A) ==
    /\ A \subseteq Character /\ Clear(A) /\ job' = job /\ Elsewhere(A)
    /\ here' \subseteq Character /\ \A v \in Vid : Thinned(v)
    /\ \A e \in A : row'[e].bag = row[e].bag /\ (e \in here' => Settled(e)')

\* A deal of two idle characters is agreed on.
DealBegins(c) ==
    /\ Free(c) /\ Dealing(c)' /\ OnlyJob(c) /\ JobInv(c)'
    /\ job'[c].peer \in Character \ {c} /\ Idle(c) /\ Idle(job'[c].peer)
    /\ job'[c].out \subseteq row[c].bag /\ job'[c].in \subseteq row[job'[c].peer].bag
    /\ \A d \in Character \ {c} : ~Free(d) => Things(d) \cap Things(c)' = {}
    /\ Elsewhere({c}) /\ UNCHANGED <<here, row, ground>>

\* A save or the peer's runtime.
DealMoves(c) ==
    /\ Dealing(c) /\ Dealing(c)' /\ OnlyJob(c) /\ DealInv(c)'
    /\ Peer(c)' = Peer(c) /\ job'[c].out = job[c].out /\ job'[c].in = job[c].in
    /\ Elsewhere(Parties(c)) /\ UNCHANGED <<here, ground>>
    /\ \A d \in Parties(c), i \in Item \ (job[c].out \cup job[c].in) :
          i \in row'[d].bag <=> i \in row[d].bag

\* Both sides of the deal are in the rows, or neither is.
DealEnds(c) ==
    /\ Dealing(c) /\ job' = [job EXCEPT ![c] = NoJob]
    /\ Elsewhere(Parties(c)) /\ UNCHANGED <<here, ground>>
    /\ \/ row'[c].bag = job[c].mine.bag /\ row'[Peer(c)].bag = job[c].theirs.bag
       \/ row'[c].bag = OwnSide(c).bag /\ row'[Peer(c)].bag = PeerSide(c).bag
    /\ \A d \in Parties(c) : d \in here' => Settled(d)'

\* Characters step aside.
LEMMA AsideKeeps ==
    ASSUME TypeInv, Order, NEW A, Aside(A)
    PROVE  Order'
<1>0. TypeOK
    BY DEF TypeInv
<1>1. \A c \in Character : (Free(c)' <=> Free(c)) /\ (Dealing(c)' <=> Dealing(c))
                           /\ Parties(c)' = Parties(c) /\ Things(c)' = Things(c)
                           /\ (Working(c)' <=> Working(c))
    BY DEF Aside, Free, Dealing, Parties, Things, Working
<1>2. Disjoint'
    BY <1>1, StayDisjoint DEF Order
<1>3. \A e \in Character : Idle(e)' <=> Idle(e)
    BY <1>1 DEF Idle
<1>4. Rest'
    BY <1>3, RestKept DEF Order, Aside
<1>5. ASSUME NEW c \in Character PROVE JobInv(c)'
    <2>1. JobsTyped /\ JobInv(c) /\ job'[c] = job[c]
        BY TypeParts DEF Order, Aside
    <2>2. ~Free(c) => \A d \in Parties(c) : Untouched(d)
        BY <2>1, JobParts DEF Parties, Dealing, Aside, Clear, Elsewhere
    <2>3. Working(c) => Thinned(job[c].vid)
        <3>1. Working(c) => job[c].op \in {"drop", "pick"}
            BY <2>1, JobParts DEF Working, Dealing, Job, GroundJob, PeerJob
        <3> QED BY <2>1, <3>1, JobParts DEF Working, Aside
    <2> QED BY <2>1, <2>2, <2>3, JobKept
<1>6. ASSUME NEW i \in Item PROVE ItemInv(i)'
    <2>1. ItemInv(i)
        BY DEF Order
    <2>2. \A c \in Character : Handles(c, i)' <=> Handles(c, i)
        BY <1>1 DEF Handles, Aside
    <2>3. \A c \in Character : i \in row'[c].bag <=> i \in row[c].bag
        BY DEF Aside, Elsewhere, Untouched
    <2>4. \A c \in Character : Picking(c, "ground")' <=> Picking(c, "ground")
        BY DEF Picking, Free, Aside
    <2>5. \A v \in Vid : Lies(v, i)' => Lies(v, i)
        BY ThinnedLies DEF Aside
    <2> QED BY <1>1, <2>1, <2>2, <2>3, <2>4, <2>5, ItemKept DEF Aside
<1> QED
    BY <1>2, <1>4, <1>5, <1>6 DEF Order

\* An item is in the hands of one handler.
LEMMA SoleHandler ==
    ASSUME TypeInv, Disjoint, NEW c \in Character, NEW d \in Character, NEW i,
           Handles(c, i), Handles(d, i)
    PROVE  c = d
<1>1. \A e \in Character : Handles(e, i) => ~Free(e) /\ i \in Things(e)
    BY DEF Handles, Dealing, Working, Things
<1> QED
    BY <1>1 DEF Disjoint

\* A deal begins.
LEMMA BeginKeeps ==
    ASSUME TypeInv, Order, NEW c \in Character, DealBegins(c)
    PROVE  Order'
<1>0. PICK d \in Character : d = job'[c].peer
    BY DEF DealBegins
<1>1. /\ d # c /\ Free(c) /\ Idle(c) /\ Idle(d) /\ Dealing(c)' /\ ~Free(c)'
      /\ Parties(c)' = {c, d} /\ Things(c)' = job'[c].out \cup job'[c].in
    BY <1>0 DEF DealBegins, Dealing, Parties, Things
<1>2. \A e \in Character \ {c} :
        /\ job'[e] = job[e] /\ (Free(e)' <=> Free(e)) /\ (Dealing(e)' <=> Dealing(e))
        /\ (Working(e)' <=> Working(e))
        /\ Parties(e)' = Parties(e) /\ Things(e)' = Things(e)
    BY DEF DealBegins, OnlyJob, Free, Dealing, Working, Parties, Things
<1>3. \A e \in Character \ {c} : ~Free(e) =>
        Parties(e) \cap {c, d} = {} /\ Things(e) \cap Things(c)' = {}
    BY <1>1 DEF Idle, DealBegins
<1>4. Disjoint'
    <2> SUFFICES ASSUME NEW e \in Character, NEW f \in Character, e # f, ~Free(e)', ~Free(f)'
                 PROVE  Parties(e)' \cap Parties(f)' = {} /\ Things(e)' \cap Things(f)' = {}
        BY DEF Disjoint
    <2>1. CASE e = c
        BY <1>1, <1>2, <1>3, <2>1
    <2>2. CASE f = c
        BY <1>1, <1>2, <1>3, <2>2
    <2>3. CASE e # c /\ f # c
        BY <1>2, <2>3 DEF Order, Disjoint
    <2> QED BY <2>1, <2>2, <2>3
<1>5. Rest'
    <2>1. \A e \in Character : Idle(e)' => Idle(e)
        BY <1>1, <1>2 DEF Idle
    <2>2. ~Idle(c)'
        BY <1>1 DEF Idle
    <2>3. here' \subseteq Character
        BY DEF DealBegins, TypeInv, TypeOK
    <2> QED BY <2>1, <2>2, <2>3, RestKept DEF Order, DealBegins
<1>6. ASSUME NEW e \in Character PROVE JobInv(e)'
    <2>1. CASE e = c
        BY <2>1 DEF DealBegins
    <2>2. CASE e # c
        <3>1. \A f \in Character \ {c} : Working(f) => Thinned(job[f].vid)
            <4>1. \A f \in Character \ {c} : Working(f) => ground'[job[f].vid] = ground[job[f].vid]
                BY DEF DealBegins
            <4> QED BY <4>1 DEF Thinned
        <3> QED BY <1>3, <2>2, <3>1, OthersKept DEF DealBegins
    <2> QED BY <2>1, <2>2
<1>7. ASSUME NEW i \in Item PROVE ItemInv(i)'
    <2>0. /\ row' = row /\ ground' = ground /\ ~Handles(c, i)
          /\ \A v \in Vid : Lies(v, i)' <=> Lies(v, i)
        BY <1>1 DEF DealBegins, Handles, Lies, Free, Dealing, Working
    <2>1. CASE i \notin Things(c)'
        <3>1. \A e \in Character : Handles(e, i)' <=> Handles(e, i)
            BY <1>1, <1>2, <2>0, <2>1 DEF Handles, Working
        <3>2. ItemInv(i)
            BY DEF Order
        <3>3. \A e \in Character : Handles(e, i) =>
                /\ Parties(e)' = Parties(e) /\ (Working(e)' <=> Working(e)) /\ job'[e] = job[e]
                /\ (Picking(e, "ground")' <=> Picking(e, "ground"))
            BY <1>2, <2>0 DEF Picking
        <3> QED BY <2>0, <3>1, <3>2, <3>3, ItemKept
    <2>2. CASE i \in Things(c)'
        <3>1. i \in row[c].bag \/ i \in row[d].bag
            BY <1>0, <1>1, <2>2 DEF DealBegins
        <3>2. /\ \A e \in Character : ~Handles(e, i)
              /\ \A e \in Character \ {c, d} : i \notin row[e].bag
              /\ \A v \in Vid : ~Lies(v, i)
            BY <1>1, <3>1, OwnAtRest
        <3>3. \A e \in Character \ {c} : ~Handles(e, i)'
            BY <1>2, <3>2 DEF Handles, Working
        <3>4. Handles(c, i)' /\ ~Working(c)'
            BY <1>1, <2>2 DEF Handles, Working
        <3>5. InHand(c, i)'
            BY <1>1, <2>0, <3>2, <3>4 DEF InHand
        <3> QED BY <3>3, <3>4, <3>5 DEF ItemInv
    <2> QED BY <2>1, <2>2
<1> QED
    BY <1>4, <1>5, <1>6, <1>7 DEF Order

\* A deal goes on.
LEMMA MoveKeeps ==
    ASSUME TypeInv, Order, NEW c \in Character, DealMoves(c)
    PROVE  Order'
<1>1. /\ ~Free(c) /\ ~Free(c)' /\ Dealing(c) /\ Dealing(c)' /\ ~Working(c) /\ ~Working(c)'
      /\ Parties(c)' = Parties(c) /\ Things(c)' = Things(c)
    BY DEF DealMoves, Dealing, Working, Parties, Things, Peer
<1>2. \A e \in Character \ {c} :
        /\ job'[e] = job[e] /\ (Free(e)' <=> Free(e)) /\ (Dealing(e)' <=> Dealing(e))
        /\ (Working(e)' <=> Working(e))
        /\ Parties(e)' = Parties(e) /\ Things(e)' = Things(e)
    BY DEF DealMoves, OnlyJob, Free, Dealing, Working, Parties, Things
<1>3. Disjoint'
    BY <1>1, <1>2, StayDisjoint DEF Order
<1>4. \A e \in Character : Idle(e)' <=> Idle(e)
    BY <1>1, <1>2 DEF Idle
<1>5. Rest'
    <2>1. \A e \in Parties(c) : ~Idle(e)'
        BY <1>1, <1>4 DEF Idle
    <2>2. here' \subseteq Character
        BY DEF DealMoves, TypeInv, TypeOK
    <2> QED BY <1>4, <2>1, <2>2, RestKept DEF Order, DealMoves
<1>6. ASSUME NEW e \in Character PROVE JobInv(e)'
    <2>1. CASE e = c
        <3>1. c \in here'
            BY <1>1 DEF Order, JobInv, DealMoves
        <3> QED BY <1>1, <2>1, <3>1 DEF JobInv, DealMoves
    <2>2. CASE e # c
        <3>1. \A f \in Character \ {c} : Working(f) => Thinned(job[f].vid)
            <4>1. \A f \in Character \ {c} : Working(f) => ground'[job[f].vid] = ground[job[f].vid]
                BY DEF DealMoves
            <4> QED BY <4>1 DEF Thinned
        <3>2. \A f \in Character \ {c} : ~Free(f) => Parties(f) \cap Parties(c) = {}
            BY <1>1 DEF Order, Disjoint
        <3> QED BY <2>2, <3>1, <3>2, OthersKept DEF DealMoves
    <2> QED BY <2>1, <2>2
<1>7. ASSUME NEW i \in Item PROVE ItemInv(i)'
    <2>0. /\ ItemInv(i) /\ \A v \in Vid : Lies(v, i)' <=> Lies(v, i)
          /\ \A e \in Character : Handles(e, i)' <=> Handles(e, i)
        BY <1>1, <1>2 DEF Order, DealMoves, Lies, Handles
    <2>1. CASE i \notin Things(c)
        <3>1. i \in Item \ (job[c].out \cup job[c].in)
            BY <1>1, <2>1 DEF Things
        <3>2. \A e \in Character : i \in row'[e].bag <=> i \in row[e].bag
            BY <3>1 DEF DealMoves, Elsewhere, Untouched
        <3>3. ~Handles(c, i)
            BY <1>1, <3>1 DEF Handles
        <3>4. \A e \in Character : Handles(e, i) =>
                /\ Parties(e)' = Parties(e) /\ (Working(e)' <=> Working(e)) /\ job'[e] = job[e]
                /\ (Picking(e, "ground")' <=> Picking(e, "ground"))
            BY <1>2, <3>3 DEF Picking
        <3> QED BY <2>0, <3>2, <3>4, ItemKept
    <2>2. CASE i \in Things(c)
        <3>1. Handles(c, i)
            BY <1>1, <2>2 DEF Handles, Things
        <3>2. \A e \in Character : Handles(e, i)' => e = c
            BY <2>0, <3>1, SoleHandler DEF Order
        <3>3. InHand(c, i)'
            BY <1>1, <2>0, <3>1 DEF ItemInv, InHand, DealMoves, Elsewhere, Untouched
        <3> QED BY <2>0, <3>1, <3>2, <3>3 DEF ItemInv
    <2> QED BY <2>1, <2>2
<1> QED
    BY <1>3, <1>5, <1>6, <1>7 DEF Order

\* Both parties of a deal are characters, and its things are items.
LEMMA DealParts ==
    ASSUME TypeInv, NEW c \in Character, Dealing(c)
    PROVE  /\ ~Free(c) /\ ~Working(c) /\ Peer(c) \in Character /\ Parties(c) = {c, Peer(c)}
           /\ Things(c) = job[c].out \cup job[c].in
           /\ job[c].out \subseteq Item /\ job[c].in \subseteq Item
<1>1. JobsTyped /\ ~Free(c)
    BY TypeParts DEF Dealing
<1> QED
    BY <1>1, JobParts DEF Dealing, Working, Peer, Parties, Things

\* What the rows of a deal have in common, before and after.
LEMMA SidesApart ==
    ASSUME TypeInv, NEW c \in Character, Dealing(c), Terms(c)
    PROVE  /\ OwnSide(c).bag \cap PeerSide(c).bag = {}
           /\ job[c].mine.bag \cap job[c].theirs.bag = {}
           /\ \A i : i \notin Things(c) =>
                /\ i \in OwnSide(c).bag <=> i \in job[c].mine.bag
                /\ i \in PeerSide(c).bag <=> i \in job[c].theirs.bag
<1>1. JobsTyped
    BY TypeParts
<1> QED
    BY <1>1, SideBags, DealParts DEF Terms

\* A deal ends.
LEMMA EndKeeps ==
    ASSUME TypeInv, Order, NEW c \in Character, DealEnds(c)
    PROVE  Order'
<1>0. TypeOK /\ Dealing(c) /\ DealInv(c)
    BY DEF TypeInv, Order, JobInv, DealEnds, Dealing
<1>1. Free(c)' /\ ~Dealing(c)' /\ ~Working(c)' /\ OnlyJob(c)
    BY <1>0 DEF DealEnds, TypeOK, Free, Dealing, Working, OnlyJob
<1>2. \A e \in Character \ {c} :
        /\ job'[e] = job[e] /\ (Free(e)' <=> Free(e)) /\ (Dealing(e)' <=> Dealing(e))
        /\ (Working(e)' <=> Working(e))
        /\ Parties(e)' = Parties(e) /\ Things(e)' = Things(e)
    BY <1>1 DEF OnlyJob, Free, Dealing, Working, Parties, Things
<1>3. Disjoint'
    BY <1>1, <1>2, StayDisjoint DEF Order
<1>4. \A e \in Character \ Parties(c) : Idle(e)' => Idle(e)
    BY <1>2 DEF Idle
<1>5. Rest'
    <2>1. \A e \in Parties(c) : e \in here' => Settled(e)'
        BY DEF DealEnds
    <2>2. here' \subseteq Character
        BY <1>0 DEF DealEnds, TypeOK
    <2> QED BY <1>4, <2>1, <2>2, RestKept DEF Order, DealEnds
<1>6. ASSUME NEW e \in Character PROVE JobInv(e)'
    <2>1. CASE e = c
        BY <1>1, <2>1 DEF JobInv
    <2>2. CASE e # c
        <3>1. \A f \in Character \ {c} : Working(f) => Thinned(job[f].vid)
            <4>1. \A f \in Character \ {c} : Working(f) => ground'[job[f].vid] = ground[job[f].vid]
                BY DEF DealEnds
            <4> QED BY <4>1 DEF Thinned
        <3>2. \A f \in Character \ {c} : ~Free(f) => Parties(f) \cap Parties(c) = {}
            BY <1>0, DealParts DEF Order, Disjoint
        <3> QED BY <1>1, <2>2, <3>1, <3>2, OthersKept DEF DealEnds
    <2> QED BY <2>1, <2>2
<1>7. ASSUME NEW i \in Item PROVE ItemInv(i)'
    <2>0. /\ ItemInv(i) /\ ~Handles(c, i)'
          /\ \A v \in Vid : Lies(v, i)' <=> Lies(v, i)
          /\ \A e \in Character \ {c} : Handles(e, i)' <=> Handles(e, i)
        BY <1>1, <1>2 DEF Order, DealEnds, Lies, Handles
    <2>1. CASE i \notin Things(c)
        <3>1. \A e \in Character : i \in row'[e].bag <=> i \in row[e].bag
            <4>1. /\ i \in row'[c].bag <=> i \in row[c].bag
                  /\ i \in row'[Peer(c)].bag <=> i \in row[Peer(c)].bag
                BY <1>0, <2>1, SidesApart DEF DealInv, RowsSaved, DealEnds
            <4>2. \A e \in Character \ {c, Peer(c)} : row'[e] = row[e]
                BY <1>0, DealParts DEF DealEnds, Elsewhere, Untouched
            <4> QED BY <4>1, <4>2
        <3>2. ~Handles(c, i)
            BY <1>0, <2>1, DealParts DEF Handles
        <3>3. \A e \in Character : Handles(e, i) =>
                /\ Parties(e)' = Parties(e) /\ (Working(e)' <=> Working(e)) /\ job'[e] = job[e]
                /\ (Picking(e, "ground")' <=> Picking(e, "ground"))
            BY <1>2, <3>2 DEF Picking
        <3> QED BY <2>0, <3>1, <3>2, <3>3, ItemKept
    <2>2. CASE i \in Things(c)
        <3>1. Handles(c, i)
            BY <1>0, <2>2, DealParts DEF Handles
        <3>2. \A e \in Character : ~Handles(e, i)'
            BY <2>0, <3>1, SoleHandler DEF Order
        <3>3. /\ \A e \in Character \ {c, Peer(c)} : i \notin row'[e].bag
              /\ \A v \in Vid : ~Lies(v, i)'
            BY <1>0, <2>0, <3>1, DealParts DEF ItemInv, InHand, DealEnds, Elsewhere, Untouched
        <3>4. row'[c].bag \cap row'[Peer(c)].bag = {}
            BY <1>0, SidesApart DEF DealInv, DealEnds
        <3>5. AtRest(i)'
            BY <3>3, <3>4 DEF AtRest
        <3> QED BY <3>2, <3>5 DEF ItemInv
    <2> QED BY <2>1, <2>2
<1> QED
    BY <1>3, <1>5, <1>6, <1>7 DEF Order

InDrop(c, i) == Handles(c, i) /\ Working(c) /\ job[c].op = "drop"

\* A drop or a pickup of i begins, goes on or ends.
WorkMoves(c, i) ==
    /\ ~Dealing(c) /\ ~Dealing(c)' /\ OnlyJob(c) /\ Elsewhere({c}) /\ here' = here
    /\ JobInv(c)' /\ Settled(c)'
    /\ \A d \in Character \ {c} : ~Free(d) =>
          c \notin Parties(d) /\ Things(d) \cap Things(c)' = {} /\ ~Handles(d, i)
    /\ \A d \in Character \ {c} : Working(d) => Thinned(job[d].vid)
    /\ \A d \in Character \ {c} : i \notin row[d].bag
    /\ \A j \in Item \ {i} :
          /\ ~Handles(c, j) /\ ~Handles(c, j)' /\ (j \in row'[c].bag <=> j \in row[c].bag)
          /\ \A v \in Vid : Lies(v, j)' => Lies(v, j)
    /\ Handles(c, i)' =>
          /\ i \in row'[c].bag <=> Picking(c, "ground")'
          /\ \A v \in Vid : Lies(v, i)' => job'[c].op = "pick" /\ v = job'[c].vid
    /\ ~Handles(c, i)' =>
          /\ \A v, w \in Vid : Lies(v, i)' /\ Lies(w, i)' => v = w
          /\ \A v \in Vid : Lies(v, i)' => i \notin row'[c].bag
    /\ i \in row'[c].bag /\ i \notin row[c].bag => Picking(c, "save") /\ Handles(c, i)
    /\ i \in row[c].bag \/ InDrop(c, i) =>
          i \in row'[c].bag \/ InDrop(c, i)' \/ \E v \in Vid : Lies(v, i)'

\* Work on an item of the ground.
LEMMA WorkKeeps ==
    ASSUME TypeInv, Order, NEW c \in Character, NEW i \in Item, WorkMoves(c, i)
    PROVE  Order'
<1>1. \A e \in Character \ {c} :
        /\ job'[e] = job[e] /\ (Free(e)' <=> Free(e)) /\ (Dealing(e)' <=> Dealing(e))
        /\ (Working(e)' <=> Working(e)) /\ (\A j : Handles(e, j)' <=> Handles(e, j))
        /\ Parties(e)' = Parties(e) /\ Things(e)' = Things(e)
    BY DEF WorkMoves, OnlyJob, Free, Dealing, Working, Parties, Things, Handles
<1>2. Parties(c)' = {c} /\ Parties(c) = {c}
    BY DEF WorkMoves, Parties
<1>3. Disjoint'
    <2> SUFFICES ASSUME NEW e \in Character, NEW f \in Character, e # f, ~Free(e)', ~Free(f)'
                 PROVE  Parties(e)' \cap Parties(f)' = {} /\ Things(e)' \cap Things(f)' = {}
        BY DEF Disjoint
    <2>1. CASE e = c
        BY <1>1, <1>2, <2>1 DEF WorkMoves
    <2>2. CASE f = c
        BY <1>1, <1>2, <2>2 DEF WorkMoves
    <2>3. CASE e # c /\ f # c
        BY <1>1, <2>3 DEF Order, Disjoint
    <2> QED BY <2>1, <2>2, <2>3
<1>4. Rest'
    <2>1. \A e \in Character \ {c} : Idle(e)' => Idle(e)
        BY <1>1, <1>2 DEF Idle
    <2>2. here' \subseteq Character
        BY DEF WorkMoves, TypeInv, TypeOK
    <2> QED BY <2>1, <2>2, RestKept DEF Order, WorkMoves
<1>5. ASSUME NEW e \in Character PROVE JobInv(e)'
    <2>1. CASE e = c
        BY <2>1 DEF WorkMoves
    <2>2. CASE e # c
        <3>1. \A f \in Character \ {c} : ~Free(f) => Parties(f) \cap {c} = {}
            BY DEF WorkMoves
        <3> QED BY <2>2, <3>1, OthersKept DEF WorkMoves
    <2> QED BY <2>1, <2>2
<1>6. ASSUME NEW j \in Item \ {i} PROVE ItemInv(j)'
    <2>1. ItemInv(j)
        BY DEF Order
    <2>2. \A e \in Character : Handles(e, j)' <=> Handles(e, j)
        BY <1>1 DEF WorkMoves
    <2>3. \A e \in Character : Handles(e, j) =>
            /\ Parties(e)' = Parties(e) /\ (Working(e)' <=> Working(e)) /\ job'[e] = job[e]
            /\ (Picking(e, "ground")' <=> Picking(e, "ground"))
        BY <1>1 DEF WorkMoves, Picking
    <2>4. \A e \in Character : j \in row'[e].bag <=> j \in row[e].bag
        BY DEF WorkMoves, Elsewhere, Untouched
    <2>5. \A v \in Vid : Lies(v, j)' => Lies(v, j)
        BY DEF WorkMoves
    <2> QED BY <2>1, <2>2, <2>3, <2>4, <2>5, ItemKept
<1>7. ItemInv(i)'
    <2>1. /\ \A e \in Character \ {c} : ~Handles(e, i)'
          /\ \A e \in Character \ {c} : i \notin row'[e].bag
        <3>1. \A e \in Character \ {c} : ~Handles(e, i)
            BY DEF WorkMoves, Handles, Dealing, Working
        <3> QED BY <1>1, <3>1 DEF WorkMoves, Elsewhere, Untouched
    <2>2. Handles(c, i)' => InHand(c, i)'
        <3>1. Handles(c, i)' => Working(c)'
            BY DEF WorkMoves, Handles
        <3> QED BY <1>2, <2>1, <3>1 DEF WorkMoves, InHand
    <2>3. ~Handles(c, i)' => AtRest(i)'
        BY <2>1 DEF WorkMoves, AtRest
    <2> QED BY <2>1, <2>2, <2>3 DEF ItemInv
<1> QED
    BY <1>3, <1>4, <1>5, <1>6, <1>7 DEF Order

\* A character that takes part in no handler of its own leaves.
LEMMA LeaveKeeps ==
    ASSUME TypeInv, Order, NEW c \in Character, Leave(c)
    PROVE  Order'
<1>0. TypeOK /\ c \in here /\ Free(c)
    BY DEF TypeInv, Leave
<1>1. \A e \in Character :
        \/ job'[e] = job[e] /\ ~(Dealing(e) /\ job[e].peer = c)
        \/ Dealing(e) /\ job[e].peer = c /\ job'[e] = [job[e] EXCEPT !.there = FALSE]
    BY DEF Leave
<1>2. \A e \in Character : Dealing(e) =>
        /\ job'[e].op = job[e].op /\ job'[e].stage = job[e].stage /\ job'[e].peer = job[e].peer
        /\ job'[e].out = job[e].out /\ job'[e].in = job[e].in
        /\ job'[e].mine = job[e].mine /\ job'[e].theirs = job[e].theirs
        /\ job'[e].rows = job[e].rows /\ job'[e] \in Job
        /\ job'[e].there = (job[e].there /\ job[e].peer # c)
    <2> SUFFICES ASSUME NEW e \in Character, Dealing(e)
                 PROVE  /\ job'[e].op = job[e].op /\ job'[e].stage = job[e].stage
                        /\ job'[e].peer = job[e].peer
                        /\ job'[e].out = job[e].out /\ job'[e].in = job[e].in
                        /\ job'[e].mine = job[e].mine /\ job'[e].theirs = job[e].theirs
                        /\ job'[e].rows = job[e].rows /\ job'[e] \in Job
                        /\ job'[e].there = (job[e].there /\ job[e].peer # c)
        OBVIOUS
    <2>1. JobsTyped /\ job[e] \in PeerJob
        BY TypeParts, JobParts DEF Dealing
    <2>2. CASE job'[e] = job[e] /\ ~(Dealing(e) /\ job[e].peer = c)
        BY <2>1, <2>2 DEF PeerJob, Job
    <2>3. CASE job[e].peer = c /\ job'[e] = [job[e] EXCEPT !.there = FALSE]
        BY <2>1, <2>3 DEF PeerJob, Job
    <2> QED BY <1>1, <2>2, <2>3
<1>3. \A e \in Character :
        /\ (Free(e)' <=> Free(e)) /\ (Dealing(e)' <=> Dealing(e)) /\ (Working(e)' <=> Working(e))
        /\ ~Dealing(e) => job'[e] = job[e]
        /\ Parties(e)' = Parties(e) /\ Things(e)' = Things(e)
        /\ \A j : Handles(e, j)' <=> Handles(e, j)
    <2> SUFFICES ASSUME NEW e \in Character
                 PROVE  /\ Free(e)' <=> Free(e)
                        /\ Dealing(e)' <=> Dealing(e)
                        /\ Working(e)' <=> Working(e)
                        /\ ~Dealing(e) => job'[e] = job[e]
                        /\ Parties(e)' = Parties(e) /\ Things(e)' = Things(e)
                        /\ \A j : Handles(e, j)' <=> Handles(e, j)
        OBVIOUS
    <2>1. CASE Dealing(e)
        <3>1. ~Free(e)' /\ ~Free(e) /\ Dealing(e)'
            BY <1>2, <2>1, NullAssumption DEF Free, Dealing
        <3> QED BY <1>2, <2>1, <3>1 DEF Working, Parties, Things, Handles
    <2>2. CASE ~Dealing(e)
        <3>1. job'[e] = job[e]
            BY <1>1, <2>2
        <3> QED BY <2>2, <3>1 DEF Free, Dealing, Working, Parties, Things, Handles
    <2> QED BY <2>1, <2>2
<1>4. \A v \in Vid : Thinned(v)
    <2>1. ground \in [Vid -> Handle \cup {NoHandle}]
        BY <1>0 DEF TypeOK
    <2>2. \A v \in Vid : ground[v] \in Handle =>
            /\ [ground[v] EXCEPT !.bound = FALSE].item = ground[v].item
            /\ [ground[v] EXCEPT !.bound = FALSE].owner = ground[v].owner
            /\ [ground[v] EXCEPT !.bound = FALSE].exclusive = ground[v].exclusive
        BY DEF Handle
    <2>3. \A v \in Vid : v \in BoundTo(c) => ground[v] \in Handle
        BY <2>1 DEF BoundTo
    <2>4. ground' = Parked(c) \/ ground' = Removed(c)
        BY DEF Leave
    <2> QED BY <2>2, <2>3, <2>4 DEF Parked, Removed, Thinned, BoundTo
<1>5. /\ here' = here \ {c} /\ row' = row
      /\ \A e \in Character \ {c} : live'[e] = live[e] /\ seen'[e] = seen[e] /\ Untouched(e)
    BY <1>0 DEF Leave, TypeOK, Untouched
<1>6. Disjoint'
    BY <1>3, StayDisjoint DEF Order
<1>7. Rest'
    <2>1. \A e \in Character : Idle(e)' <=> Idle(e)
        BY <1>3 DEF Idle
    <2>2. here' \subseteq Character /\ c \notin here'
        BY <1>0, <1>5 DEF TypeOK
    <2> QED BY <1>5, <2>1, <2>2, RestKept DEF Order, Elsewhere
<1>8. ASSUME NEW e \in Character PROVE JobInv(e)'
    <2>0. JobInv(e) /\ JobsTyped
        BY TypeParts DEF Order
    <2>1. CASE Free(e)
        BY <1>3, <2>1 DEF JobInv
    <2>2. CASE Working(e)
        <3>1. e # c /\ job'[e] = job[e] /\ Parties(e) = {e}
            BY <1>0, <1>3, <2>2 DEF Working, Parties
        <3>2. job[e].vid \in Vid
            BY <2>0, <2>2, JobParts DEF Working, Dealing, Job, GroundJob, PeerJob
        <3> QED BY <1>4, <1>5, <2>0, <3>1, <3>2, JobKept
    <2>3. CASE Dealing(e)
        <3>0. e # c /\ e \in here /\ DealInv(e)
            BY <1>0, <2>0, <2>3 DEF JobInv, Dealing
        <3>1. OwnSide(e)' = OwnSide(e) /\ PeerSide(e)' = PeerSide(e) /\ Peer(e)' = Peer(e)
            BY <1>2, <2>3 DEF OwnSide, PeerSide, Peer
        <3>2. Terms(e)' /\ RowsSaved(e)'
            BY <1>2, <1>5, <2>3, <3>0, <3>1 DEF DealInv, Terms, RowsSaved
        <3>3. CopiesApplied(e)'
            <4>1. Peer(e) \in here' => Peer(e) \in here /\ Peer(e) \in Character \ {c}
                BY <1>0, <1>5 DEF TypeOK
            <4> QED BY <1>2, <1>5, <2>3, <3>0, <3>1, <4>1 DEF DealInv, CopiesApplied, Applied
        <3>4. job'[e].there <=> Peer(e) \in here'
            BY <1>2, <1>5, <2>3, <3>0 DEF DealInv, Peer
        <3>5. DealInv(e)'
            BY <3>0, <3>1, <3>2, <3>3, <3>4 DEF DealInv
        <3> QED BY <1>3, <1>5, <2>3, <3>0, <3>5 DEF JobInv, Working
    <2> QED BY <2>1, <2>2, <2>3 DEF Working
<1>9. ASSUME NEW i \in Item PROVE ItemInv(i)'
    <2>1. ItemInv(i)
        BY DEF Order
    <2>2. \A e \in Character : Working(e) =>
            job'[e] = job[e] /\ (Picking(e, "ground")' <=> Picking(e, "ground"))
        BY <1>3 DEF Working, Picking, Free
    <2>3. \A v \in Vid : Lies(v, i)' => Lies(v, i)
        BY <1>4, ThinnedLies
    <2> QED BY <1>3, <1>5, <2>1, <2>2, <2>3, ItemKept
<1> QED
    BY <1>6, <1>7, <1>8, <1>9 DEF Order

\* The server ends between two handlers, with the hooks of the ground run.
LEMMA CrashKeeps ==
    ASSUME Orderly, TypeInv, FloorInv, Order, Crash
    PROVE  Order'
<1>0. TypeOK
    BY DEF TypeInv
<1>1. /\ \A c \in Character : Free(c) /\ Free(c)'
      /\ ~unsaved /\ here' = {} /\ row' = row /\ ground' = file'
    BY DEF Orderly, Crash, Free
<1>2. \A v \in Vid : \A i : Lies(v, i)' => Lies(v, i)
    <2>1. file = [v \in Vid |-> Durable(ground[v])]
        BY <1>1 DEF FloorInv, FileIsGround
    <2>2. PICK expired, released \in SUBSET Vid :
            file' = [v \in Vid |->
                       IF file[v] = NoHandle \/ v \in expired THEN NoHandle
                       ELSE [file[v] EXCEPT !.exclusive = @ /\ v \notin released]]
        BY DEF Crash
    <2>3. SUFFICES ASSUME NEW v \in Vid, NEW i, Lies(v, i)' PROVE Lies(v, i)
        OBVIOUS
    <2>4. file[v] # NoHandle /\ ground'[v] = [file[v] EXCEPT !.exclusive = @ /\ v \notin released]
        BY <1>1, <2>2, <2>3 DEF Lies
    <2>5. file[v] = [ground[v] EXCEPT !.bound = FALSE] /\ ground[v] # NoHandle
        BY <2>1, <2>4 DEF Durable
    <2>6. ground[v] \in Handle
        BY <1>0, <2>5 DEF TypeOK
    <2>7. ground'[v].item = ground[v].item
        BY <2>4, <2>5, <2>6 DEF Handle
    <2> QED BY <2>3, <2>5, <2>7 DEF Lies
<1>3. Disjoint' /\ Rest'
    BY <1>1 DEF Disjoint, Rest
<1>4. \A c \in Character : JobInv(c)'
    BY <1>1 DEF JobInv
<1>5. ASSUME NEW i \in Item PROVE ItemInv(i)'
    <2>1. \A c \in Character : ~Handles(c, i) /\ ~Handles(c, i)'
        BY <1>1 DEF Handles, Dealing, Working
    <2>2. ItemInv(i)
        BY DEF Order
    <2> QED BY <1>1, <1>2, <2>1, <2>2, ItemKept
<1> QED
    BY <1>3, <1>4, <1>5 DEF Order

-----------------------------------------------------------------------------
(* Every step is one of these: in and out of the world, and the ground's clock. *)

LEMMA GroundSame ==
    ASSUME ground' = ground
    PROVE  \A v \in Vid : Thinned(v)
BY DEF Thinned

LEMMA LyingAside ==
    ASSUME TypeInv, NEW v \in Vid, ReleaseOwnership(v) \/ Despawn(v)
    PROVE  Aside({})
<1>0. TypeOK
    BY DEF TypeInv
<1>1. UNCHANGED <<here, row, live, seen, job>>
    BY DEF ReleaseOwnership, Despawn, people
<1>2. \A w \in Vid : Thinned(w)
    <2>1. CASE ReleaseOwnership(v)
        <3>1. ground[v] # NoHandle /\ ground[v] \in Handle
            BY <1>0, <2>1 DEF ReleaseOwnership, TypeOK
        <3>2. ground'[v] = [ground[v] EXCEPT !.exclusive = FALSE]
              /\ \A w \in Vid \ {v} : ground'[w] = ground[w]
            BY <1>0, <2>1 DEF ReleaseOwnership, TypeOK
        <3>3. Thinned(v)
            BY <3>1, <3>2 DEF Thinned, Handle
        <3> QED BY <3>2, <3>3 DEF Thinned
    <2>2. CASE Despawn(v)
        BY <1>0, <2>2 DEF Despawn, TypeOK, Thinned
    <2> QED BY <2>1, <2>2
<1> QED
    BY <1>0, <1>1, <1>2 DEF Aside, Clear, Elsewhere, Untouched, TypeOK

\* Nothing of a character changes.
LEMMA StillAside ==
    ASSUME TypeInv, UNCHANGED <<here, row, live, seen, job, ground>>
    PROVE  Aside({})
BY GroundSame DEF Aside, Clear, Elsewhere, Untouched, TypeInv, TypeOK

\* Joining, the HP floor and coming back: nobody else is touched, the bag is the same.
LEMMA SelfAside ==
    ASSUME Orderly, TypeInv, Order, NEW c \in Character, Join(c) \/ Fall(c) \/ Revive(c)
    PROVE  Aside({c})
<1>0. TypeOK
    BY DEF TypeInv
<1>1. Begin(c, {}, {}) /\ job' = job
    BY DEF Join, Fall, Revive
<1>2. Free(c) /\ Idle(c)
    BY <1>1, BeginAlone
<1>3. Clear({c})
    BY <1>2 DEF Idle, Clear
<1>4. \A v \in Vid : Thinned(v)
    <2>1. CASE Join(c)
        <3>1. ground' = Rebound(c)
            BY <2>1 DEF Join
        <3>2. \A v \in Vid : ground[v] \in Handle =>
                /\ [ground[v] EXCEPT !.bound = TRUE].item = ground[v].item
                /\ [ground[v] EXCEPT !.bound = TRUE].owner = ground[v].owner
                /\ [ground[v] EXCEPT !.bound = TRUE].exclusive = ground[v].exclusive
            BY DEF Handle
        <3> QED BY <1>0, <3>1, <3>2 DEF Rebound, Thinned, TypeOK
    <2>2. CASE Fall(c) \/ Revive(c)
        BY <2>2, GroundSame DEF Fall, Revive, floor
    <2> QED BY <2>1, <2>2
<1>5. Elsewhere({c}) /\ row'[c].bag = row[c].bag /\ here' \subseteq Character
    <2>1. CASE Join(c)
        BY <1>0, <2>1 DEF Join, TypeOK, Elsewhere, Untouched
    <2>2. CASE Fall(c)
        BY <1>0, <2>2 DEF Fall, TypeOK, Elsewhere, Untouched, State
    <2>3. CASE Revive(c)
        BY <1>0, <2>3 DEF Revive, TypeOK, Elsewhere, Untouched, State
    <2> QED BY <2>1, <2>2, <2>3
<1>6. Settled(c)'
    <2>1. CASE Join(c)
        BY <1>0, <2>1 DEF Join, TypeOK, Settled
    <2>2. CASE Fall(c)
        <3>1. Settled(c)
            BY <1>2, <2>2 DEF Order, Rest, Fall, Playing
        <3>2. live'[c] = [live[c] EXCEPT !.down = TRUE] /\ seen'[c] = live'[c]
            BY <1>0, <2>2 DEF Fall, TypeOK
        <3>3. live'[c].bag = live[c].bag
            BY <1>0, <3>2 DEF TypeOK, State
        <3> QED BY <1>5, <3>1, <3>2, <3>3 DEF Settled
    <2>3. CASE Revive(c)
        BY <1>0, <2>3 DEF Revive, TypeOK, Settled
    <2> QED BY <2>1, <2>2, <2>3
<1> QED
    BY <1>1, <1>3, <1>4, <1>5, <1>6 DEF Aside

\* The stock is opened, at the price of a save at most, or closed.
LEMMA ShopAside ==
    ASSUME Orderly, TypeInv, Order, NEW c \in Character,
           CloseShop(c) \/ \E stock \in SUBSET Item : OpenShop(c, stock)
    PROVE  Aside({})
<1>0. TypeOK
    BY DEF TypeInv
<1>1. CASE CloseShop(c)
    BY <1>1, StillAside DEF CloseShop, floor
<1>2. ASSUME NEW stock \in SUBSET Item, OpenShop(c, stock) PROVE Aside({})
    <2>1. Settled(c)
        BY <1>2, BeginAlone DEF OpenShop, Playing, Order, Rest
    <2>2. UNCHANGED <<here, job, ground>>
        BY <1>2 DEF OpenShop, floor
    <2>3. UNCHANGED <<row, live, seen>>
        <3>1. CASE CommitOwn(c, live[c].bag)
            <4>1. live[c] \in State /\ row[c] \in State
                BY <1>0 DEF TypeOK
            <4>2. [live[c] EXCEPT !.bag = live[c].bag] = live[c]
                  /\ [row[c] EXCEPT !.bag = live[c].bag] = row[c]
                BY <2>1, <4>1 DEF State, Settled
            <4>3. row' = row /\ live' = live
                BY <1>0, <3>1, <4>2 DEF CommitOwn, TypeOK
            <4>4. seen' = seen
                BY <1>0, <2>1, <3>1, <4>3 DEF CommitOwn, TypeOK, Settled
            <4> QED BY <4>3, <4>4
        <3> QED BY <1>2, <3>1 DEF OpenShop
    <2> QED BY <2>2, <2>3, StillAside
<1> QED
    BY <1>1, <1>2

-----------------------------------------------------------------------------
(* Drops and pickups.                                                      *)

\* A handler that works on the ground has the item and the handle to itself.
LEMMA WorkAlone ==
    ASSUME TypeInv, Order, NEW c \in Character, Working(c)
    PROVE  /\ ~Free(c) /\ ~Dealing(c) /\ job[c].op \in {"drop", "pick"}
           /\ job[c].item \in Item /\ job[c].vid \in Vid /\ c \in here /\ WorkInv(c)
           /\ Handles(c, job[c].item) /\ InHand(c, job[c].item)
           /\ \A i : Handles(c, i) => i = job[c].item
           /\ Parties(c) = {c} /\ Things(c) = {job[c].item, job[c].vid}
           /\ \A d \in Character \ {c} : ~Free(d) =>
                c \notin Parties(d) /\ Things(d) \cap {job[c].item, job[c].vid} = {}
           /\ \A d \in Character \ {c} : ~Handles(d, job[c].item)
           /\ \A d \in Character \ {c} : Working(d) => job[d].vid # job[c].vid
           /\ \A d \in Character \ {c} : job[c].item \notin row[d].bag
<1>1. JobsTyped /\ ~Free(c) /\ ~Dealing(c)
    BY TypeParts DEF Working
<1>2. job[c].op \in {"drop", "pick"}
    BY <1>1, JobParts DEF Dealing, Job, GroundJob, PeerJob
<1>3. /\ job[c].item \in Item /\ job[c].vid \in Vid /\ c \in here /\ WorkInv(c)
      /\ Parties(c) = {c} /\ Things(c) = {job[c].item, job[c].vid}
      /\ Handles(c, job[c].item) /\ \A i : Handles(c, i) => i = job[c].item
    BY <1>1, <1>2, JobParts DEF Order, JobInv, Parties, Things, Handles, Working
<1>4. InHand(c, job[c].item)
    BY <1>3 DEF Order, ItemInv
<1>5. \A d \in Character \ {c} : ~Free(d) =>
        c \notin Parties(d) /\ Things(d) \cap {job[c].item, job[c].vid} = {}
    BY <1>1, <1>3 DEF Order, Disjoint
<1>6. \A d \in Character \ {c} : ~Handles(d, job[c].item)
    BY <1>3, SoleHandler DEF Order
<1>7. \A d \in Character \ {c} : Working(d) => job[d].vid # job[c].vid
    BY <1>5 DEF Working, Things
<1>8. \A d \in Character \ {c} : job[c].item \notin row[d].bag
    BY <1>3, <1>4 DEF InHand
<1> QED
    BY <1>1, <1>2, <1>3, <1>4, <1>5, <1>6, <1>7, <1>8

\* A character without a handler of its own or of another's.
LEMMA IdleAlone ==
    ASSUME NEW c \in Character, Idle(c)
    PROVE  /\ Free(c) /\ ~Dealing(c) /\ ~Working(c) /\ (\A i : ~Handles(c, i))
           /\ \A d \in Character \ {c} : ~Free(d) => c \notin Parties(d)
BY IdleFree DEF Idle, Dealing, Working, Handles

LEMMA DropMoves ==
    ASSUME Orderly, TypeInv, Order, NEW c \in Character, NEW i \in Item, NEW v \in Vid,
           Drop(c, i, v)
    PROVE  WorkMoves(c, i)
<1>0. TypeOK
    BY DEF TypeInv
<1>1. Begin(c, {}, {i, v}) /\ Playing(c) /\ i \in live[c].bag /\ ground[v] = NoHandle
    BY DEF Drop
<1>2. /\ Idle(c) /\ Settled(c)
      /\ \A d \in Character : ~Free(d) => Things(d) \cap {i, v} = {}
    BY <1>1, BeginAlone DEF Order, Rest, Playing
<1>3. i \in row[c].bag
    BY <1>1, <1>2 DEF Settled
<1>4. /\ \A e \in Character : ~Handles(e, i)
      /\ \A d \in Character \ {c} : i \notin row[d].bag
      /\ \A w \in Vid : ~Lies(w, i)
    BY <1>2, <1>3, OwnAtRest
<1>5. /\ job' = [job EXCEPT ![c] = [op |-> "drop", stage |-> "ground", item |-> i, vid |-> v]]
      /\ UNCHANGED <<here, ground>> /\ CommitOwn(c, live[c].bag \ {i})
    BY DEF Drop, floor
<1>6. job'[c] = [op |-> "drop", stage |-> "ground", item |-> i, vid |-> v]
    BY <1>0, <1>5 DEF TypeOK
<1>7. /\ Working(c)' /\ ~Free(c)' /\ ~Dealing(c)' /\ OnlyJob(c)
      /\ Things(c)' = {i, v} /\ ~Picking(c, "ground")'
      /\ \A j : Handles(c, j)' <=> j = i
    <2>1. job'[c] # NoJob
        <3>1. [op |-> "drop", stage |-> "ground", item |-> i, vid |-> v] \in Job
            BY DEF Job, GroundJob
        <3> QED BY <1>6, <3>1, NullAssumption
    <2>2. job'[c].op = "drop" /\ job'[c].item = i /\ job'[c].vid = v
        BY <1>6
    <2>3. ~Free(c)' /\ ~Dealing(c)' /\ Working(c)'
        BY <2>1, <2>2 DEF Free, Dealing, Working
    <2>4. OnlyJob(c)
        BY <1>0, <1>5 DEF OnlyJob, TypeOK
    <2> QED BY <2>2, <2>3, <2>4 DEF Things, Picking, Handles
<1>8. /\ row'[c].bag = row[c].bag \ {i} /\ live'[c].bag = row'[c].bag /\ seen'[c] = live'[c]
      /\ live'[c].down = live[c].down /\ Elsewhere({c})
    BY <1>0, <1>2, <1>5 DEF CommitOwn, TypeOK, State, Settled, Elsewhere, Untouched
<1>9. Settled(c)' /\ ~live'[c].down
    BY <1>1, <1>8 DEF Settled, Playing
<1>10. JobInv(c)'
    BY <1>1, <1>5, <1>6, <1>7, <1>9 DEF JobInv, WorkInv, Playing
<1>11. \A j : \A w \in Vid : Lies(w, j)' <=> Lies(w, j)
    BY <1>5 DEF Lies
<1>12. i \notin row'[c].bag /\ InDrop(c, i)'
    BY <1>6, <1>7, <1>8 DEF InDrop
<1> QED
    BY <1>2, <1>4, <1>5, <1>6, <1>7, <1>8, <1>9, <1>10, <1>11, <1>12, IdleAlone, GroundSame
       DEF WorkMoves, Thinned

LEMMA ResolveMoves ==
    ASSUME Orderly, TypeInv, Order, NEW c \in Character, NEW v \in Vid, PickResolve(c, v),
           NEW i \in Item, i = ground[v].item
    PROVE  WorkMoves(c, i)
<1>0. TypeOK
    BY DEF TypeInv
<1>1. /\ Begin(c, {}, {i, v}) /\ Playing(c) /\ ground[v] # NoHandle /\ ~Blocks(ground[v], c)
    BY DEF PickResolve
<1>2. /\ Idle(c) /\ Settled(c)
      /\ \A d \in Character : ~Free(d) => Things(d) \cap {i, v} = {}
    BY <1>1, BeginAlone DEF Order, Rest, Playing
<1>3. \A e \in Character : ~Handles(e, i)
    BY <1>2 DEF Handles, Dealing, Working, Things
<1>4. AtRest(i) /\ Lies(v, i)
    BY <1>1, <1>3 DEF Order, ItemInv, Lies
<1>5. /\ job' = [job EXCEPT ![c] = [op |-> "pick", stage |-> "save", item |-> i, vid |-> v]]
      /\ UNCHANGED <<here, row, live, seen, ground>>
    BY DEF PickResolve, floor, people
<1>6. job'[c] = [op |-> "pick", stage |-> "save", item |-> i, vid |-> v]
    BY <1>0, <1>5 DEF TypeOK
<1>7. /\ Working(c)' /\ ~Free(c)' /\ ~Dealing(c)' /\ OnlyJob(c)
      /\ Things(c)' = {i, v} /\ ~Picking(c, "ground")'
      /\ \A j : Handles(c, j)' <=> j = i
    <2>1. job'[c] # NoJob
        <3>1. [op |-> "pick", stage |-> "save", item |-> i, vid |-> v] \in Job
            BY <1>1 DEF Job, GroundJob
        <3> QED BY <1>6, <3>1, NullAssumption
    <2>2. job'[c].op = "pick" /\ job'[c].item = i /\ job'[c].vid = v /\ job'[c].stage = "save"
        BY <1>6
    <2>3. ~Free(c)' /\ ~Dealing(c)' /\ Working(c)'
        BY <2>1, <2>2 DEF Free, Dealing, Working
    <2>4. OnlyJob(c)
        BY <1>0, <1>5 DEF OnlyJob, TypeOK
    <2> QED BY <2>2, <2>3, <2>4 DEF Things, Picking, Handles
<1>8. Settled(c)' /\ ~live'[c].down /\ Elsewhere({c})
    BY <1>1, <1>2, <1>5 DEF Settled, Playing, Elsewhere, Untouched
<1>9. JobInv(c)'
    <2>1. WorkInv(c)'
        BY <1>1, <1>5, <1>6, <1>8 DEF WorkInv, Blocks
    <2> QED BY <1>1, <1>5, <1>7, <2>1 DEF JobInv, Playing
<1>10. \A j : \A w \in Vid : Lies(w, j)' <=> Lies(w, j)
    BY <1>5 DEF Lies
<1>11. /\ \A d \in Character : i \notin row[d].bag
       /\ \A w \in Vid : Lies(w, i) => w = v
    BY <1>4 DEF AtRest
<1>12. row'[c].bag = row[c].bag /\ ~InDrop(c, i)
    BY <1>3, <1>5 DEF InDrop
<1> QED
    BY <1>2, <1>3, <1>5, <1>6, <1>7, <1>8, <1>9, <1>10, <1>11, <1>12, IdleAlone, GroundSame
       DEF WorkMoves, Thinned

LEMMA RegisterMoves ==
    ASSUME TypeInv, Order, NEW c \in Character, DropRegister(c),
           NEW i \in Item, i = job[c].item
    PROVE  Working(c) /\ WorkMoves(c, i)
<1>0. TypeOK
    BY DEF TypeInv
<1>1. Working(c) /\ job[c].op = "drop"
    BY DEF DropRegister, Dropping, Working, Dealing
<1>v. PICK v : v = job[c].vid
    OBVIOUS
<1>2. /\ i \in Item /\ v \in Vid /\ ground[v] = NoHandle /\ Playing(c) /\ Settled(c)
      /\ i \notin row[c].bag /\ \A w \in Vid : ~Lies(w, i)
    BY <1>1, <1>v, WorkAlone DEF WorkInv, InHand, Picking, Playing, Settled
<1>3. /\ ground' = [ground EXCEPT ![v] = [item |-> i, owner |-> c, exclusive |-> TRUE,
                                          bound |-> TRUE]]
      /\ job' = [job EXCEPT ![c] = NoJob] /\ UNCHANGED <<here, row, live, seen>>
    BY <1>v, <1>2 DEF DropRegister, people
<1>4. /\ Free(c)' /\ ~Dealing(c)' /\ ~Working(c)' /\ OnlyJob(c) /\ Things(c)' = {}
      /\ \A j : ~Handles(c, j)'
    BY <1>0, <1>3 DEF TypeOK, Free, Dealing, Working, OnlyJob, Things, Handles
<1>5. /\ ground'[v].item = i
      /\ \A w \in Vid \ {v} : ground'[w] = ground[w]
    BY <1>0, <1>2, <1>3 DEF TypeOK
<1>6. /\ \A j \in Item \ {i} : \A w \in Vid : Lies(w, j)' => Lies(w, j)
      /\ \A w \in Vid : Lies(w, i)' => w = v
    BY <1>2, <1>5 DEF Lies
<1>7. \A d \in Character \ {c} : Working(d) => Thinned(job[d].vid)
    <2> SUFFICES ASSUME NEW d \in Character \ {c}, Working(d) PROVE Thinned(job[d].vid)
        OBVIOUS
    <2>1. job[d].vid \in Vid \ {v}
        BY <1>1, <1>v, WorkAlone
    <2> QED BY <1>5, <2>1 DEF Thinned
<1>8. JobInv(c)' /\ Settled(c)' /\ Elsewhere({c})
    BY <1>2, <1>3, <1>4 DEF JobInv, Settled, Elsewhere, Untouched
<1>9. row'[c].bag = row[c].bag /\ Lies(v, i)'
    <2>1. [item |-> i, owner |-> c, exclusive |-> TRUE, bound |-> TRUE] \in Handle
        BY DEF Handle
    <2>2. ground'[v] # NoHandle
        BY <1>0, <1>2, <1>3, <2>1, NullAssumption DEF TypeOK
    <2> QED BY <1>3, <1>5, <2>2 DEF Lies
<1> QED
    BY <1>1, <1>2, <1>3, <1>4, <1>6, <1>7, <1>8, <1>9, WorkAlone DEF WorkMoves

LEMMA SaveMoves ==
    ASSUME TypeInv, Order, NEW c \in Character, PickSave(c),
           NEW i \in Item, i = job[c].item
    PROVE  Working(c) /\ WorkMoves(c, i)
<1>0. TypeOK
    BY DEF TypeInv
<1>1. Working(c) /\ job[c].op = "pick" /\ job[c].stage = "save"
    BY DEF PickSave, Picking, Working, Dealing
<1>v. PICK v : v = job[c].vid
    OBVIOUS
<1>2. /\ i \in Item /\ v \in Vid /\ WorkInv(c) /\ Settled(c) /\ c \in here
      /\ \A w \in Vid : Lies(w, i) => w = v
    BY <1>1, <1>v, WorkAlone DEF WorkInv, InHand
<1>3. /\ CommitOwn(c, live[c].bag \cup {i}) /\ UNCHANGED <<here, ground>>
      /\ job' = [job EXCEPT ![c].stage = "ground"]
    BY DEF PickSave, floor
<1>4. job[c] \in GroundJob
    BY <1>1, TypeParts, JobParts DEF Working
<1>5. /\ job'[c].op = "pick" /\ job'[c].item = i /\ job'[c].vid = v
      /\ job'[c].stage = "ground" /\ job'[c] \in Job
    BY <1>0, <1>1, <1>v, <1>3, <1>4 DEF TypeOK, GroundJob, Job
<1>6. ~Free(c)' /\ ~Dealing(c)' /\ Working(c)' /\ Picking(c, "ground")'
    BY <1>5, NullAssumption DEF Free, Dealing, Working, Picking
<1>7. OnlyJob(c) /\ Things(c)' = {i, v} /\ \A j : Handles(c, j)' <=> j = i
    BY <1>0, <1>3, <1>5, <1>6 DEF TypeOK, OnlyJob, Things, Handles
<1>8. /\ row'[c].bag = row[c].bag \cup {i} /\ live'[c].bag = row'[c].bag
      /\ seen'[c] = live'[c] /\ live'[c].down = live[c].down /\ Elsewhere({c})
    BY <1>0, <1>2, <1>3 DEF CommitOwn, TypeOK, State, Settled, Elsewhere, Untouched
<1>9. Settled(c)' /\ JobInv(c)'
    BY <1>1, <1>v, <1>2, <1>3, <1>5, <1>6, <1>8 DEF JobInv, WorkInv, Settled, Blocks
<1>10. \A j : \A w \in Vid : Lies(w, j)' <=> Lies(w, j)
    BY <1>3 DEF Lies
<1>11. \A d \in Character \ {c} : Working(d) => Thinned(job[d].vid)
    BY <1>3 DEF Thinned
<1>12. i \in row'[c].bag /\ Picking(c, "save")
    BY <1>1, <1>8 DEF Picking, Working
<1> QED
    BY <1>1, <1>v, <1>2, <1>3, <1>5, <1>6, <1>7, <1>8, <1>9, <1>10, <1>11, <1>12, WorkAlone DEF WorkMoves

\* The pickup ends: refused with the handle as it was, or saved with the handle gone.
LEMMA PickEndMoves ==
    ASSUME TypeInv, Order, NEW c \in Character, PickRefused(c) \/ PickRemove(c),
           NEW i \in Item, i = job[c].item
    PROVE  Working(c) /\ WorkMoves(c, i)
<1>0. TypeOK
    BY DEF TypeInv
<1>1. /\ Working(c) /\ job[c].op = "pick"
      /\ PickRefused(c) => job[c].stage = "save"
      /\ PickRemove(c) => job[c].stage = "ground"
    BY DEF PickRefused, PickRemove, Picking, Working, Dealing
<1>v. PICK v : v = job[c].vid
    OBVIOUS
<1>2. /\ i \in Item /\ v \in Vid /\ Settled(c) /\ Playing(c)
      /\ i \in row[c].bag <=> job[c].stage = "ground"
      /\ \A w \in Vid : Lies(w, i) => w = v
    BY <1>1, <1>v, WorkAlone DEF WorkInv, InHand, Settled, Playing, Picking
<1>3. /\ UNCHANGED <<here, row, live, seen>> /\ job' = [job EXCEPT ![c] = NoJob]
      /\ PickRefused(c) => ground' = ground
    BY DEF PickRefused, PickRemove, people, floor
<1>4. /\ PickRemove(c) => ground'[v] = NoHandle
      /\ \A w \in Vid \ {v} : ground'[w] = ground[w]
    <2>1. CASE PickRefused(c) /\ ~PickRemove(c)
        BY <1>3, <2>1
    <2>2. CASE PickRemove(c) /\ ground[v] # NoHandle
        <3>1. ground' = [ground EXCEPT ![v] = NoHandle]
            BY <1>v, <1>2, <2>2 DEF PickRemove
        <3> QED BY <1>0, <1>2, <3>1 DEF TypeOK
    <2>3. CASE PickRemove(c) /\ ground[v] = NoHandle
        <3>1. ground' = ground
            BY <1>v, <2>3 DEF PickRemove
        <3> QED BY <2>3, <3>1
    <2> QED BY <2>1, <2>2, <2>3
<1>5. /\ Free(c)' /\ ~Dealing(c)' /\ ~Working(c)' /\ OnlyJob(c) /\ Things(c)' = {}
      /\ \A j : ~Handles(c, j)'
    BY <1>0, <1>3 DEF TypeOK, Free, Dealing, Working, OnlyJob, Things, Handles
<1>6. \A j \in Item : \A w \in Vid : Lies(w, j)' => Lies(w, j)
    <2>1. CASE PickRefused(c)
        BY <1>3, <2>1 DEF Lies
    <2>2. CASE PickRemove(c)
        BY <1>4, <2>2 DEF Lies
    <2> QED BY <2>1, <2>2
<1>7. \A w \in Vid : Lies(w, i)' => i \notin row'[c].bag
    <2>1. CASE job[c].stage = "save"
        BY <1>2, <1>3, <2>1
    <2>2. CASE PickRemove(c)
        BY <1>2, <1>4, <1>6, <2>2 DEF Lies
    <2> QED BY <1>1, <2>1, <2>2
<1>8. \A d \in Character \ {c} : Working(d) => Thinned(job[d].vid)
    <2> SUFFICES ASSUME NEW d \in Character \ {c}, Working(d) PROVE Thinned(job[d].vid)
        OBVIOUS
    <2>1. job[d].vid \in Vid \ {v}
        BY <1>1, <1>v, WorkAlone
    <2> QED BY <1>4, <2>1 DEF Thinned
<1>9. JobInv(c)' /\ Settled(c)' /\ Elsewhere({c})
    BY <1>2, <1>3, <1>5 DEF JobInv, Settled, Elsewhere, Untouched
<1>10. row'[c].bag = row[c].bag /\ ~InDrop(c, i)
    BY <1>1, <1>3 DEF InDrop
<1> QED
    BY <1>1, <1>2, <1>3, <1>5, <1>6, <1>7, <1>8, <1>9, <1>10, WorkAlone DEF WorkMoves

-----------------------------------------------------------------------------
(* Deals.                                                                  *)

\* Two idle characters in the world agree on a deal: what it copies is what they have.
LEMMA BeginForm ==
    ASSUME TypeInv, Order, NEW c \in Character, NEW d \in Character, c # d,
           Idle(c), Idle(d), c \in here, d \in here, NEW j \in PeerJob,
           job' = [job EXCEPT ![c] = j], j.stage = "own", j.peer = d, j.there = TRUE,
           j.mine = live[c], j.theirs = live[d],
           j.out \subseteq live[c].bag, j.in \subseteq live[d].bag, j.op = "give" => j.in = {},
           \A e \in Character : ~Free(e) => Things(e) \cap (j.out \cup j.in) = {},
           UNCHANGED <<here, row, seen, ground>>,
           live'[c] = IF j.op = "give" THEN Gains(Loses(live[c], j.out), j.in) ELSE live[c],
           \A e \in Character \ {c} : live'[e] = live[e]
    PROVE  DealBegins(c)
<1>0. TypeOK
    BY DEF TypeInv
<1>1. job'[c] = j /\ OnlyJob(c) /\ j # NoJob /\ j.op \in {"give", "buy", "trade"}
    BY <1>0, NullAssumption DEF TypeOK, OnlyJob, Job, PeerJob
<1>2. ~Free(c)' /\ Dealing(c)' /\ ~Working(c)' /\ Things(c)' = j.out \cup j.in
      /\ Peer(c)' = d
    BY <1>1 DEF Free, Dealing, Working, Things, Peer
<1>3. Settled(c) /\ Settled(d) /\ row[c].bag \cap row[d].bag = {}
    BY RowsApart DEF Order, Rest
<1>4. OwnSide(c)' = Gains(Loses(j.mine, j.out), j.in)
    BY <1>1 DEF OwnSide
<1>5. Terms(c)' /\ RowsSaved(c)'
    BY <1>1, <1>2, <1>3 DEF Terms, RowsSaved, Settled
<1>6. CopiesApplied(c)'
    BY <1>1, <1>2, <1>3, <1>4 DEF CopiesApplied, Applied, Settled
<1>7. DealInv(c)'
    BY <1>1, <1>2, <1>5, <1>6 DEF DealInv
<1>8. JobInv(c)'
    BY <1>2, <1>7 DEF JobInv
<1>9. Elsewhere({c})
    BY DEF Elsewhere, Untouched
<1> QED
    BY <1>1, <1>2, <1>3, <1>8, <1>9, IdleFree DEF DealBegins, Settled

LEMMA BeginDeals ==
    ASSUME Orderly, TypeInv, Order, NEW c \in Character,
           \/ \E d \in Character, i \in Item : GiveClone(c, d, i)
           \/ \E d \in Character, i \in Item, coin \in Coin : BuyResolve(c, d, i, coin)
           \/ \E d \in Character \ {c} : \E out \in Shows(c), in \in Shows(d) :
                 TradePlan(c, d, out, in)
    PROVE  DealBegins(c)
<1>0. TypeOK
    BY DEF TypeInv
<1>1. ASSUME NEW d \in Character, NEW i \in Item, GiveClone(c, d, i) PROVE DealBegins(c)
    <2>j. PICK j : j = [op |-> "give", stage |-> "own", peer |-> d, there |-> TRUE,
                        out |-> {i}, in |-> {}, mine |-> live[c], theirs |-> live[d],
                        rows |-> [own |-> row[c], peer |-> row[d]]]
        OBVIOUS
    <2>1. /\ d # c /\ Begin(c, {d}, {i}) /\ c \in here /\ d \in here /\ i \in live[c].bag
          /\ live' = [live EXCEPT ![c] = Loses(@, {i})] /\ job' = [job EXCEPT ![c] = j]
          /\ UNCHANGED <<here, row, seen, ground>>
        BY <1>1, <2>j DEF GiveClone, Playing, floor
    <2>2. /\ Idle(c) /\ Idle(d)
          /\ \A e \in Character : ~Free(e) => Things(e) \cap {i} = {}
        BY <2>1, BeginAlone
    <2>3. j \in PeerJob
        BY <1>0, <2>j DEF PeerJob, Rows, TypeOK
    <2>4. Gains(Loses(live[c], {i}), {}) = Loses(live[c], {i})
        <3>1. live[c] \in State
            BY <1>0 DEF TypeOK
        <3>2. Loses(live[c], {i}) \in State
            BY <3>1, LosesType
        <3> QED BY <3>2 DEF Gains, State
    <2>5. live'[c] = Gains(Loses(live[c], {i}), {})
          /\ \A e \in Character \ {c} : live'[e] = live[e]
        BY <1>0, <2>1, <2>4 DEF TypeOK
    <2>6. /\ j.op = "give" /\ j.stage = "own" /\ j.peer = d /\ j.there = TRUE
          /\ j.mine = live[c] /\ j.theirs = live[d] /\ j.out = {i} /\ j.in = {}
        BY <2>j
    <2>7. live'[c] = IF j.op = "give" THEN Gains(Loses(live[c], j.out), j.in) ELSE live[c]
        BY <2>5, <2>6
    <2>8. j.out \cup j.in = {i} /\ j.out \subseteq live[c].bag /\ j.in \subseteq live[d].bag
        BY <2>1, <2>6
    <2>9. \A e \in Character : ~Free(e) => Things(e) \cap (j.out \cup j.in) = {}
        BY <2>2, <2>8
    <2> QED BY <2>1, <2>2, <2>3, <2>5, <2>6, <2>7, <2>8, <2>9, BeginForm
<1>2. ASSUME NEW d \in Character, NEW out \in SUBSET Item, NEW in \in SUBSET Item,
             NEW op \in {"buy", "trade"}, d # c, Begin(c, {d}, out \cup in),
             c \in here, d \in here, out \subseteq seen[c].bag, in \subseteq seen[d].bag,
             UNCHANGED <<people, floor>>,
             job' = [job EXCEPT ![c] =
               [op |-> op, stage |-> "own", peer |-> d, there |-> TRUE, out |-> out,
                in |-> in, mine |-> seen[c], theirs |-> seen[d],
                rows |-> [own |-> row[c], peer |-> row[d]]]]
      PROVE  DealBegins(c)
    <2>j. PICK j : j = [op |-> op, stage |-> "own", peer |-> d, there |-> TRUE, out |-> out,
                        in |-> in, mine |-> seen[c], theirs |-> seen[d],
                        rows |-> [own |-> row[c], peer |-> row[d]]]
        OBVIOUS
    <2>1. UNCHANGED <<here, row, live, seen, ground>> /\ job' = [job EXCEPT ![c] = j]
        BY <1>2, <2>j DEF people, floor
    <2>2. /\ Idle(c) /\ Idle(d)
          /\ \A e \in Character : ~Free(e) => Things(e) \cap (out \cup in) = {}
        BY <1>2, BeginAlone
    <2>3. live[c] = seen[c] /\ live[d] = seen[d]
        BY <1>2, <2>2 DEF Order, Rest, Settled
    <2>4. j \in PeerJob
        BY <1>0, <2>j DEF PeerJob, Rows, TypeOK
    <2>5. /\ j.op \in {"buy", "trade"} /\ j.stage = "own" /\ j.peer = d /\ j.there = TRUE
          /\ j.mine = live[c] /\ j.theirs = live[d] /\ j.out = out /\ j.in = in
        BY <2>j, <2>3
    <2>6. live'[c] = IF j.op = "give" THEN Gains(Loses(live[c], j.out), j.in) ELSE live[c]
        BY <2>1, <2>5
    <2>7. /\ j.out \subseteq live[c].bag /\ j.in \subseteq live[d].bag
          /\ j.op = "give" => j.in = {}
        BY <1>2, <2>3, <2>5
    <2>8. \A e \in Character : ~Free(e) => Things(e) \cap (j.out \cup j.in) = {}
        BY <2>2, <2>5
    <2>9. \A e \in Character \ {c} : live'[e] = live[e]
        BY <2>1
    <2> QED BY <1>2, <2>1, <2>2, <2>4, <2>5, <2>6, <2>7, <2>8, <2>9, BeginForm
<1>3. ASSUME NEW d \in Character, NEW i \in Item, NEW coin \in Coin, BuyResolve(c, d, i, coin)
      PROVE  DealBegins(c)
    <2>1. /\ d # c /\ Begin(c, {d}, {i, coin}) /\ c \in here /\ d \in here
          /\ {coin} \subseteq seen[c].bag /\ {i} \subseteq seen[d].bag
          /\ UNCHANGED <<people, floor>>
          /\ job' = [job EXCEPT ![c] =
               [op |-> "buy", stage |-> "own", peer |-> d, there |-> TRUE, out |-> {coin},
                in |-> {i}, mine |-> seen[c], theirs |-> seen[d],
                rows |-> [own |-> row[c], peer |-> row[d]]]]
        BY <1>3 DEF BuyResolve, Playing
    <2>2. {i, coin} = {coin} \cup {i} /\ {coin} \in SUBSET Item /\ {i} \in SUBSET Item
        BY CoinAssumption
    <2>3. Begin(c, {d}, {coin} \cup {i})
        BY <2>1, <2>2
    <2> DEFINE out == {coin}
               in == {i}
    <2>4. /\ out \in SUBSET Item /\ in \in SUBSET Item /\ d # c /\ Begin(c, {d}, out \cup in)
          /\ c \in here /\ d \in here /\ out \subseteq seen[c].bag /\ in \subseteq seen[d].bag
          /\ UNCHANGED <<people, floor>>
          /\ job' = [job EXCEPT ![c] =
               [op |-> "buy", stage |-> "own", peer |-> d, there |-> TRUE, out |-> out,
                in |-> in, mine |-> seen[c], theirs |-> seen[d],
                rows |-> [own |-> row[c], peer |-> row[d]]]]
        BY <2>1, <2>2, <2>3
    <2> HIDE DEF out, in
    <2> QED BY <1>2, <2>4
<1>4. ASSUME NEW d \in Character \ {c}, NEW out \in Shows(c), NEW in \in Shows(d),
             TradePlan(c, d, out, in)
      PROVE  DealBegins(c)
    <2>1. out \in SUBSET Item /\ in \in SUBSET Item
        BY TradableAssumption DEF Shows
    <2>2. /\ d # c /\ Begin(c, {d}, out \cup in) /\ c \in here /\ d \in here
          /\ out \subseteq seen[c].bag /\ in \subseteq seen[d].bag
          /\ UNCHANGED <<people, floor>>
          /\ job' = [job EXCEPT ![c] =
               [op |-> "trade", stage |-> "own", peer |-> d, there |-> TRUE, out |-> out,
                in |-> in, mine |-> seen[c], theirs |-> seen[d],
                rows |-> [own |-> row[c], peer |-> row[d]]]]
        BY <1>4 DEF TradePlan, MayTrade
    <2> QED BY <1>2, <2>1, <2>2
<1> QED
    BY <1>1, <1>3, <1>4

\* What a deal that goes on keeps.
LEMMA GoesOn ==
    ASSUME TypeInv, NEW c \in Character, Dealing(c), NEW stage \in {"peer", "apply", "close", "show"},
           \/ Advance(c, stage)
           \/ \E rows \in Rows :
                 job' = [job EXCEPT ![c].stage = stage, ![c].rows = rows]
    PROVE  /\ Dealing(c)' /\ OnlyJob(c) /\ Peer(c)' = Peer(c) /\ job'[c].stage = stage
           /\ job'[c].op = job[c].op /\ job'[c].there = job[c].there
           /\ job'[c].out = job[c].out /\ job'[c].in = job[c].in
           /\ job'[c].mine = job[c].mine /\ job'[c].theirs = job[c].theirs
           /\ Advance(c, stage) => job'[c].rows = job[c].rows
           /\ \A rows \in Rows :
                job' = [job EXCEPT ![c].stage = stage, ![c].rows = rows] =>
                  job'[c].rows = rows
           /\ OwnSide(c)' = OwnSide(c) /\ PeerSide(c)' = PeerSide(c)
           /\ (Terms(c) => Terms(c)')
<1>0. TypeOK /\ ~Free(c) /\ job[c] \in PeerJob
    BY TypeParts, JobParts DEF TypeInv, Dealing
<1>1. /\ job'[c] \in PeerJob /\ job'[c].stage = stage
      /\ job'[c].op = job[c].op /\ job'[c].there = job[c].there /\ job'[c].peer = job[c].peer
      /\ job'[c].out = job[c].out /\ job'[c].in = job[c].in
      /\ job'[c].mine = job[c].mine /\ job'[c].theirs = job[c].theirs
      /\ \A d \in Character \ {c} : job'[d] = job[d]
    BY <1>0 DEF TypeOK, Advance, PeerJob
<1>2. Advance(c, stage) => job'[c].rows = job[c].rows
    BY <1>0 DEF TypeOK, Advance, PeerJob
<1>3. \A rows \in Rows :
        job' = [job EXCEPT ![c].stage = stage, ![c].rows = rows] => job'[c].rows = rows
    <2> SUFFICES ASSUME NEW rows \in Rows,
                        job' = [job EXCEPT ![c].stage = stage, ![c].rows = rows]
                 PROVE  job'[c].rows = rows
        OBVIOUS
    <2>1. job'[c] = [job[c] EXCEPT !.stage = stage, !.rows = rows]
        BY <1>0 DEF TypeOK
    <2> QED BY <1>0, <2>1 DEF PeerJob
<1>4. Dealing(c)'
    BY <1>0, <1>1, NullAssumption DEF Dealing, Free, Job, PeerJob
<1> QED
    BY <1>1, <1>2, <1>3, <1>4 DEF OnlyJob, Peer, OwnSide, PeerSide, Terms

\* What lies outside the deal is as it was in both rows.
LEMMA SaveWithin ==
    ASSUME TypeInv, NEW c \in Character, Dealing(c), DealInv(c),
           \A d \in Parties(c) :
               \/ row'[d].bag = row[d].bag
               \/ d = c /\ row'[c].bag = OwnSide(c).bag
               \/ d = Peer(c) /\ row'[Peer(c)].bag = PeerSide(c).bag
    PROVE  \A d \in Parties(c), i \in Item \ (job[c].out \cup job[c].in) :
               i \in row'[d].bag <=> i \in row[d].bag
BY DealParts, SidesApart DEF DealInv, RowsSaved

LEMMA SaveOwnMoves ==
    ASSUME TypeInv, Order, NEW c \in Character, Dealing(c), job[c].stage = "own",
           NEW s, s.bag = OwnSide(c).bag, LoadAndSaveOwn(c, s),
           UNCHANGED <<here, live, seen, ground>>
    PROVE  DealMoves(c)
<1>0. TypeOK /\ DealInv(c) /\ Peer(c) \in Character \ {c} /\ Parties(c) = {c, Peer(c)}
    BY DealParts DEF TypeInv, Order, JobInv, Dealing, DealInv
<1> DEFINE rows == [own |-> row[c], peer |-> row[Peer(c)]]
<1>1. rows \in Rows /\ job' = [job EXCEPT ![c].stage = "peer", ![c].rows = rows]
    BY <1>0 DEF Rows, TypeOK, LoadAndSaveOwn
<1>2. /\ Dealing(c)' /\ OnlyJob(c) /\ Peer(c)' = Peer(c) /\ job'[c].stage = "peer"
      /\ job'[c].op = job[c].op /\ job'[c].there = job[c].there
      /\ job'[c].out = job[c].out /\ job'[c].in = job[c].in
      /\ job'[c].mine = job[c].mine /\ job'[c].theirs = job[c].theirs
      /\ job'[c].rows = rows
      /\ OwnSide(c)' = OwnSide(c) /\ PeerSide(c)' = PeerSide(c) /\ Terms(c)'
    BY <1>0, <1>1, GoesOn DEF DealInv
<1>3. row'[c].bag = OwnSide(c).bag /\ \A d \in Character \ {c} : row'[d] = row[d]
    BY <1>0 DEF LoadAndSaveOwn, TypeOK
<1>4. RowsSaved(c)'
    BY <1>0, <1>2, <1>3 DEF RowsSaved, DealInv
<1>5. CopiesApplied(c)'
    BY <1>0, <1>2 DEF CopiesApplied, Applied, DealInv
<1>6. DealInv(c)'
    BY <1>0, <1>2, <1>4, <1>5 DEF DealInv
<1>7. Elsewhere(Parties(c))
    BY <1>0, <1>3 DEF Elsewhere, Untouched
<1>8. \A d \in Parties(c), i \in Item \ (job[c].out \cup job[c].in) :
        i \in row'[d].bag <=> i \in row[d].bag
    BY <1>0, <1>3, SaveWithin
<1> QED
    BY <1>2, <1>6, <1>7, <1>8 DEF DealMoves

LEMMA SavePeerMoves ==
    ASSUME TypeInv, Order, NEW c \in Character, Dealing(c), job[c].stage = "peer",
           row' = [row EXCEPT ![Peer(c)] = PeerSide(c)], Advance(c, "apply"),
           UNCHANGED <<here, live, seen, ground>>
    PROVE  DealMoves(c)
<1>0. TypeOK /\ DealInv(c) /\ Peer(c) \in Character \ {c} /\ Parties(c) = {c, Peer(c)}
    BY DealParts DEF TypeInv, Order, JobInv, Dealing, DealInv
<1>2. /\ Dealing(c)' /\ OnlyJob(c) /\ Peer(c)' = Peer(c) /\ job'[c].stage = "apply"
      /\ job'[c].op = job[c].op /\ job'[c].there = job[c].there
      /\ job'[c].out = job[c].out /\ job'[c].in = job[c].in
      /\ job'[c].mine = job[c].mine /\ job'[c].theirs = job[c].theirs
      /\ job'[c].rows = job[c].rows
      /\ OwnSide(c)' = OwnSide(c) /\ PeerSide(c)' = PeerSide(c) /\ Terms(c)'
    BY <1>0, GoesOn DEF DealInv
<1>3. row'[Peer(c)].bag = PeerSide(c).bag /\ \A d \in Character \ {Peer(c)} : row'[d] = row[d]
    BY <1>0 DEF TypeOK
<1>4. RowsSaved(c)'
    BY <1>0, <1>2, <1>3 DEF RowsSaved, DealInv
<1>5. CopiesApplied(c)'
    BY <1>0, <1>2 DEF CopiesApplied, Applied, DealInv
<1>6. DealInv(c)'
    BY <1>0, <1>2, <1>4, <1>5 DEF DealInv
<1>7. Elsewhere(Parties(c))
    BY <1>0, <1>3 DEF Elsewhere, Untouched
<1>8. \A d \in Parties(c), i \in Item \ (job[c].out \cup job[c].in) :
        i \in row'[d].bag <=> i \in row[d].bag
    BY <1>0, <1>3, SaveWithin
<1> QED
    BY <1>2, <1>6, <1>7, <1>8 DEF DealMoves

LEMMA ApplyMoves ==
    ASSUME TypeInv, Order, NEW c \in Character, Dealing(c), job[c].stage = "apply",
           Advance(c, "close"), UNCHANGED <<here, row, seen, ground>>,
           live'[c] = OwnSide(c), live'[Peer(c)] = PeerSide(c),
           \A d \in Character \ Parties(c) : live'[d] = live[d]
    PROVE  DealMoves(c)
<1>0. TypeOK /\ DealInv(c) /\ Peer(c) \in Character \ {c} /\ Parties(c) = {c, Peer(c)}
    BY DealParts DEF TypeInv, Order, JobInv, Dealing, DealInv
<1>2. /\ Dealing(c)' /\ OnlyJob(c) /\ Peer(c)' = Peer(c) /\ job'[c].stage = "close"
      /\ job'[c].op = job[c].op /\ job'[c].there = job[c].there
      /\ job'[c].out = job[c].out /\ job'[c].in = job[c].in
      /\ job'[c].mine = job[c].mine /\ job'[c].theirs = job[c].theirs
      /\ job'[c].rows = job[c].rows
      /\ OwnSide(c)' = OwnSide(c) /\ PeerSide(c)' = PeerSide(c) /\ Terms(c)'
    BY <1>0, GoesOn DEF DealInv
<1>4. RowsSaved(c)'
    BY <1>0, <1>2 DEF RowsSaved, DealInv
<1>5. CopiesApplied(c)'
    BY <1>0, <1>2 DEF CopiesApplied, Applied, DealInv
<1>6. DealInv(c)'
    BY <1>0, <1>2, <1>4, <1>5 DEF DealInv
<1>7. Elsewhere(Parties(c))
    BY DEF Elsewhere, Untouched
<1>8. \A d \in Parties(c), i \in Item \ (job[c].out \cup job[c].in) :
        i \in row'[d].bag <=> i \in row[d].bag
    OBVIOUS
<1> QED
    BY <1>2, <1>6, <1>7, <1>8 DEF DealMoves

\* The shared world's copy of the peer is replaced.
LEMMA CloseMoves ==
    ASSUME TypeInv, Order, NEW c \in Character, Dealing(c), job[c].stage = "close",
           Advance(c, "show"), UNCHANGED <<here, row, live, ground>>,
           Peer(c) \in here => seen'[Peer(c)] = PeerSide(c),
           \A d \in Character \ {Peer(c)} : seen'[d] = seen[d]
    PROVE  DealMoves(c)
<1>0. TypeOK /\ DealInv(c) /\ Peer(c) \in Character \ {c} /\ Parties(c) = {c, Peer(c)}
    BY DealParts DEF TypeInv, Order, JobInv, Dealing, DealInv
<1>2. /\ Dealing(c)' /\ OnlyJob(c) /\ Peer(c)' = Peer(c) /\ job'[c].stage = "show"
      /\ job'[c].op = job[c].op /\ job'[c].there = job[c].there
      /\ job'[c].out = job[c].out /\ job'[c].in = job[c].in
      /\ job'[c].mine = job[c].mine /\ job'[c].theirs = job[c].theirs
      /\ job'[c].rows = job[c].rows
      /\ OwnSide(c)' = OwnSide(c) /\ PeerSide(c)' = PeerSide(c) /\ Terms(c)'
    BY <1>0, GoesOn DEF DealInv
<1>3. RowsSaved(c)'
    BY <1>0, <1>2 DEF RowsSaved, DealInv
<1>4. CopiesApplied(c)'
    BY <1>0, <1>2 DEF CopiesApplied, Applied, DealInv
<1>5. DealInv(c)'
    BY <1>0, <1>2, <1>3, <1>4 DEF DealInv
<1>6. Elsewhere(Parties(c))
    BY <1>0 DEF Elsewhere, Untouched
<1>7. \A d \in Parties(c), i \in Item \ (job[c].out \cup job[c].in) :
        i \in row'[d].bag <=> i \in row[d].bag
    OBVIOUS
<1> QED
    BY <1>2, <1>5, <1>6, <1>7 DEF DealMoves

\* A deal of which nothing is left.
LEMMA Undone ==
    ASSUME TypeInv, Order, NEW c \in Character, Dealing(c), Finish(c), job[c].stage # "show",
           UNCHANGED <<here, seen, ground>>,
           row'[c].bag = job[c].mine.bag, row'[Peer(c)].bag = job[c].theirs.bag,
           live'[c] = job[c].mine, Peer(c) \in here => live'[Peer(c)] = job[c].theirs,
           \A d \in Character \ Parties(c) : row'[d] = row[d] /\ live'[d] = live[d]
    PROVE  DealEnds(c)
<1>1. DealInv(c) /\ Parties(c) = {c, Peer(c)}
    BY DealParts DEF Order, JobInv, Dealing
<1>2. \A d \in Parties(c) : d \in here' => Settled(d)'
    <2>1. Settled(c)'
        BY <1>1 DEF Settled, DealInv, CopiesApplied
    <2>2. \A d : d = Peer(c) /\ d \in here => Settled(d)'
        BY <1>1 DEF Settled, DealInv, CopiesApplied
    <2> QED BY <1>1, <2>1, <2>2
<1>3. Elsewhere(Parties(c))
    BY DEF Elsewhere, Untouched
<1> QED
    BY <1>2, <1>3 DEF DealEnds, Finish

\* A deal of which everything is done.
LEMMA Done ==
    ASSUME TypeInv, Order, NEW c \in Character, Dealing(c), Applied(c), Finish(c),
           UNCHANGED <<here, row, live, ground>>,
           seen'[c] = OwnSide(c), Peer(c) \in here => seen'[Peer(c)] = PeerSide(c),
           \A d \in Character \ Parties(c) : seen'[d] = seen[d]
    PROVE  DealEnds(c)
<1>1. DealInv(c) /\ Parties(c) = {c, Peer(c)}
    BY DealParts DEF Order, JobInv, Dealing
<1>2. /\ row[c].bag = OwnSide(c).bag /\ row[Peer(c)].bag = PeerSide(c).bag
      /\ live[c] = OwnSide(c) /\ (Peer(c) \in here => live[Peer(c)] = PeerSide(c))
    BY <1>1 DEF DealInv, RowsSaved, CopiesApplied, Applied
<1>3. \A d \in Parties(c) : d \in here' => Settled(d)'
    <2>1. Settled(c)'
        BY <1>2 DEF Settled
    <2>2. \A d : d = Peer(c) /\ d \in here => Settled(d)'
        BY <1>2 DEF Settled
    <2> QED BY <1>1, <2>1, <2>2
<1>4. Elsewhere(Parties(c))
    BY DEF Elsewhere, Untouched
<1> QED
    BY <1>2, <1>3, <1>4 DEF DealEnds, Finish

\* The saves that undo a deal put the rows back that were loaded before it.
LEMMA RowsBack ==
    ASSUME Orderly, TypeInv, Order, NEW c \in Character, Dealing(c),
           \/ UndoBoth(c) /\ job[c].stage # "own"
           \/ UndoOwn(c) /\ job[c].stage = "peer"
    PROVE  /\ row'[c].bag = job[c].mine.bag /\ row'[Peer(c)].bag = job[c].theirs.bag
           /\ \A d \in Character \ Parties(c) : row'[d] = row[d]
<1>0. TypeOK /\ DealInv(c) /\ Peer(c) \in Character \ {c} /\ Parties(c) = {c, Peer(c)}
    BY DealParts DEF TypeInv, Order, JobInv, Dealing, DealInv
<1>1. CASE UndoBoth(c) /\ job[c].stage # "own"
    <2>1. row' = [d \in Character |->
                    IF d \notin Parties(c) THEN row[d]
                    ELSE IF d = c THEN job[c].rows.own ELSE job[c].rows.peer]
        BY <1>1 DEF UndoBoth, Orderly
    <2> QED BY <1>0, <1>1, <2>1 DEF DealInv, RowsSaved
<1>2. CASE UndoOwn(c) /\ job[c].stage = "peer"
    <2>1. row' = [row EXCEPT ![c] = job[c].rows.own]
        BY <1>2 DEF UndoOwn, Orderly
    <2> QED BY <1>0, <1>2, <2>1 DEF DealInv, RowsSaved, TypeOK
<1> QED
    BY <1>1, <1>2

\* How far the copies of a deal's parties are.
LEMMA DealState ==
    ASSUME TypeInv, Order, NEW c \in Character, Dealing(c)
    PROVE  /\ TypeOK /\ DealInv(c) /\ c \in here
           /\ Peer(c) \in Character \ {c} /\ Parties(c) = {c, Peer(c)}
           /\ job[c].op # "give" /\ ~Applied(c) => live[c] = job[c].mine
           /\ job[c].op = "give" \/ Applied(c) => live[c] = OwnSide(c)
           /\ Peer(c) \in here =>
                /\ ~Applied(c) => live[Peer(c)] = job[c].theirs
                /\ Applied(c) => live[Peer(c)] = PeerSide(c)
                /\ job[c].stage = "show" => seen[Peer(c)] = PeerSide(c)
BY DealParts DEF TypeInv, Order, JobInv, Dealing, DealInv, CopiesApplied, Applied

\* The shared world's copy of the dealer is the last to be replaced.
LEMMA ShowEnds ==
    ASSUME TypeInv, Order, NEW c \in Character, NEW op \in {"give", "buy"}, ShowOwn(c, op)
    PROVE  DealEnds(c)
<1>1. Dealing(c) /\ job[c].stage = "show"
    BY DEF ShowOwn, At, Dealing, Free
<1>2. Applied(c)
    BY <1>1 DEF Applied
<1>3. /\ live[c] = OwnSide(c) /\ (Peer(c) \in here => seen[Peer(c)] = PeerSide(c))
      /\ TypeOK /\ Peer(c) # c /\ Parties(c) = {c, Peer(c)}
    BY <1>1, <1>2, DealState
<1>4. seen'[c] = OwnSide(c) /\ \A d \in Character \ {c} : seen'[d] = seen[d]
    BY <1>3 DEF ShowOwn, TypeOK
<1>5. Finish(c) /\ UNCHANGED <<here, row, live, ground>>
    BY DEF ShowOwn, floor
<1>6. Peer(c) \in here => seen'[Peer(c)] = PeerSide(c)
    BY <1>1, <1>3, <1>4, DealState
<1> QED
    BY <1>1, <1>2, <1>3, <1>4, <1>5, <1>6, Done

LEMMA GivingDeals ==
    ASSUME Orderly, TypeInv, Order, NEW c \in Character, Giving(c)
    PROVE  DealBegins(c) \/ DealMoves(c) \/ DealEnds(c)
<1>1. CASE \E d \in Character, i \in Item : GiveClone(c, d, i)
    BY <1>1, BeginDeals
<1>2. CASE GiveSaveOwn(c)
    <2>1. Dealing(c) /\ job[c].op = "give" /\ job[c].stage = "own"
        BY <1>2 DEF GiveSaveOwn, At, Dealing, Free
    <2>2. live[c] = OwnSide(c) /\ TypeOK
        BY <2>1, DealState
    <2>3. [row[c] EXCEPT !.bag = live[c].bag].bag = OwnSide(c).bag
        BY <2>2 DEF TypeOK, State
    <2>4. PICK s : s = [row[c] EXCEPT !.bag = live[c].bag]
        OBVIOUS
    <2> QED BY <1>2, <2>1, <2>3, <2>4, SaveOwnMoves DEF GiveSaveOwn, floor
<1>3. CASE GiveOwnRefused(c)
    <2>1. Dealing(c) /\ job[c].op = "give" /\ job[c].stage = "own"
        BY <1>3 DEF GiveOwnRefused, At, Dealing, Free
    <2> QED BY <1>3, <2>1, DealState, Undone
            DEF GiveOwnRefused, GiverBack, floor, DealInv, RowsSaved, Applied, TypeOK
<1>4. CASE GiveSavePeer(c)
    <2>1. Dealing(c) /\ job[c].stage = "peer"
        BY <1>4 DEF GiveSavePeer, At, Dealing, Free
    <2> QED BY <1>4, <2>1, SavePeerMoves DEF GiveSavePeer, floor
<1>5. CASE GivePeerRefused(c)
    <2>1. Dealing(c) /\ job[c].stage = "peer"
        BY <1>5 DEF GivePeerRefused, At, Dealing, Free
    <2> QED BY <1>5, <2>1, DealState, RowsBack, Undone
            DEF GivePeerRefused, GiverBack, floor, Applied, TypeOK
<1>6. CASE GiveApply(c)
    <2>1. Dealing(c) /\ job[c].op = "give" /\ job[c].stage = "apply"
        BY <1>6 DEF GiveApply, At, Dealing, Free
    <2> QED BY <1>6, <2>1, DealState, ApplyMoves DEF GiveApply, floor, Applied, TypeOK
<1>7. CASE GiveApplyRefused(c)
    <2>1. Dealing(c) /\ job[c].stage = "apply"
        BY <1>7 DEF GiveApplyRefused, At, Dealing, Free
    <2> QED BY <1>7, <2>1, DealState, RowsBack, Undone
            DEF GiveApplyRefused, GiverBack, PeerGone, floor, Applied, TypeOK
<1>8. CASE GiveClose(c)
    <2>1. Dealing(c) /\ job[c].op = "give" /\ job[c].stage = "close"
        BY <1>8 DEF GiveClose, At, Dealing, Free
    <2>2. job[c].there <=> Peer(c) \in here
        BY <2>1, DealState DEF DealInv
    <2>3. /\ Peer(c) \in here => seen'[Peer(c)] = PeerSide(c)
          /\ \A d \in Character \ {Peer(c)} : seen'[d] = seen[d]
        BY <1>8, <2>1, <2>2, DealState DEF GiveClose, TypeOK
    <2> QED BY <1>8, <2>1, <2>3, CloseMoves DEF GiveClose, floor
<1>9. CASE ShowOwn(c, "give")
    BY <1>9, ShowEnds
<1> QED
    BY <1>1, <1>2, <1>3, <1>4, <1>5, <1>6, <1>7, <1>8, <1>9 DEF Giving

\* A purchase or a trade that is refused at the end puts both runtimes back.
LEMMA CloseUndone ==
    ASSUME Orderly, TypeInv, Order, NEW c \in Character, Dealing(c), job[c].stage = "close",
           UndoBoth(c), Finish(c), UNCHANGED <<here, seen, ground>>,
           live' = [d \in Character |-> IF d = c THEN job[c].mine
                                        ELSE IF d = Peer(c) /\ d \in here THEN job[c].theirs
                                        ELSE live[d]]
    PROVE  DealEnds(c)
BY DealState, RowsBack, Undone

LEMMA ShoppingDeals ==
    ASSUME Orderly, TypeInv, Order, NEW c \in Character, Shopping(c)
    PROVE  Aside({}) \/ DealBegins(c) \/ DealMoves(c) \/ DealEnds(c)
<1>1. CASE CloseShop(c) \/ \E stock \in SUBSET Item : OpenShop(c, stock)
    BY <1>1, ShopAside
<1>2. CASE \E d \in Character, i \in Item, coin \in Coin : BuyResolve(c, d, i, coin)
    BY <1>2, BeginDeals
<1>3. CASE BuySaveOwn(c)
    <2>1. Dealing(c) /\ job[c].stage = "own"
        BY <1>3 DEF BuySaveOwn, At, Dealing, Free
    <2>2. PICK s : s = OwnSide(c)
        OBVIOUS
    <2> QED BY <1>3, <2>1, <2>2, SaveOwnMoves DEF BuySaveOwn, floor
<1>4. CASE BuyOwnRefused(c)
    <2>1. Dealing(c) /\ job[c].op = "buy" /\ job[c].stage = "own"
        BY <1>4 DEF BuyOwnRefused, At, Dealing, Free
    <2> QED BY <1>4, <2>1, DealState, Undone
            DEF BuyOwnRefused, people, floor, DealInv, RowsSaved, Applied
<1>5. CASE BuySaveHost(c)
    <2>1. Dealing(c) /\ job[c].stage = "peer"
        BY <1>5 DEF BuySaveHost, At, Dealing, Free
    <2> QED BY <1>5, <2>1, SavePeerMoves DEF BuySaveHost, floor
<1>6. CASE BuyHostRefused(c)
    <2>1. Dealing(c) /\ job[c].op = "buy" /\ job[c].stage = "peer"
        BY <1>6 DEF BuyHostRefused, At, Dealing, Free
    <2> QED BY <1>6, <2>1, DealState, RowsBack, Undone DEF BuyHostRefused, floor, Applied
<1>7. CASE BuyApply(c)
    <2>1. Dealing(c) /\ job[c].stage = "apply"
        BY <1>7 DEF BuyApply, At, Dealing, Free
    <2> QED BY <1>7, <2>1, DealState, ApplyMoves DEF BuyApply, floor, TypeOK
<1>8. CASE BuyApplyRefused(c)
    <2>1. Dealing(c) /\ job[c].stage = "apply"
        BY <1>8 DEF BuyApplyRefused, At, Dealing, Free
    <2> QED BY <1>8, <2>1, DealState, RowsBack, Undone
            DEF BuyApplyRefused, PeerGone, floor, Applied, TypeOK
<1>9. CASE BuyClose(c)
    <2>1. Dealing(c) /\ job[c].stage = "close"
        BY <1>9 DEF BuyClose, At, Dealing, Free
    <2>2. /\ Peer(c) \in here => seen'[Peer(c)] = PeerSide(c)
          /\ \A d \in Character \ {Peer(c)} : seen'[d] = seen[d]
        BY <1>9, <2>1, DealState DEF BuyClose, TypeOK
    <2> QED BY <1>9, <2>1, <2>2, CloseMoves DEF BuyClose, floor
<1>10. CASE BuyCloseRefused(c)
    <2>1. Dealing(c) /\ job[c].stage = "close"
        BY <1>10 DEF BuyCloseRefused, At, Dealing, Free
    <2> QED BY <1>10, <2>1, CloseUndone DEF BuyCloseRefused, floor
<1>11. CASE ShowOwn(c, "buy")
    BY <1>11, ShowEnds
<1> QED
    BY <1>1, <1>2, <1>3, <1>4, <1>5, <1>6, <1>7, <1>8, <1>9, <1>10, <1>11 DEF Shopping

LEMMA TradingDeals ==
    ASSUME Orderly, TypeInv, Order, NEW c \in Character, Trading(c)
    PROVE  DealBegins(c) \/ DealMoves(c) \/ DealEnds(c)
<1>2. CASE \E d \in Character \ {c} : \E out \in Shows(c), in \in Shows(d) :
              TradePlan(c, d, out, in)
    BY <1>2, BeginDeals
<1>3. CASE TradeSaveOwn(c)
    <2>1. Dealing(c) /\ job[c].stage = "own"
        BY <1>3 DEF TradeSaveOwn, At, Dealing, Free
    <2>2. PICK s : s = OwnSide(c)
        OBVIOUS
    <2> QED BY <1>3, <2>1, <2>2, SaveOwnMoves DEF TradeSaveOwn, floor
<1>4. CASE TradeOwnRefused(c)
    <2>1. Dealing(c) /\ job[c].op = "trade" /\ job[c].stage = "own"
        BY <1>4 DEF TradeOwnRefused, At, Dealing, Free
    <2> QED BY <1>4, <2>1, DealState, Undone
            DEF TradeOwnRefused, people, floor, DealInv, RowsSaved, Applied
<1>5. CASE TradeSavePeer(c)
    <2>1. Dealing(c) /\ job[c].stage = "peer"
        BY <1>5 DEF TradeSavePeer, At, Dealing, Free
    <2> QED BY <1>5, <2>1, SavePeerMoves DEF TradeSavePeer, floor
<1>6. CASE TradePeerRefused(c)
    <2>1. Dealing(c) /\ job[c].op = "trade" /\ job[c].stage = "peer"
        BY <1>6 DEF TradePeerRefused, At, Dealing, Free
    <2> QED BY <1>6, <2>1, DealState, RowsBack, Undone DEF TradePeerRefused, floor, Applied
<1>7. CASE TradeApply(c)
    <2>1. Dealing(c) /\ job[c].stage = "apply"
        BY <1>7 DEF TradeApply, At, Dealing, Free
    <2> QED BY <1>7, <2>1, DealState, ApplyMoves DEF TradeApply, floor, TypeOK
<1>8. CASE TradeApplyRefused(c)
    <2>1. Dealing(c) /\ job[c].stage = "apply"
        BY <1>8 DEF TradeApplyRefused, At, Dealing, Free
    <2> QED BY <1>8, <2>1, DealState, RowsBack, Undone
            DEF TradeApplyRefused, PeerGone, floor, Applied, TypeOK
<1>9. CASE TradeClose(c)
    <2>1. Dealing(c) /\ job[c].stage = "close"
        BY <1>9 DEF TradeClose, At, Dealing, Free
    <2> QED BY <1>9, <2>1, DealState, Done DEF TradeClose, Applied, floor, TypeOK
<1>10. CASE TradeCloseRefused(c)
    <2>1. Dealing(c) /\ job[c].stage = "close"
        BY <1>10 DEF TradeCloseRefused, At, Dealing, Free
    <2> QED BY <1>10, <2>1, CloseUndone DEF TradeCloseRefused, floor
<1> QED
    BY <1>2, <1>3, <1>4, <1>5, <1>6, <1>7, <1>8, <1>9, <1>10 DEF Trading

-----------------------------------------------------------------------------
(* The invariant.                                                          *)

\* What a step may be.
LEMMA Steps ==
    ASSUME Orderly, TypeInv, Order, [Next]_vars
    PROVE  \/ \E A : Aside(A)
           \/ Crash
           \/ \E c \in Character :
                \/ Leave(c) \/ DealBegins(c) \/ DealMoves(c) \/ DealEnds(c)
                \/ \E i \in Item : WorkMoves(c, i)
<1>1. ASSUME NEW c \in Character, OnGround(c) PROVE \E i \in Item : WorkMoves(c, i)
    <2>1. CASE \E i \in Item, v \in Vid : Drop(c, i, v)
        BY <2>1, DropMoves
    <2>2. CASE \E v \in Vid : PickResolve(c, v)
        <3>1. PICK v \in Vid : PickResolve(c, v)
            BY <2>2
        <3>2. ground[v].item \in Item
            BY <3>1 DEF PickResolve, TypeInv, TypeOK, Handle
        <3>3. PICK i \in Item : i = ground[v].item
            BY <3>2
        <3> QED BY <3>1, <3>3, ResolveMoves
    <2>3. CASE DropRegister(c) \/ PickSave(c) \/ PickRefused(c) \/ PickRemove(c)
        <3>1. Working(c)
            BY <2>3 DEF DropRegister, Dropping, PickSave, PickRefused, PickRemove, Picking,
                        Working, Dealing
        <3>2. PICK i \in Item : i = job[c].item
            BY <3>1, WorkAlone
        <3> QED BY <2>3, <3>2, RegisterMoves, SaveMoves, PickEndMoves
    <2> QED BY <1>1, <2>1, <2>2, <2>3 DEF OnGround
<1>2. ASSUME NEW c \in Character, InAndOut(c) PROVE Leave(c) \/ \E A : Aside(A)
    BY <1>2, SelfAside DEF InAndOut
<1>3. ASSUME Lying \/ PersistGround \/ UNCHANGED vars PROVE \E A : Aside(A)
    BY <1>3, LyingAside, StillAside DEF Lying, PersistGround, people, vars
<1> QED
    BY <1>1, <1>2, <1>3, GivingDeals, ShoppingDeals, TradingDeals DEF Next

LEMMA OrderInvariant ==
    ASSUME Orderly
    PROVE  Spec => []Order
<1>1. Init => Order
    <2> SUFFICES ASSUME Init PROVE Order
        OBVIOUS
    <2>1. \A c \in Character : Free(c) /\ ~Dealing(c) /\ ~Working(c) /\ \A i : ~Handles(c, i)
        BY DEF Init, Free, Dealing, Working, Handles
    <2>2. Disjoint /\ Rest /\ \A c \in Character : JobInv(c)
        BY <2>1 DEF Init, Disjoint, Rest, JobInv
    <2>3. ASSUME NEW i \in Item PROVE AtRest(i)
        <3>1. \A c, d \in Character : c # d => row[c].bag \cap row[d].bag = {}
            BY DEF Init
        <3> QED BY <3>1 DEF Init, AtRest, Lies
    <2> QED BY <2>1, <2>2, <2>3 DEF Order, ItemInv
<1>2. TypeInv /\ FloorInv /\ Order /\ [Next]_vars => Order'
    BY Steps, AsideKeeps, CrashKeeps, LeaveKeeps, BeginKeeps, MoveKeeps, EndKeeps, WorkKeeps
<1> QED
    BY <1>1, <1>2, TypeInvariant, FloorInvariant, PTL DEF Spec

-----------------------------------------------------------------------------
(* What a step does to the rows.                                           *)

\* Out of a deal and off the ground, no row changes.
LEMMA RowsSame ==
    ASSUME TypeInv, Order, NEW c \in Character, NEW i \in Item, NEW d \in Character,
           \/ DealBegins(c) \/ Leave(c)
           \/ DealMoves(c) /\ i \notin Things(c)
           \/ DealEnds(c) /\ i \notin Things(c)
    PROVE  i \in row'[d].bag <=> i \in row[d].bag
<1>1. CASE DealBegins(c) \/ Leave(c)
    BY <1>1 DEF DealBegins, Leave
<1>2. CASE DealMoves(c) /\ i \notin Things(c)
    <2>1. i \in Item \ (job[c].out \cup job[c].in)
        BY <1>2, DealParts DEF DealMoves
    <2> QED BY <1>2, <2>1 DEF DealMoves, Elsewhere, Untouched
<1>3. CASE DealEnds(c) /\ i \notin Things(c)
    <2>1. Dealing(c) /\ DealInv(c) /\ Parties(c) = {c, Peer(c)}
        BY <1>3, DealParts DEF DealEnds, Order, JobInv, Dealing
    <2>2. /\ i \in row'[c].bag <=> i \in row[c].bag
          /\ i \in row'[Peer(c)].bag <=> i \in row[Peer(c)].bag
        BY <1>3, <2>1, SidesApart DEF DealInv, RowsSaved, DealEnds
    <2> QED BY <1>3, <2>1, <2>2 DEF DealEnds, Elsewhere, Untouched
<1> QED
    BY <1>1, <1>2, <1>3

\* What a deal that ends is about is with the one or with the other.
LEMMA DealSplits ==
    ASSUME TypeInv, Order, NEW c \in Character, DealEnds(c)
    PROVE  \/ Split(row'[c].bag, row'[Peer(c)].bag, job[c].in, job[c].out)
           \/ Split(row'[c].bag, row'[Peer(c)].bag, job[c].out, job[c].in)
<1>1. Dealing(c) /\ Terms(c) /\ JobsTyped
    BY TypeParts DEF DealEnds, Order, JobInv, DealInv, Dealing
<1>2. CASE row'[c].bag = job[c].mine.bag /\ row'[Peer(c)].bag = job[c].theirs.bag
    BY <1>1, <1>2 DEF Terms, Split
<1>3. CASE row'[c].bag = OwnSide(c).bag /\ row'[Peer(c)].bag = PeerSide(c).bag
    BY <1>1, <1>3, SideBags DEF Terms, Split
<1> QED
    BY <1>2, <1>3 DEF DealEnds

\* Only a deal that ends frees a character that was dealing.
LEMMA DealIsOver ==
    ASSUME Orderly, TypeInv, Order, [Next]_vars, NEW c \in Character, Dealing(c), Free(c)'
    PROVE  DealEnds(c)
<1>1. \A A : ~Aside(A)
    BY DEF Aside, Dealing, Free
<1>2. ~Crash
    BY DEF Crash, Orderly, Dealing
<1>3. ASSUME NEW d \in Character, Leave(d) PROVE FALSE
    <2>1. CASE Dealing(c) /\ job[c].peer = d
        <3>1. job'[c] = [job[c] EXCEPT !.there = FALSE]
            BY <1>3, <2>1 DEF Leave
        <3>2. job[c] \in PeerJob
            BY TypeParts, JobParts DEF Dealing
        <3>3. job'[c] \in Job
            BY <3>1, <3>2 DEF PeerJob, Job
        <3> QED BY <3>3, NullAssumption DEF Free
    <2>2. CASE ~(Dealing(c) /\ job[c].peer = d)
        BY <1>3, <2>2 DEF Leave, Free, Dealing
    <2> QED BY <2>1, <2>2
<1>4. ASSUME NEW d \in Character, DealBegins(d) \/ DealMoves(d) PROVE FALSE
    BY <1>4 DEF DealBegins, DealMoves, OnlyJob, Free, Dealing
<1>5. ASSUME NEW d \in Character, DealEnds(d) PROVE d = c
    <2>1. TypeOK
        BY DEF TypeInv
    <2> QED BY <1>5, <2>1 DEF DealEnds, Free, Dealing, TypeOK
<1>6. ASSUME NEW d \in Character, NEW i \in Item, WorkMoves(d, i) PROVE FALSE
    BY <1>6 DEF WorkMoves, OnlyJob, Free, Dealing
<1> QED
    BY <1>1, <1>2, <1>3, <1>4, <1>5, <1>6, Steps

\* Nobody comes to have an item that lies there, but by picking it up.
LEMMA OnlyPickers ==
    ASSUME Orderly, TypeInv, Order, [Next]_vars, NEW c \in Character, NEW v \in Vid,
           NEW i \in Item, Lies(v, i), i \notin row[c].bag, i \in row'[c].bag
    PROVE  Picking(c, "save") /\ Handles(c, i)
<1>1. \A A : ~Aside(A)
    BY DEF Aside, Elsewhere, Untouched
<1>2. ~Crash
    BY DEF Crash
<1>3. ASSUME NEW d \in Character, Leave(d) \/ DealBegins(d) \/ DealMoves(d) \/ DealEnds(d)
      PROVE  FALSE
    <2>1. CASE DealMoves(d) \/ DealEnds(d)
        <3>1. Dealing(d) /\ ~Working(d)
            BY <2>1 DEF DealMoves, DealEnds, Working
        <3>2. i \notin Things(d)
            <4>1. Handles(d, i) => InHand(d, i)
                BY DEF Order, ItemInv
            <4> QED BY <3>1, <4>1, DealParts DEF Handles, InHand
        <3> QED BY <2>1, <3>2, RowsSame
    <2>2. CASE Leave(d) \/ DealBegins(d)
        BY <2>2, RowsSame
    <2> QED BY <1>3, <2>1, <2>2
<1>4. ASSUME NEW d \in Character, NEW j \in Item, WorkMoves(d, j)
      PROVE  Picking(c, "save") /\ Handles(c, i)
    <2>1. d = c
        BY <1>4 DEF WorkMoves, Elsewhere, Untouched
    <2>2. j = i
        BY <1>4, <2>1 DEF WorkMoves
    <2> QED BY <1>4, <2>1, <2>2 DEF WorkMoves
<1> QED
    BY <1>1, <1>2, <1>3, <1>4, Steps

\* A step keeps what a row, or a handler other than a pickup, holds.
LEMMA StepKeeps ==
    ASSUME Orderly, TypeInv, Order, [Next]_vars, NEW i \in Item, Kept(i)
    PROVE  Kept(i)' \/ Spots(i)' # {}
<1>0. TypeOK
    BY DEF TypeInv
<1> DEFINE Carries(c) == ~Free(c) /\ i \in Things(c) /\ job[c].op # "pick"
<1>1. /\ \/ \E c \in Character : i \in row[c].bag
         \/ \E c \in Character : Carries(c)
      /\ (\E c \in Character : i \in row'[c].bag) => Kept(i)'
      /\ (\E c \in Character : Carries(c)') => Kept(i)'
      /\ (\E v \in Vid : Lies(v, i)') => Spots(i)' # {}
    BY DEF Kept, Holders, Things, Spots, Lies
<1>2. ASSUME NEW A, Aside(A) PROVE Kept(i)'
    <2>1. \A c \in Character : i \in row'[c].bag <=> i \in row[c].bag
        BY <1>2 DEF Aside, Elsewhere, Untouched
    <2>2. \A c \in Character : Carries(c) => Carries(c)'
        BY <1>2 DEF Aside, Free, Things, Dealing
    <2> QED BY <1>1, <2>1, <2>2
<1>3. ASSUME Crash PROVE Kept(i)'
    <2>1. row' = row /\ \A c \in Character : ~Carries(c)
        BY <1>3 DEF Crash, Orderly
    <2> QED BY <1>1, <2>1
<1>4. ASSUME NEW d \in Character, Leave(d) PROVE Kept(i)'
    <2>1. row' = row
        BY <1>4 DEF Leave
    <2>2. ASSUME NEW c \in Character, Carries(c) PROVE Carries(c)'
        <3>1. CASE Dealing(c) /\ job[c].peer = d
            <4>1. job'[c] = [job[c] EXCEPT !.there = FALSE] /\ job[c] \in PeerJob
                BY <1>4, <3>1, TypeParts, JobParts DEF Leave, Dealing
            <4>2. /\ job'[c] \in Job /\ job'[c].op = job[c].op
                  /\ job'[c].out = job[c].out /\ job'[c].in = job[c].in
                BY <4>1 DEF PeerJob, Job
            <4>3. ~Free(c)' /\ Dealing(c)'
                BY <3>1, <4>2, NullAssumption DEF Free, Dealing
            <4> QED BY <2>2, <3>1, <4>2, <4>3 DEF Things, Dealing, Free
        <3>2. CASE ~(Dealing(c) /\ job[c].peer = d)
            <4>1. job'[c] = job[c]
                BY <1>4, <3>2 DEF Leave
            <4> QED BY <2>2, <4>1 DEF Free, Things, Dealing
        <3> QED BY <3>1, <3>2
    <2> QED BY <1>1, <2>1, <2>2
<1>5. ASSUME NEW d \in Character, DealBegins(d) PROVE Kept(i)'
    <2>1. row' = row /\ Free(d) /\ OnlyJob(d)
        BY <1>5 DEF DealBegins
    <2>2. \A c \in Character : Carries(c) => Carries(c)'
        BY <2>1 DEF OnlyJob, Free, Things, Dealing
    <2> QED BY <1>1, <2>1, <2>2
<1>6. ASSUME NEW d \in Character, DealMoves(d) PROVE Kept(i)'
    <2>1. CASE i \in Things(d)
        <3>1. Carries(d)'
            BY <1>6, <2>1 DEF DealMoves, Things, Dealing
        <3> QED BY <1>1, <3>1
    <2>2. CASE i \notin Things(d)
        <3>1. \A c \in Character : i \in row'[c].bag <=> i \in row[c].bag
            BY <1>6, <2>2, RowsSame
        <3>2. \A c \in Character : Carries(c) => Carries(c)'
            BY <1>6, <2>2 DEF DealMoves, OnlyJob, Free, Things, Dealing
        <3> QED BY <1>1, <3>1, <3>2
    <2> QED BY <2>1, <2>2
<1>7. ASSUME NEW d \in Character, DealEnds(d) PROVE Kept(i)'
    <2>0. Dealing(d) /\ Peer(d) \in Character /\ OnlyJob(d)
        BY <1>0, <1>7, DealParts DEF DealEnds, OnlyJob, TypeOK
    <2>1. CASE i \in Things(d)
        <3>1. i \in row'[d].bag \/ \E e \in Character : e = Peer(d) /\ i \in row'[e].bag
            BY <1>7, <2>0, <2>1, DealSplits, DealParts DEF Split
        <3> QED BY <1>1, <3>1
    <2>2. CASE i \notin Things(d)
        <3>1. \A c \in Character : i \in row'[c].bag <=> i \in row[c].bag
            BY <1>7, <2>2, RowsSame
        <3>2. \A c \in Character : Carries(c) => Carries(c)'
            BY <2>0, <2>2 DEF OnlyJob, Free, Things, Dealing
        <3> QED BY <1>1, <3>1, <3>2
    <2> QED BY <2>1, <2>2
<1>8. ASSUME NEW d \in Character, NEW j \in Item, WorkMoves(d, j)
      PROVE  Kept(i)' \/ Spots(i)' # {}
    <2>1. \A c \in Character \ {d} : /\ i \in row'[c].bag <=> i \in row[c].bag
                                     /\ Carries(c) => Carries(c)'
        BY <1>8 DEF WorkMoves, Elsewhere, Untouched, OnlyJob, Free, Things, Dealing
    <2>2. Carries(d) => InDrop(d, i)
        <3> SUFFICES ASSUME Carries(d) PROVE InDrop(d, i)
            OBVIOUS
        <3>1. Working(d)
            BY <1>8 DEF WorkMoves, Working
        <3>2. /\ job[d].op = "drop" /\ job[d].vid \in Vid
              /\ Things(d) = {job[d].item, job[d].vid}
            BY <3>1, WorkAlone
        <3>3. job[d].item = i
            BY <3>2, VidAssumption
        <3> QED BY <3>1, <3>2, <3>3 DEF InDrop, Handles
    <2>3. InDrop(d, i)' => Carries(d)'
        BY DEF InDrop, Handles, Working, Things
    <2>4. CASE i # j
        <3>1. (i \in row'[d].bag <=> i \in row[d].bag) /\ ~InDrop(d, i)
            BY <1>8, <2>4 DEF WorkMoves, InDrop
        <3> QED BY <1>1, <2>1, <2>2, <3>1
    <2>5. CASE i = j
        <3>1. i \in row[d].bag \/ InDrop(d, i) =>
                i \in row'[d].bag \/ InDrop(d, i)' \/ \E v \in Vid : Lies(v, i)'
            BY <1>8, <2>5 DEF WorkMoves
        <3> QED BY <1>1, <2>1, <2>2, <2>3, <3>1
    <2> QED BY <2>4, <2>5
<1> QED
    BY <1>2, <1>3, <1>4, <1>5, <1>6, <1>7, <1>8, Steps

-----------------------------------------------------------------------------
(* The properties.                                                         *)

\* Drops, pickups, gives, sales and trades, interleaved in any way that leaves no two of
\* them about one thing, with any saves refused and players leaving in between, never
\* put an item into two rows, under two handles, or into both.
THEOREM ItemsHaveOneHolder ==
    ASSUME Orderly
    PROVE  Spec => []OneHolder
<1>1. Order => OneHolder
    <2> SUFFICES ASSUME Order, NEW i \in Item, ~Handled(i)
                 PROVE  Cardinality(Holders(i)) + Cardinality(Spots(i)) <= 1
        BY DEF OneHolder
    <2>1. AtRest(i)
        <3>1. \A c \in Character : ~Handles(c, i)
            BY DEF Handled, Things, Handles, Dealing, Working
        <3> QED BY <3>1 DEF Order, ItemInv
    <2>2. Holders(i) = {} \/ \E c \in Character : Holders(i) = {c}
        BY <2>1 DEF AtRest, Holders
    <2>3. Spots(i) = {} \/ \E v \in Vid : Spots(i) = {v}
        BY <2>1 DEF AtRest, Spots, Lies
    <2>4. Holders(i) = {} \/ Spots(i) = {}
        BY <2>1 DEF AtRest, Holders, Spots, Lies
    <2>5. Cardinality({}) = 0 /\ \A x : Cardinality({x}) = 1
        BY FS_EmptySet, FS_Singleton
    <2>6. CASE Holders(i) = {}
        <3>1. Cardinality(Holders(i)) = 0
            BY <2>5, <2>6
        <3>2. Cardinality(Spots(i)) = 0 \/ Cardinality(Spots(i)) = 1
            BY <2>3, <2>5, Zenon
        <3> QED BY <3>1, <3>2
    <2>7. CASE Spots(i) = {}
        <3>1. Cardinality(Spots(i)) = 0
            BY <2>5, <2>7
        <3>2. Cardinality(Holders(i)) = 0 \/ Cardinality(Holders(i)) = 1
            BY <2>2, <2>5, Zenon
        <3> QED BY <3>1, <3>2
    <2> QED BY <2>4, <2>6, <2>7
<1> QED
    BY <1>1, OrderInvariant, PTL

\* A dropped item has left its owner's row, whenever no handler is at work on it.
THEOREM DropsRemoveTheItem ==
    ASSUME Orderly
    PROVE  Spec => []DropRemoves
<1>1. TypeInv /\ Order => DropRemoves
    <2> SUFFICES ASSUME TypeInv, Order, NEW v \in Vid, ground[v] # NoHandle,
                        ~Handled(ground[v].item)
                 PROVE  Holders(ground[v].item) = {}
        BY DEF DropRemoves
    <2>1. PICK i \in Item : i = ground[v].item
        BY DEF TypeInv, TypeOK, Handle
    <2>2. AtRest(i)
        <3>1. \A c \in Character : ~Handles(c, i)
            BY <2>1 DEF Handled, Things, Handles, Dealing, Working
        <3> QED BY <3>1 DEF Order, ItemInv
    <2> QED BY <2>1, <2>2 DEF AtRest, Lies, Holders
<1> QED
    BY <1>1, TypeInvariant, OrderInvariant, PTL

\* When no handler is about a character in the world, its row, its runtime and the
\* shared world's copy have the same items.
THEOREM CharactersCopiesAgree ==
    ASSUME Orderly
    PROVE  Spec => []CopiesAgree
<1>1. Order => CopiesAgree
    BY DEF Order, Rest, Idle, Settled, CopiesAgree
<1> QED
    BY <1>1, OrderInvariant, PTL

\* Whatever is refused and whoever leaves on the way, what a character or a handler
\* holds is after every step in a row, on the ground or still in a handler's hands.
THEOREM WhatIsHeldStays ==
    ASSUME Orderly
    PROVE  Spec => NothingVanishes
<1>1. TypeInv /\ Order /\ [Next]_vars => [\A i \in Item : Kept(i) => (Kept(i) \/ Spots(i) # {})']_vars
    BY StepKeeps
<1> QED
    BY <1>1, TypeInvariant, OrderInvariant, PTL DEF Spec, NothingVanishes

\* A purchase or a trade that is over has moved everything or nothing, in the two
\* rows: no refused save and no departure leaves it half done.
THEOREM DealsAreWhole ==
    ASSUME Orderly
    PROVE  Spec => DealIsWhole
<1>1. TypeInv /\ Order /\ [Next]_vars =>
        [\A c \in Character :
           (~Free(c) /\ job[c].op \in {"buy", "trade"} /\ Free(c)') =>
               LET own == row'[c].bag peer == row'[Peer(c)].bag IN
               \/ Split(own, peer, job[c].in, job[c].out)
               \/ Split(own, peer, job[c].out, job[c].in)]_vars
    BY DealIsOver, DealSplits DEF Dealing
<1> QED
    BY <1>1, TypeInvariant, OrderInvariant, PTL DEF Spec, DealIsWhole

\* A step that gives an item from under an exclusive handle to a row gives it to the
\* handle's owner.
THEOREM ExclusiveIsRespected ==
    ASSUME Orderly
    PROVE  Spec => ExclusiveRespected
<1>1. ASSUME TypeInv, Order, [Next]_vars, NEW c \in Character, NEW v \in Vid,
             ground[v] # NoHandle, ground[v].exclusive, ground[v].owner # c,
             ground[v].item \notin row[c].bag
      PROVE  ground[v].item \notin row'[c].bag
    <2>1. PICK i \in Item : i = ground[v].item
        BY <1>1 DEF TypeInv, TypeOK, Handle
    <2>2. Lies(v, i)
        BY <1>1, <2>1 DEF Lies
    <2>3. SUFFICES ASSUME i \in row'[c].bag PROVE FALSE
        BY <2>1
    <2>4. Picking(c, "save") /\ Handles(c, i)
        BY <1>1, <2>1, <2>2, <2>3, OnlyPickers
    <2>5. WorkInv(c) /\ InHand(c, i) /\ Working(c) /\ job[c].op = "pick"
        <3>1. Working(c) /\ job[c].op = "pick"
            BY <2>4 DEF Picking, Working, Dealing
        <3>2. i = job[c].item
            BY <1>1, <2>4, <3>1, WorkAlone
        <3> QED BY <1>1, <3>1, <3>2, WorkAlone
    <2>6. v = job[c].vid
        BY <2>2, <2>5 DEF InHand
    <2> QED BY <1>1, <2>5, <2>6 DEF WorkInv, Blocks
<1>2. TypeInv /\ Order /\ [Next]_vars =>
        [\A c \in Character, v \in Vid :
           (ground[v] # NoHandle /\ ground[v].exclusive /\ ground[v].owner # c
              /\ ground[v].item \notin row[c].bag) => ground[v].item \notin row'[c].bag]_vars
    BY <1>1
<1> QED
    BY <1>2, TypeInvariant, OrderInvariant, PTL DEF Spec, ExclusiveRespected
=============================================================================
