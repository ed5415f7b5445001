----------------------- MODULE SessionPresence_proofs -----------------------
(***************************************************************************)
(* Proofs about SessionPresence, for every set of sessions, accounts and   *)
(* characters and every history length.                                    *)
(***************************************************************************)
EXTENDS SessionPresence, TLAPS

\* A session in LOADING has selected a character, and only such a session is
\* in the middle of an ENTERGAME.
LoadingInv ==
    \A s \in Session :
        /\ phase[s] = "loading" => chosen[s] \in Character
        /\ entering[s] => phase[s] = "loading"

\* A give is under way in the world only, between versions that can still grow.
GivesInv ==
    \A s \in Session : Giving(s) =>
        /\ phase[s] = "game" /\ joined[s] /\ live[s] < MaxVersion
        /\ give[s].target \in Character /\ give[s].slot \in Character
        /\ give[s].copy < MaxVersion

TypeInv == TypeOK /\ LoadingInv /\ GivesInv

-----------------------------------------------------------------------------
(* Type correctness.                                                       *)

LEMMA VersionFacts ==
    /\ 0 \in Version /\ 1 \in Version
    /\ \A v \in Version : v < MaxVersion => v + 1 \in Version
BY MaxVersionAssumption DEF Version

LEMMA StoreType ==
    ASSUME TypeOK
    PROVE  /\ \A a : Loaded(a) \in [Character -> Version]
           /\ \A a : \A cs \in [Character -> Version] : Saved(a, cs) \in [Character -> Version]
BY VersionFacts DEF TypeOK, Loaded, Saved

LEMMA NameType ==
    ASSUME TypeOK, NEW s \in Session
    PROVE  /\ Unregistered(s) \in [Name -> Session \cup {NoSession}]
           /\ \A c : Registered(s, c) \in [Name -> Session \cup {NoSession}]
<1>1. Unregistered(s) \in [Name -> Session \cup {NoSession}]  BY DEF TypeOK, Unregistered
<1> QED  BY <1>1 DEF Registered

LEMMA BumpedType ==
    ASSUME TypeOK, NEW s \in Session, live[s] < MaxVersion
    PROVE  /\ \A c : Bumped(s, c) \in [Character -> Version]
           /\ live[s] + 1 \in Version
BY VersionFacts DEF TypeOK, Bumped

\* A step of a session that is in no give, and leaves the gives alone.
LEMMA GivesFrame ==
    ASSUME TypeInv, NEW s \in Session, ~Giving(s), give' = give,
           \A t \in Session \ {s} :
               phase'[t] = phase[t] /\ joined'[t] = joined[t] /\ live'[t] = live[t]
    PROVE  GivesInv'
BY DEF TypeInv, GivesInv, Giving

LEMMA NotInGame ==
    ASSUME TypeInv, NEW s \in Session, phase[s] # "game"
    PROVE  ~Giving(s)
BY DEF TypeInv, GivesInv

LEMMA RefreshType ==
    ASSUME TypeInv, NEW s \in Session, EnterRefresh(s)
    PROVE  TypeInv'
<1>0. TypeInv /\ TypeOK /\ chosen[s] \in Character
    BY DEF EnterRefresh, TypeInv, LoadingInv
<1>1. cached' \in [Session -> [Character -> Version]]
  <2>1. cached' = cached \/ cached' = [cached EXCEPT ![s] = Loaded(account[s])]
      BY DEF EnterRefresh
  <2>2. Loaded(account[s]) \in [Character -> Version]
      BY <1>0, StoreType
  <2> QED  BY <1>0, <2>1, <2>2 DEF TypeOK
<1>2. /\ Unregistered(s) \in [Name -> Session \cup {NoSession}]
      /\ Registered(s, chosen[s]) \in [Name -> Session \cup {NoSession}]
    BY <1>0, NameType
<1>3. row[chosen[s]] \in Version /\ 0 \in Version
    BY <1>0, VersionFacts DEF TypeOK
<1>4. live' \in [Session -> Version] /\ entering' \in [Session -> BOOLEAN]
  <2>1. CASE RefreshRejected(s)
    <3>1. live' = [live EXCEPT ![s] = 0] /\ entering' = entering
        BY <2>1 DEF RefreshRejected
    <3> QED  BY <1>0, <1>3, <3>1 DEF TypeOK
  <2>2. CASE ~RefreshRejected(s)
    <3>1. /\ live' = [live EXCEPT ![s] = row[chosen[s]]]
          /\ entering' = [entering EXCEPT ![s] = TRUE]
        BY <2>2 DEF EnterRefresh
    <3> QED  BY <1>0, <1>3, <3>1 DEF TypeOK
  <2> QED  BY <2>1, <2>2
<1>5. name' \in [Name -> Session \cup {NoSession}]
    BY <1>2 DEF EnterRefresh, RefreshRejected
<1>6. LoadingInv'
    BY <1>0 DEF EnterRefresh, RefreshRejected, TypeOK, TypeInv, LoadingInv
<1>7. TypeOK'  BY <1>0, <1>1, <1>4, <1>5 DEF EnterRefresh, TypeOK
<1>8. \A t \in Session \ {s} : live'[t] = live[t]
    BY <1>0 DEF EnterRefresh, RefreshRejected, TypeOK
<1>9. GivesInv'  BY <1>0, <1>8, GivesFrame DEF EnterRefresh, Ready
<1> QED  BY <1>6, <1>7, <1>9 DEF TypeInv

\* The steps before the game.
LEMMA EntryType ==
    ASSUME TypeInv, NEW s \in Session,
           \/ \E a \in Account : Authenticate(s, a)
           \/ SelectEmpire(s)
           \/ \E c \in Character :
                 CreateCharacter(s, c) \/ DeleteCharacter(s, c) \/ SelectCharacter(s, c)
           \/ EnterRefresh(s)
           \/ EnterJoin(s)
    PROVE  TypeInv'
<1> USE StoreType, NameType, VersionFacts DEF TypeInv, Phase
<1>1. ASSUME NEW a \in Account, Authenticate(s, a) PROVE TypeInv'
  <2>1. TypeOK' /\ LoadingInv'  BY <1>1 DEF Authenticate, people, TypeOK, LoadingInv
  <2>2. GivesInv'  BY <1>1, GivesFrame, NotInGame DEF Authenticate, TypeOK
  <2> QED  BY <2>1, <2>2
<1>2. CASE SelectEmpire(s)
  <2>1. TypeOK' /\ LoadingInv'  BY <1>2 DEF SelectEmpire, people, TypeOK, LoadingInv
  <2>2. GivesInv'  BY <1>2, GivesFrame DEF SelectEmpire, people, Ready
  <2> QED  BY <2>1, <2>2
<1>3. ASSUME NEW c \in Character, CreateCharacter(s, c) PROVE TypeInv'
  <2>1. cached' \in [Session -> [Character -> Version]]
      BY <1>3 DEF CreateCharacter, TypeOK
  <2>2. Saved(account[s], cached'[s]) \in [Character -> Version]
      BY <2>1
  <2>3. row' \in [Character -> Version]
      BY <1>3, <2>2 DEF CreateCharacter, TypeOK
  <2>4. TypeOK' /\ LoadingInv'
      BY <1>3, <2>1, <2>3 DEF CreateCharacter, people, TypeOK, LoadingInv
  <2>5. GivesInv'  BY <1>3, GivesFrame DEF CreateCharacter, people, Ready
  <2> QED  BY <2>4, <2>5
<1>4. ASSUME NEW c \in Character, DeleteCharacter(s, c) PROVE TypeInv'
  <2>1. cached' \in [Session -> [Character -> Version]]
      BY <1>4 DEF DeleteCharacter, TypeOK
  <2>2. row' \in [Character -> Version]
      BY <1>4, <2>1 DEF DeleteCharacter, TypeOK
  <2>3. /\ chosen' \in [Session -> Character \cup {NoCharacter}]
        /\ live' \in [Session -> Version]
        /\ name' \in [Name -> Session \cup {NoSession}]
      BY <1>4 DEF DeleteCharacter, TypeOK
  <2>4. LoadingInv'
      BY <1>4 DEF DeleteCharacter, TypeOK, LoadingInv
  <2>5. TypeOK'  BY <1>4, <2>1, <2>2, <2>3 DEF DeleteCharacter, TypeOK
  <2>6. \A t \in Session \ {s} : live'[t] = live[t]
      BY <1>4 DEF DeleteCharacter, TypeOK
  <2>7. GivesInv'  BY <1>4, <2>6, GivesFrame DEF DeleteCharacter, Ready
  <2> QED  BY <2>4, <2>5, <2>7
<1>5. ASSUME NEW c \in Character, SelectCharacter(s, c) PROVE TypeInv'
  <2>1. TypeOK'  BY <1>5 DEF SelectCharacter, TypeOK
  <2>2. LoadingInv'  BY <1>5 DEF SelectCharacter, TypeOK, LoadingInv
  <2>3. GivesInv'  BY <1>5, GivesFrame DEF SelectCharacter, Ready, TypeOK
  <2> QED  BY <2>1, <2>2, <2>3
<1>6. CASE EnterRefresh(s)  BY <1>6, RefreshType
<1>7. CASE EnterJoin(s)
  <2>1. TypeOK'  BY <1>7 DEF EnterJoin, TypeOK
  <2>2. LoadingInv'  BY <1>7 DEF EnterJoin, TypeOK, LoadingInv
  <2>3. ~Giving(s)  BY <1>7, NotInGame DEF EnterJoin, LoadingInv
  <2>4. GivesInv'  BY <1>7, <2>3, GivesFrame DEF EnterJoin, TypeOK
  <2> QED  BY <2>1, <2>2, <2>4
<1> QED  BY <1>1, <1>2, <1>3, <1>4, <1>5, <1>6, <1>7

\* The steps of the game and of leaving it.
LEMMA GameType ==
    ASSUME TypeInv, NEW s \in Session,
           \/ Commit(s)
           \/ \E next \in {"game", "closed", "select"} : LeaveWorld(s, next)
           \/ Drop(s)
           \/ DropLeave(s)
           \/ Reconnect(s)
    PROVE  TypeInv'
<1> USE StoreType, NameType, VersionFacts DEF TypeInv, Phase
<1>1. CASE Commit(s)
  <2>4. /\ Bumped(s, chosen[s]) \in [Character -> Version]
        /\ live[s] + 1 \in Version
      BY <1>1, BumpedType DEF Commit
  <2>1. cached' \in [Session -> [Character -> Version]]
      BY <1>1, <2>4 DEF Commit, TypeOK
  <2>5. Saved(account[s], cached'[s]) \in [Character -> Version]
      BY <2>1
  <2>2. row' \in [Character -> Version]
      BY <1>1, <2>5 DEF Commit, TypeOK
  <2>3. live' \in [Session -> Version]
      BY <1>1, <2>4 DEF Commit, TypeOK
  <2>6. TypeOK' /\ LoadingInv'
      BY <1>1, <2>1, <2>2, <2>3 DEF Commit, people, TypeOK, LoadingInv
  <2>7. \A t \in Session \ {s} : live'[t] = live[t]
      BY <1>1 DEF Commit, TypeOK
  <2>8. GivesInv'  BY <1>1, <2>7, GivesFrame DEF Commit, people, Ready
  <2> QED  BY <2>6, <2>8
<1>3. ASSUME NEW next \in {"game", "closed", "select"}, LeaveWorld(s, next) PROVE TypeInv'
  <2>1. TypeOK' /\ LoadingInv'  BY <1>3 DEF LeaveWorld, Empty, TypeOK, LoadingInv
  <2>2. GivesInv'  BY <1>3, GivesFrame DEF LeaveWorld, Ready, TypeOK
  <2> QED  BY <2>1, <2>2
<1>4. CASE Drop(s)
  <2>1. TypeOK' /\ LoadingInv'  BY <1>4 DEF Drop, Empty, TypeOK, LoadingInv
  <2>2. GivesInv'  BY <1>4, GivesFrame DEF Drop, Ready, TypeOK
  <2> QED  BY <2>1, <2>2
<1>5. CASE DropLeave(s)
  <2>1. TypeOK' /\ LoadingInv'  BY <1>5 DEF DropLeave, TypeOK, LoadingInv
  <2>2. GivesInv'  BY <1>5, GivesFrame, NotInGame DEF DropLeave
  <2> QED  BY <2>1, <2>2
<1>6. CASE Reconnect(s)
  <2>1. TypeOK' /\ LoadingInv'  BY <1>6 DEF Reconnect, Empty, TypeOK, LoadingInv
  <2>2. GivesInv'  BY <1>6, GivesFrame, NotInGame DEF Reconnect, TypeOK
  <2> QED  BY <2>1, <2>2
<1> QED  BY <1>1, <1>3, <1>4, <1>5, <1>6

\* The steps of a give.
LEMMA SidesType ==
    ASSUME TypeInv, NEW s \in Session, Giving(s)
    PROVE  /\ OwnSide(s) \in [Character -> Version]
           /\ PeerSide(s) \in [Character -> Version]
           /\ give[s].rows \in [Character -> Version]
           /\ give[s].copy + 1 \in Version
<1>1. give[s] \in Give /\ live[s] < MaxVersion /\ give[s].copy < MaxVersion
    BY DEF TypeInv, TypeOK, GivesInv
<1>2. give[s].rows \in [Character -> Version] /\ give[s].copy + 1 \in Version
    BY <1>1, VersionFacts DEF Give
<1> QED  BY <1>1, <1>2, BumpedType DEF OwnSide, PeerSide, TypeInv

\* What a step of a give may do to the give itself.
GiveMove(s) ==
    \/ give' = [give EXCEPT ![s] = NoGive]
    \/ \E g \in Give :
          /\ give' = [give EXCEPT ![s] = g]
          /\ g.target = give[s].target /\ g.slot = give[s].slot /\ g.copy < MaxVersion

LEMMA GiveMoves ==
    ASSUME TypeInv, NEW s \in Session, GiveOn(s)
    PROVE  Giving(s) /\ GiveMove(s)
<1>0. give[s] \in Give  BY DEF TypeInv, TypeOK
<1>1. Giving(s)
    BY DEF GiveOn, GiveClone, GiveLoad, GiveRejected, GiveSave, GiveSavePeer, GivePeerRefused,
           GiveApply, GiveApplyRefused, GiveUndo, GiveUndoPeer, GiveClose, At, Giving
<1>2. give[s].copy < MaxVersion  BY <1>1 DEF TypeInv, GivesInv
<1>3. ASSUME NEW g \in Give, give' = [give EXCEPT ![s] = g],
             g.target = give[s].target, g.slot = give[s].slot, g.copy < MaxVersion
      PROVE  GiveMove(s)
    BY <1>3 DEF GiveMove
<1>4. ASSUME NEW stage \in Stage, Advance(s, stage) PROVE GiveMove(s)
  <2>1. [give[s] EXCEPT !.stage = stage] \in Give  BY <1>0 DEF Give
  <2>2. give' = [give EXCEPT ![s] = [give[s] EXCEPT !.stage = stage]]
      BY <1>4 DEF Advance
  <2> QED  BY <1>0, <1>2, <2>1, <2>2, <1>3 DEF Give
<1>5. ASSUME Finish(s) PROVE GiveMove(s)
    BY <1>5 DEF Finish, GiveMove
<1>6. CASE GiveClone(s)
  <2> DEFINE g == [give[s] EXCEPT !.stage = "load", !.copy = live[Peer(s)]]
  <2>1. Peer(s) \in Session
    <3>1. NameOf[give[s].target] \in Name  BY <1>1 DEF TypeInv, GivesInv, Name
    <3> QED  BY <1>6, <3>1 DEF GiveClone, Reached, Peer, TypeInv, TypeOK
  <2>2. live[Peer(s)] \in Version /\ live[Peer(s)] < MaxVersion
      BY <1>6, <2>1 DEF GiveClone, TypeInv, TypeOK
  <2>3. g \in Give /\ g.copy < MaxVersion /\ g.target = give[s].target /\ g.slot = give[s].slot
      BY <1>0, <2>2 DEF Give, Stage
  <2>4. give' = [give EXCEPT ![s] = g]
      BY <1>6 DEF GiveClone
  <2> HIDE DEF g
  <2> QED  BY <1>1, <2>3, <2>4, <1>3
<1>7. CASE GiveLoad(s)
  <2> DEFINE r == [c \in Character |-> IF AccountOf[c] \in {account[s], AccountOf[give[s].slot]}
                                         THEN row[c] ELSE 0]
             g == [give[s] EXCEPT !.stage = "save", !.rows = r]
  <2>1. r \in [Character -> Version]  BY VersionFacts DEF TypeInv, TypeOK
  <2>2. give' = [give EXCEPT ![s] = g]
      BY <1>7 DEF GiveLoad
  <2> HIDE DEF r
  <2>3. g \in Give /\ g.copy < MaxVersion /\ g.target = give[s].target /\ g.slot = give[s].slot
      BY <1>0, <1>2, <2>1 DEF Give, Stage
  <2> HIDE DEF g
  <2> QED  BY <1>1, <2>2, <2>3, <1>3
<1>8. CASE GiveApply(s)
  <2> DEFINE g == [give[s] EXCEPT !.stage = "close", !.copy = 0, !.rows = Empty]
  <2>1. Empty \in [Character -> Version] /\ 0 \in Version /\ 0 < MaxVersion
      BY VersionFacts, MaxVersionAssumption DEF Empty
  <2>2. g \in Give /\ g.copy < MaxVersion /\ g.target = give[s].target /\ g.slot = give[s].slot
      BY <1>0, <2>1 DEF Give, Stage
  <2>3. give' = [give EXCEPT ![s] = g]
      BY <1>8 DEF GiveApply
  <2> HIDE DEF g
  <2> QED  BY <1>1, <2>2, <2>3, <1>3
<1>9. CASE GiveSave(s) \/ GiveSavePeer(s) \/ GiveApplyRefused(s) \/ GiveUndo(s)
    BY <1>1, <1>9, <1>4 DEF GiveSave, GiveSavePeer, GiveApplyRefused, GiveUndo, Stage
<1>10. CASE GiveRejected(s) \/ GivePeerRefused(s) \/ GiveUndoPeer(s) \/ GiveClose(s)
    BY <1>1, <1>10, <1>5 DEF GiveRejected, GivePeerRefused, GiveUndoPeer, GiveClose
<1> QED  BY <1>1, <1>6, <1>7, <1>8, <1>9, <1>10 DEF GiveOn

\* ... and to everything else.  Only GiveApply reaches into another session,
\* and never into one that is itself in a give.
LEMMA GiveEffects ==
    ASSUME TypeInv, NEW s \in Session, GiveOn(s)
    PROVE  /\ UNCHANGED people
           /\ row' \in [Character -> Version]
           /\ cached' \in [Session -> [Character -> Version]]
           /\ live' \in [Session -> Version]
           /\ name' \in [Name -> Session \cup {NoSession}]
           /\ \A t \in Session \ {s} : Giving(t) => live'[t] = live[t]
           /\ Giving(s)' => live'[s] = live[s]
<1> USE StoreType, NameType DEF TypeInv
<1>1. Giving(s)  BY GiveMoves
<1>2. /\ OwnSide(s) \in [Character -> Version] /\ PeerSide(s) \in [Character -> Version]
      /\ give[s].rows \in [Character -> Version] /\ give[s].copy + 1 \in Version
    BY <1>1, SidesType
<1>3. CASE GiveClone(s) \/ GiveLoad(s) \/ GiveRejected(s) \/ GiveApplyRefused(s)
    BY <1>3 DEF GiveClone, GiveLoad, GiveRejected, GiveApplyRefused, TypeOK
<1>4. CASE GiveSave(s) \/ GiveSavePeer(s) \/ GivePeerRefused(s) \/ GiveUndo(s) \/ GiveUndoPeer(s)
  <2>1. UNCHANGED <<people, cached, live, name>>
      BY <1>4 DEF GiveSave, GiveSavePeer, GivePeerRefused, GiveUndo, GiveUndoPeer
  <2>3. /\ Saved(account[s], OwnSide(s)) \in [Character -> Version]
        /\ \A a : Saved(a, PeerSide(s)) \in [Character -> Version]
        /\ \A a : Saved(a, give[s].rows) \in [Character -> Version]
      BY <1>2
  <2>2. row' \in [Character -> Version]
    <3>1. CASE GiveSave(s)  BY <2>3, <3>1 DEF GiveSave
    <3>2. CASE GiveSavePeer(s)  BY <2>3, <3>2 DEF GiveSavePeer
    <3>3. CASE GivePeerRefused(s) \/ GiveUndo(s) \/ GiveUndoPeer(s)
      <4>1. ASSUME NEW a, PutBack(s, a) PROVE row' \in [Character -> Version]
          BY <2>3, <4>1 DEF PutBack, TypeOK
      <4> QED  BY <3>3, <4>1 DEF GivePeerRefused, GiveUndo, GiveUndoPeer
    <3> QED  BY <1>4, <3>1, <3>2, <3>3
  <2> QED  BY <2>1, <2>2 DEF TypeOK
<1>5. CASE GiveApply(s)
  <2> DEFINE w == Peer(s)
  <2>1. /\ cached' = [cached EXCEPT ![w][chosen[w]] = give[s].copy + 1]
        /\ live' = [live EXCEPT ![w] = give[s].copy + 1]
        /\ UNCHANGED <<people, name, row>> /\ w # s /\ ~Giving(w)
      BY <1>5 DEF GiveApply, Reached, Locked
  <2> HIDE DEF w
  <2>2. cached' \in [Session -> [Character -> Version]] /\ live' \in [Session -> Version]
      BY <1>2, <2>1 DEF TypeOK
  <2>3. \A t \in Session : t # w => live'[t] = live[t]
      BY <2>1 DEF TypeOK
  <2> QED  BY <2>1, <2>2, <2>3 DEF TypeOK
<1>6. CASE GiveClose(s)
  <2>1. live[s] + 1 \in Version
      BY <1>1, BumpedType DEF GivesInv
  <2>2. ~Giving(s)'
      BY <1>6 DEF GiveClose, Finish, NoGive, Giving, TypeOK
  <2>3. live' = [live EXCEPT ![s] = @ + 1] /\ cached' = [cached EXCEPT ![s] = OwnSide(s)]
        /\ UNCHANGED <<people, row>> /\ name' = Registered(s, chosen[s])
      BY <1>6 DEF GiveClose
  <2>4. cached' \in [Session -> [Character -> Version]] /\ live' \in [Session -> Version]
      BY <1>2, <2>1, <2>3 DEF TypeOK
  <2> QED  BY <2>2, <2>3, <2>4 DEF TypeOK
<1> QED  BY <1>3, <1>4, <1>5, <1>6 DEF GiveOn

LEMMA GiveOnType ==
    ASSUME TypeInv, NEW s \in Session, GiveOn(s)
    PROVE  TypeInv'
<1>1. Giving(s) /\ GiveMove(s)  BY GiveMoves
<1>2. NoGive \in Give
    BY VersionFacts DEF NoGive, Give, Stage, Empty
<1>3. give' \in [Session -> Give]
    BY <1>1, <1>2 DEF GiveMove, TypeInv, TypeOK
<1>4. UNCHANGED people  BY GiveEffects
<1>5. TypeOK'
    BY <1>3, <1>4, GiveEffects DEF people, TypeInv, TypeOK
<1>6. LoadingInv'  BY <1>4 DEF people, TypeInv, LoadingInv
<1>7. \A t \in Session \ {s} : Giving(t) => live'[t] = live[t]  BY GiveEffects
<1>8. Giving(s)' => live'[s] = live[s]  BY GiveEffects
<1>9. \A t \in Session \ {s} : give'[t] = give[t]
    BY <1>1 DEF GiveMove, TypeInv, TypeOK
<1>10. Giving(s)' => /\ give'[s].target = give[s].target /\ give'[s].slot = give[s].slot
                     /\ give'[s].copy < MaxVersion
    BY <1>1 DEF GiveMove, Giving, NoGive, TypeInv, TypeOK
<1>11. GivesInv'
    BY <1>1, <1>4, <1>7, <1>8, <1>9, <1>10 DEF people, TypeInv, GivesInv, Giving
<1> QED  BY <1>5, <1>6, <1>11 DEF TypeInv

LEMMA GiveBeginType ==
    ASSUME TypeInv, NEW s \in Session, NEW t \in Session, GiveBegin(s, t)
    PROVE  TypeInv'
<1>1. hook[t] \in Character /\ phase[s] = "game" /\ joined[s] /\ live[s] < MaxVersion
    BY DEF GiveBegin, TypeInv, TypeOK
<1>2. PICK r \in Character :
        give' = [give EXCEPT
            ![s] = [NoGive EXCEPT !.stage = "clone", !.target = hook[t], !.slot = r]]
    BY DEF GiveBegin
<1> DEFINE g == [NoGive EXCEPT !.stage = "clone", !.target = hook[t], !.slot = r]
<1>6. NoGive \in Give /\ NoGive.copy = 0
    BY VersionFacts DEF NoGive, Give, Stage, Empty
<1>7. 0 < MaxVersion
    BY MaxVersionAssumption
<1>3. /\ g \in Give /\ g.copy < MaxVersion
      /\ g.target \in Character /\ g.slot \in Character
    BY <1>1, <1>6, <1>7 DEF Give, Stage
<1>4. give' = [give EXCEPT ![s] = g]  BY <1>2
<1> HIDE DEF g
<1>5. UNCHANGED <<people, cached, live, name, row>>  BY DEF GiveBegin
<1>8. TypeOK' /\ LoadingInv'
    BY <1>3, <1>4, <1>5 DEF people, TypeInv, TypeOK, LoadingInv
<1>9. GivesInv'
    BY <1>1, <1>3, <1>4, <1>5 DEF people, TypeInv, TypeOK, GivesInv, Giving
<1> QED  BY <1>8, <1>9 DEF TypeInv

LEMMA TypeInvStep == TypeInv /\ [Next]_vars => TypeInv'
<1> SUFFICES ASSUME TypeInv, [Next]_vars PROVE TypeInv'  OBVIOUS
<1>1. ASSUME NEW s \in Session, Step(s) PROVE TypeInv'
    BY <1>1, EntryType, GameType, GiveBeginType, GiveOnType DEF Step
<1>2. CASE UNCHANGED vars
    BY <1>2 DEF vars, people, TypeInv, TypeOK, LoadingInv, GivesInv, Giving
<1> QED  BY <1>1, <1>2 DEF Next

LEMMA TypeInvInit == Init => TypeInv
<1> SUFFICES ASSUME Init PROVE TypeInv  OBVIOUS
<1>1. TypeOK  BY VersionFacts DEF Init, TypeOK, Phase, Empty, NoGive, Give, Stage
<1>2. LoadingInv /\ GivesInv  BY DEF Init, LoadingInv, GivesInv, Giving, NoGive
<1> QED  BY <1>1, <1>2 DEF TypeInv

LEMMA TypeInvHolds == Spec => []TypeInv
BY TypeInvInit, TypeInvStep, PTL DEF Spec

\* Every reachable state is well typed: saving, loading and registering keep
\* each of the four copies of a character within its range.
THEOREM PresenceTypeCorrect == Spec => []TypeOK
BY TypeInvHolds, PTL DEF TypeInv

-----------------------------------------------------------------------------
(* One entry per character, and no ghosts in GAME.                         *)

LEMMA GhostStep ==
    ASSUME TypeInv, NoGhostGame, [Next]_vars PROVE NoGhostGame'
<1> USE DEF TypeInv, TypeOK, NoGhostGame
<1>1. ASSUME NEW s \in Session, Step(s) PROVE NoGhostGame'
  <2>1. ASSUME NEW a \in Account, Authenticate(s, a) PROVE NoGhostGame'
      BY <2>1 DEF Authenticate
  <2>2. CASE SelectEmpire(s)  BY <2>2 DEF SelectEmpire, people
  <2>3. ASSUME NEW c \in Character, CreateCharacter(s, c) PROVE NoGhostGame'
      BY <2>3 DEF CreateCharacter, people
  <2>4. ASSUME NEW c \in Character, DeleteCharacter(s, c) PROVE NoGhostGame'
    <3>1. \A t \in Session : t # s => chosen'[t] = chosen[t]
        BY <2>4 DEF DeleteCharacter
    <3>2. phase[s] = "select" /\ UNCHANGED <<phase, joined, hook>>
        BY <2>4 DEF DeleteCharacter
    <3> QED  BY <3>1, <3>2
  <2>5. ASSUME NEW c \in Character, SelectCharacter(s, c) PROVE NoGhostGame'
      BY <2>5 DEF SelectCharacter
  <2>6. CASE EnterRefresh(s)  BY <2>6 DEF EnterRefresh
  <2>7. CASE EnterJoin(s)
    <3>1. phase[s] = "loading" /\ chosen[s] \in Character
        BY <2>7 DEF EnterJoin, LoadingInv
    <3>2. chosen[s] # NoCharacter  BY <3>1, SentinelAssumption
    <3> QED  BY <2>7, <3>1, <3>2 DEF EnterJoin
  <2>8. CASE Commit(s)  BY <2>8 DEF Commit, people
  <2>9. ASSUME UNCHANGED people PROVE NoGhostGame'
      BY <2>9 DEF people
  <2>10. ASSUME NEW next \in {"game", "closed", "select"}, LeaveWorld(s, next)
         PROVE  NoGhostGame'
      BY <2>10 DEF LeaveWorld
  <2>11. CASE Drop(s)  BY <2>11 DEF Drop
  <2>12. CASE DropLeave(s)  BY <2>12 DEF DropLeave
  <2>13. CASE Reconnect(s)  BY <2>13 DEF Reconnect
  <2> QED  BY <1>1, <2>1, <2>2, <2>3, <2>4, <2>5, <2>6, <2>7, <2>8, <2>9, <2>10,
              <2>11, <2>12, <2>13, GiveEffects DEF Step, GiveBegin
<1>2. CASE UNCHANGED vars
    BY <1>2 DEF vars, people
<1> QED  BY <1>1, <1>2 DEF Next

\* A session in GAME that plays a character is in the shared world, the shared
\* world holds exactly its character for it, and entries without a player are
\* those of connections on their way out.
THEOREM NoGhostInGame == Spec => []NoGhostGame
<1>1. Init => NoGhostGame  BY DEF Init, NoGhostGame
<1>2. TypeInv /\ NoGhostGame /\ [Next]_vars => NoGhostGame'  BY GhostStep
<1> QED  BY TypeInvHolds, <1>1, <1>2, PTL DEF Spec

\* Only ENTERGAME and the two ways of leaving touch the entries.
LEMMA HookFrame ==
    ASSUME TypeInv, NEW s \in Session, Step(s)
    PROVE  \/ UNCHANGED hook
           \/ EnterJoin(s) /\ ~LiveConflict(s) /\ hook' = [hook EXCEPT ![s] = chosen[s]]
           \/ hook' = [hook EXCEPT ![s] = NoCharacter]
BY GiveEffects
   DEF people, Step, Authenticate, SelectEmpire, CreateCharacter, DeleteCharacter, SelectCharacter,
       EnterRefresh, EnterJoin, Commit, GiveBegin, LeaveWorld, Drop, DropLeave, Reconnect

\* However many connections present the same ticket, and however characters of
\* different accounts are numbered and named, the shared world holds one entry
\* per VID and per name.
THEOREM OneEntryPerCharacter == Spec => []OneLiveEntry
<1>1. Init => OneLiveEntry  BY DEF Init, OneLiveEntry
<1>2. TypeInv /\ OneLiveEntry /\ [Next]_vars => OneLiveEntry'
  <2> SUFFICES ASSUME TypeInv, OneLiveEntry, [Next]_vars PROVE OneLiveEntry'  OBVIOUS
  <2>1. ASSUME NEW s \in Session, Step(s) PROVE OneLiveEntry'
    <3>1. CASE UNCHANGED hook
        BY <3>1 DEF OneLiveEntry, Clash
    <3>2. CASE ~LiveConflict(s) /\ hook' = [hook EXCEPT ![s] = chosen[s]]
        BY <3>2 DEF TypeInv, TypeOK, OneLiveEntry, LiveConflict, Clash
    <3>3. CASE hook' = [hook EXCEPT ![s] = NoCharacter]
        BY <3>3 DEF TypeInv, TypeOK, OneLiveEntry, Clash
    <3> QED  BY <2>1, <3>1, <3>2, <3>3, HookFrame
  <2>2. CASE UNCHANGED vars
      BY <2>2 DEF vars, people, OneLiveEntry, Clash
  <2> QED  BY <2>1, <2>2 DEF Next
<1> QED  BY TypeInvHolds, <1>1, <1>2, PTL DEF Spec

-----------------------------------------------------------------------------
(* Exclusive logins: names lead to owners.                                 *)
(*                                                                         *)
(* OwnerInv relates a session's account, ticket, selection, live copy and  *)
(* name.  LocalTo says that a step is the business of some sessions only;  *)
(* logins being exclusive, that includes the rows of their accounts.       *)

\* No two characters of the server have the same name.
NamesApart == \A c, d \in Character : NameOf[c] = NameOf[d] => c = d

AccountsApart ==
    \A s, t \in Session : s # t /\ account[s] = account[t] => account[s] = NoAccount

OwnerInv(s) ==
    /\ account[s] # NoAccount <=> phase[s] \in {"select", "loading", "game"}
    /\ chosen[s] # NoCharacter
          => AccountOf[chosen[s]] = account[s] /\ phase[s] \in {"loading", "game"}
    /\ account[s] # NoAccount
          => \A c \in Character : cached[s][c] # 0 => AccountOf[c] = account[s]
    /\ \A n \in Name : name[n] = s
          => /\ chosen[s] # NoCharacter
             /\ NameOf[chosen[s]] = n
             /\ live[s] = cached[s][chosen[s]]
    /\ entering[s] \/ joined[s]
          => chosen[s] # NoCharacter /\ name[NameOf[chosen[s]]] = s

NamesInv ==
    TypeInv /\ NoGhostGame /\ AccountsApart /\ \A s \in Session : OwnerInv(s)

\* A step that is the business of the sessions P alone.
LocalTo(P) ==
    /\ \A t \in Session \ P :
          /\ phase'[t] = phase[t] /\ account'[t] = account[t] /\ cached'[t] = cached[t]
          /\ chosen'[t] = chosen[t] /\ live'[t] = live[t] /\ give'[t] = give[t]
          /\ entering'[t] = entering[t] /\ joined'[t] = joined[t]
          /\ \A n \in Name : name'[n] = t <=> name[n] = t
    /\ \A c \in Character : (\A p \in P : AccountOf[c] # account[p]) => row'[c] = row[c]

\* A name of the own account is held by nobody else.
LEMMA NameIsOwn ==
    ASSUME NamesInv, NamesApart, NEW s \in Session, NEW c \in Character,
           AccountOf[c] = account[s]
    PROVE  name[NameOf[c]] \in {s, NoSession}
<1> SUFFICES ASSUME NEW t \in Session, t # s, name[NameOf[c]] = t PROVE FALSE
    BY DEF NamesInv, TypeInv, TypeOK, Name
<1>1. chosen[t] # NoCharacter /\ NameOf[chosen[t]] = NameOf[c]
    BY DEF NamesInv, OwnerInv, Name
<1>2. chosen[t] = c
    BY <1>1 DEF NamesInv, TypeInv, TypeOK, NamesApart
<1>3. account[t] = account[s]
    BY <1>1, <1>2 DEF NamesInv, OwnerInv
<1> QED  BY <1>3, OwnerAssumption, SentinelAssumption DEF NamesInv, AccountsApart

LEMMA NameFacts ==
    ASSUME TypeInv, NEW s \in Session
    PROVE  /\ \A n \in Name : Unregistered(s)[n] # s
           /\ \A t \in Session \ {s}, n \in Name : Unregistered(s)[n] = t <=> name[n] = t
           /\ \A c \in Character : name[NameOf[c]] \in {s, NoSession} =>
                 /\ \A n \in Name : Registered(s, c)[n] = s <=> n = NameOf[c]
                 /\ \A t \in Session \ {s}, n \in Name :
                       Registered(s, c)[n] = t <=> name[n] = t
<1>1. NoSession # s /\ \A t \in Session : t # NoSession  BY SentinelAssumption
<1>2. \A c \in Character : NameOf[c] \in Name  BY DEF Name
<1> QED  BY <1>1, <1>2 DEF TypeInv, TypeOK, Unregistered, Registered

\* What has to be shown of a step of one session.
LEMMA OthersOwn ==
    ASSUME NamesInv, NEW P \in SUBSET Session, LocalTo(P), NEW t \in Session \ P
    PROVE  OwnerInv(t)'
<1>1. OwnerInv(t) /\ t \in Session  BY DEF NamesInv
<1>2. chosen[t] # NoCharacter => NameOf[chosen[t]] \in Name
    BY DEF NamesInv, TypeInv, TypeOK, Name
<1>3. /\ phase'[t] = phase[t] /\ account'[t] = account[t] /\ cached'[t] = cached[t]
      /\ chosen'[t] = chosen[t] /\ live'[t] = live[t]
      /\ entering'[t] = entering[t] /\ joined'[t] = joined[t]
    BY DEF LocalTo
<1>4. \A n \in Name : name'[n] = t <=> name[n] = t
    BY DEF LocalTo
<1> QED  BY <1>1, <1>2, <1>3, <1>4 DEF OwnerInv

LEMMA OneOwner ==
    ASSUME NamesInv, NEW s \in Session, LocalTo({s}),
           TypeInv', NoGhostGame', OwnerInv(s)',
           account'[s] \in {account[s], NoAccount}
    PROVE  NamesInv' /\ LocalTo({s})
<1>1. \A t \in Session \ {s} : OwnerInv(t)'  BY OthersOwn
<1>2. AccountsApart'
    BY DEF NamesInv, AccountsApart, LocalTo
<1> QED  BY <1>1, <1>2 DEF NamesInv

\* LOGIN2.
LEMMA LoginOwner ==
    ASSUME NamesInv, Exclusive, TypeInv', NoGhostGame', NEW s \in Session,
           NEW a \in Account, Authenticate(s, a)
    PROVE  NamesInv' /\ LocalTo({s})
<1>0. TypeInv /\ TypeOK /\ OwnerInv(s) /\ NoGhostGame
    BY DEF NamesInv, TypeInv
<1>1. LocalTo({s})
    BY <1>0, NameFacts DEF Authenticate, LocalTo, TypeOK
<1>2. OwnerInv(s)'
  <2>1. /\ account'[s] = a /\ phase'[s] = "select" /\ chosen'[s] = NoCharacter
        /\ cached'[s] = Loaded(a)
        /\ name' = Unregistered(s) /\ ~entering'[s] /\ ~joined'[s]
      BY <1>0 DEF Authenticate, TypeOK, TypeInv, LoadingInv, NoGhostGame
  <2>2. \A c \in Character : cached'[s][c] # 0 => AccountOf[c] = a
      BY <2>1 DEF Loaded
  <2>3. \A n \in Name : name'[n] # s
      BY <1>0, <2>1, NameFacts
  <2> QED  BY <2>1, <2>2, <2>3, SentinelAssumption DEF OwnerInv
<1>3. AccountsApart'
    BY <1>0 DEF Authenticate, Available, AccountsApart, NamesInv, TypeOK
<1>4. \A t \in Session \ {s} : OwnerInv(t)'  BY <1>1, OthersOwn
<1> QED  BY <1>1, <1>2, <1>3, <1>4 DEF NamesInv

\* The SELECT phase.
LEMMA SelectOwner ==
    ASSUME NamesInv, NamesApart, TypeInv', NoGhostGame', NEW s \in Session,
           \/ SelectEmpire(s)
           \/ \E c \in Character :
                 CreateCharacter(s, c) \/ DeleteCharacter(s, c) \/ SelectCharacter(s, c)
    PROVE  NamesInv' /\ LocalTo({s})
<1>0. TypeInv /\ TypeOK /\ OwnerInv(s) /\ NoGhostGame
    BY DEF NamesInv, TypeInv
<1>2. ASSUME SelectEmpire(s) PROVE NamesInv' /\ LocalTo({s})
  <2>1. LocalTo({s})
      BY <1>2 DEF SelectEmpire, people, LocalTo, Saved
  <2>2. OwnerInv(s)'
      BY <1>0, <1>2 DEF SelectEmpire, people, OwnerInv
  <2> QED  BY <1>2, <2>1, <2>2, OneOwner DEF SelectEmpire, people
<1>3. ASSUME NEW c \in Character, CreateCharacter(s, c) PROVE NamesInv' /\ LocalTo({s})
  <2>1. cached'[s] = [cached[s] EXCEPT ![c] = 1]
      BY <1>0, <1>3 DEF CreateCharacter, TypeOK
  <2>2. \A d \in Character : AccountOf[d] # account[s] => row'[d] = row[d]
      BY <1>3 DEF CreateCharacter, Saved
  <2>3. LocalTo({s})
      BY <1>0, <1>3, <2>2 DEF CreateCharacter, people, LocalTo, TypeOK
  <2>4. cached[s] \in [Character -> Version]  BY <1>0 DEF TypeOK
  <2>5. chosen[s] = NoCharacter /\ ~joined[s] /\ ~entering[s]
      BY <1>0, <1>3 DEF CreateCharacter, OwnerInv, NoGhostGame, TypeInv, LoadingInv
  <2>6. OwnerInv(s)'
      BY <1>0, <1>3, <2>1, <2>4, <2>5 DEF CreateCharacter, people, OwnerInv
  <2> QED  BY <1>3, <2>3, <2>6, OneOwner DEF CreateCharacter, people
<1>4. ASSUME NEW c \in Character, DeleteCharacter(s, c) PROVE NamesInv' /\ LocalTo({s})
  <2>1. chosen[s] = NoCharacter /\ phase[s] = "select" /\ ~joined[s] /\ ~entering[s]
      BY <1>0, <1>4 DEF DeleteCharacter, OwnerInv, NoGhostGame, TypeInv, LoadingInv
  <2>2. c # NoCharacter  BY SentinelAssumption
  <2>3. UNCHANGED <<phase, account, chosen, live, entering, joined, name, give>>
      BY <1>4, <2>1, <2>2 DEF DeleteCharacter
  <2>4. /\ cached' = [cached EXCEPT ![s][c] = 0]
        /\ cached'[s] = [cached[s] EXCEPT ![c] = 0] /\ row' = Saved(account[s], cached'[s])
      BY <1>0, <1>4 DEF DeleteCharacter, TypeOK
  <2>5. LocalTo({s})
      BY <1>0, <2>3, <2>4 DEF LocalTo, Saved, TypeOK
  <2>6. \A d \in Character : cached'[s][d] # 0 => cached[s][d] # 0
      BY <1>0, <2>4 DEF TypeOK
  <2>7. OwnerInv(s)'
      BY <1>0, <2>1, <2>3, <2>6 DEF OwnerInv
  <2> QED  BY <2>3, <2>5, <2>7, OneOwner
<1>5. ASSUME NEW c \in Character, SelectCharacter(s, c) PROVE NamesInv' /\ LocalTo({s})
  <2>1. AccountOf[c] = account[s]
      BY <1>0, <1>5 DEF SelectCharacter, OwnerInv
  <2>2. /\ \A n \in Name : name'[n] = s <=> n = NameOf[c]
        /\ \A t \in Session \ {s}, n \in Name : name'[n] = t <=> name[n] = t
      BY <1>0, <1>5, <2>1, NameIsOwn, NameFacts DEF SelectCharacter
  <2>3. LocalTo({s})
      BY <1>0, <1>5, <2>2 DEF SelectCharacter, LocalTo, TypeOK
  <2>4. /\ phase'[s] = "loading" /\ chosen'[s] = c /\ live'[s] = cached[s][c]
        /\ ~entering'[s] /\ ~joined'[s] /\ UNCHANGED <<account, cached, row>>
      BY <1>0, <1>5 DEF SelectCharacter, TypeOK, TypeInv, LoadingInv, NoGhostGame
  <2>6. account[s] # NoAccount /\ c # NoCharacter
      BY <1>0, <1>5, SentinelAssumption DEF SelectCharacter, OwnerInv
  <2>7. OwnerInv(s)'
      BY <1>0, <2>1, <2>2, <2>4, <2>6 DEF OwnerInv
  <2> QED  BY <2>3, <2>4, <2>7, OneOwner
<1> QED  BY <1>2, <1>3, <1>4, <1>5

\* ENTERGAME.
LEMMA EnterOwner ==
    ASSUME NamesInv, NamesApart, TypeInv', NoGhostGame', NEW s \in Session,
           EnterRefresh(s) \/ EnterJoin(s)
    PROVE  NamesInv' /\ LocalTo({s})
<1>0. TypeInv /\ TypeOK /\ OwnerInv(s) /\ NoGhostGame
    BY DEF NamesInv, TypeInv
<1>1. ASSUME EnterRefresh(s) PROVE NamesInv' /\ LocalTo({s})
  <2> DEFINE c == chosen[s]
  <2>1. c \in Character /\ c # NoCharacter /\ AccountOf[c] = account[s] /\ ~joined[s]
      BY <1>0, <1>1, SentinelAssumption
      DEF EnterRefresh, TypeInv, LoadingInv, OwnerInv, NoGhostGame
  <2>2. UNCHANGED <<phase, account, chosen, joined, hook, row, give>> /\ phase[s] = "loading"
      BY <1>1 DEF EnterRefresh
  <2>3. cached'[s] \in {cached[s], Loaded(account[s])}
      BY <1>0, <1>1 DEF EnterRefresh, TypeOK
  <2>4. account[s] # NoAccount =>
            \A d \in Character : cached'[s][d] # 0 => AccountOf[d] = account[s]
      BY <1>0, <2>3 DEF OwnerInv, Loaded
  <2>5. CASE RefreshRejected(s)
    <3>1. /\ name' = Unregistered(s) /\ ~entering'[s]
          /\ live' = [live EXCEPT ![s] = 0] /\ entering' = entering
        BY <1>1, <2>5 DEF RefreshRejected, EnterRefresh
    <3>2. LocalTo({s})
        BY <1>0, <1>1, <2>2, <3>1, NameFacts DEF EnterRefresh, LocalTo, TypeOK
    <3>3. \A n \in Name : name'[n] # s
        BY <1>0, <3>1, NameFacts
    <3>4. OwnerInv(s)'
        BY <1>0, <2>1, <2>2, <2>4, <3>1, <3>3 DEF OwnerInv
    <3> QED  BY <2>2, <3>2, <3>4, OneOwner
  <2>6. CASE ~RefreshRejected(s)
    <3>1. /\ cached' = [cached EXCEPT ![s] = Loaded(account[s])]
          /\ live' = [live EXCEPT ![s] = row[c]] /\ name' = Registered(s, c)
          /\ entering' = [entering EXCEPT ![s] = TRUE]
        BY <1>1, <2>6 DEF EnterRefresh
    <3>2. /\ \A n \in Name : name'[n] = s <=> n = NameOf[c]
          /\ \A t \in Session \ {s}, n \in Name : name'[n] = t <=> name[n] = t
        BY <1>0, <2>1, <3>1, NameIsOwn, NameFacts
    <3>3. LocalTo({s})
        BY <1>0, <2>2, <3>1, <3>2 DEF LocalTo, TypeOK
    <3>4. live'[s] = row[c] /\ cached'[s][c] = row[c]
        BY <1>0, <2>1, <3>1 DEF TypeOK, Loaded
    <3>5. NameOf[c] \in Name  BY <2>1 DEF Name
    <3>6. OwnerInv(s)'
        BY <1>0, <2>1, <2>2, <2>4, <3>2, <3>4, <3>5 DEF OwnerInv
    <3> QED  BY <2>2, <3>3, <3>6, OneOwner
  <2> QED  BY <2>5, <2>6
<1>2. ASSUME EnterJoin(s) PROVE NamesInv' /\ LocalTo({s})
  <2>1. UNCHANGED <<account, cached, chosen, live, name, row, give>>
      BY <1>2 DEF EnterJoin
  <2>2. phase[s] = "loading" /\ phase'[s] \in {"loading", "game"} /\ entering[s]
      BY <1>0, <1>2 DEF EnterJoin, TypeInv, LoadingInv, TypeOK
  <2>3. LocalTo({s})
      BY <1>0, <1>2, <2>1 DEF EnterJoin, LocalTo, TypeOK
  <2>5. OwnerInv(s)'
      BY <1>0, <2>1, <2>2 DEF OwnerInv
  <2> QED  BY <2>1, <2>3, <2>5, OneOwner
<1> QED  BY <1>1, <1>2

\* An accepted change of the selected character, and the end of a give.
LEMMA CommitOwner ==
    ASSUME NamesInv, NamesApart, TypeInv', NoGhostGame', NEW s \in Session,
           Commit(s) \/ GiveClose(s)
    PROVE  NamesInv' /\ LocalTo({s})
<1> DEFINE c == chosen[s]
<1>0. TypeInv /\ TypeOK /\ OwnerInv(s) /\ NoGhostGame
    BY DEF NamesInv, TypeInv
<1>7. joined[s]
    BY <1>0 DEF Commit, GiveClose, At, Giving, TypeInv, GivesInv
<1>1. c \in Character /\ AccountOf[c] = account[s] /\ name[NameOf[c]] = s
    BY <1>0, <1>7, SentinelAssumption DEF NoGhostGame, OwnerInv, TypeOK
<1>2. UNCHANGED people /\ name' = Registered(s, c)
    BY DEF Commit, GiveClose
<1>3. /\ \A n \in Name : name'[n] = s <=> n = NameOf[c]
      /\ \A t \in Session \ {s}, n \in Name : name'[n] = t <=> name[n] = t
    BY <1>0, <1>1, <1>2, NameFacts
<1>4. NameOf[c] \in Name  BY <1>1 DEF Name
<1>8. \A t \in Session \ {s} : give'[t] = give[t]
    BY <1>0 DEF Commit, GiveClose, Finish, TypeOK
<1>5. CASE UNCHANGED <<cached, row, live>>
  <2>1. LocalTo({s})  BY <1>2, <1>3, <1>5, <1>8 DEF people, LocalTo
  <2>3. OwnerInv(s)'
      BY <1>0, <1>1, <1>2, <1>3, <1>4, <1>5, <1>7 DEF people, OwnerInv
  <2> QED  BY <1>2, <2>1, <2>3, OneOwner DEF people
<1>6. CASE ~UNCHANGED <<cached, row, live>>
  <2>1. /\ cached' = [cached EXCEPT ![s] = Bumped(s, c)]
        /\ live' = [live EXCEPT ![s] = @ + 1]
        /\ row' \in {row, Saved(account[s], cached'[s])}
      BY <1>6 DEF Commit, GiveClose, OwnSide
  <2>2. /\ cached'[s] = [cached[s] EXCEPT ![c] = live[s] + 1]
        /\ live'[s] = live[s] + 1
      BY <1>0, <2>1 DEF TypeOK, Bumped
  <2>3. LocalTo({s})
      BY <1>0, <1>2, <1>3, <1>8, <2>1 DEF people, LocalTo, Saved, TypeOK
  <2>4. cached[s] \in [Character -> Version]  BY <1>0 DEF TypeOK
  <2>6. live'[s] = cached'[s][c]
      BY <1>1, <2>2, <2>4
  <2>5. \A d \in Character : cached'[s][d] # 0 => d = c \/ cached[s][d] # 0
      BY <2>2, <2>4
  <2>7. OwnerInv(s)'
      BY <1>0, <1>1, <1>2, <1>3, <1>4, <1>7, <2>5, <2>6 DEF people, OwnerInv
  <2> QED  BY <1>2, <2>3, <2>7, OneOwner DEF people
<1> QED  BY <1>5, <1>6

\* Leaving, closing and coming back.
LEMMA LeaveOwner ==
    ASSUME NamesInv, TypeInv', NoGhostGame', NEW s \in Session,
           \/ \E next \in {"game", "closed", "select"} : LeaveWorld(s, next)
           \/ Drop(s) \/ DropLeave(s) \/ Reconnect(s)
    PROVE  NamesInv' /\ LocalTo({s})
<1>0. TypeInv /\ TypeOK /\ OwnerInv(s) /\ NoGhostGame
    BY DEF NamesInv, TypeInv
<1>1. ASSUME NEW next \in {"game", "closed", "select"}, LeaveWorld(s, next)
      PROVE  NamesInv' /\ LocalTo({s})
  <2>1. /\ phase[s] = "game" /\ phase'[s] = next /\ chosen'[s] = NoCharacter
        /\ account'[s] = (IF next = "closed" THEN NoAccount ELSE account[s])
        /\ cached'[s] = (IF next = "closed" THEN Empty ELSE cached[s])
        /\ ~entering'[s] /\ ~joined'[s] /\ name' = Unregistered(s)
      BY <1>0, <1>1 DEF LeaveWorld, TypeOK, TypeInv, LoadingInv
  <2>2. \A n \in Name : name'[n] # s  BY <1>0, <2>1, NameFacts
  <2>3. LocalTo({s})
      BY <1>0, <1>1, <2>1, NameFacts DEF LeaveWorld, LocalTo, TypeOK
  <2>5. OwnerInv(s)'
      BY <1>0, <2>1, <2>2 DEF OwnerInv
  <2> QED  BY <2>1, <2>3, <2>5, OneOwner
<1>2. ASSUME Drop(s) PROVE NamesInv' /\ LocalTo({s})
  <2>1. /\ phase'[s] = "closed" /\ chosen'[s] = NoCharacter /\ account'[s] = NoAccount
        /\ ~entering'[s] /\ ~joined'[s] /\ name' = Unregistered(s)
      BY <1>0, <1>2 DEF Drop, TypeOK
  <2>2. \A n \in Name : name'[n] # s  BY <1>0, <2>1, NameFacts
  <2>3. LocalTo({s})
      BY <1>0, <1>2, <2>1, NameFacts DEF Drop, LocalTo, TypeOK
  <2>5. OwnerInv(s)'
      BY <2>1, <2>2 DEF OwnerInv
  <2> QED  BY <2>1, <2>3, <2>5, OneOwner
<1>3. ASSUME DropLeave(s) PROVE NamesInv' /\ LocalTo({s})
  <2>1. LocalTo({s})  BY <1>3 DEF DropLeave, LocalTo
  <2>3. OwnerInv(s)'  BY <1>0, <1>3 DEF DropLeave, OwnerInv
  <2> QED  BY <1>3, <2>1, <2>3, OneOwner DEF DropLeave
<1>4. ASSUME Reconnect(s) PROVE NamesInv' /\ LocalTo({s})
  <2>1. /\ phase[s] = "closed" /\ phase'[s] = "login" /\ account[s] = NoAccount
        /\ UNCHANGED <<account, chosen, live, entering, joined, name, row>>
      BY <1>0, <1>4 DEF Reconnect, TypeOK, OwnerInv
  <2>2. LocalTo({s})
      BY <1>0, <1>4, <2>1 DEF Reconnect, LocalTo, TypeOK
  <2>4. chosen[s] = NoCharacter /\ ~entering[s] /\ ~joined[s]
      BY <1>0, <2>1 DEF OwnerInv, TypeInv, LoadingInv, NoGhostGame
  <2>5. OwnerInv(s)'
      BY <1>0, <2>1, <2>4 DEF OwnerInv
  <2> QED  BY <2>1, <2>2, <2>5, OneOwner
<1> QED  BY <1>1, <1>2, <1>3, <1>4

\* Of the steps of a give only the last two touch tickets, runtimes or names,
\* and GiveApply reaches the receiver through its name.
LEMMA GiveOwner ==
    ASSUME NamesInv, NamesApart, TypeInv', NoGhostGame', NEW s \in Session,
           (\E t \in Session : GiveBegin(s, t)) \/ GiveOn(s)
    PROVE  NamesInv'
<1>0. TypeInv /\ TypeOK /\ NoGhostGame
    BY DEF NamesInv, TypeInv
<1>1. ASSUME UNCHANGED <<people, cached, live, name>> PROVE NamesInv'
    BY <1>1 DEF people, NamesInv, AccountsApart, OwnerInv
<1>2. ASSUME GiveApply(s) PROVE NamesInv'
  <2>1. give[s].target \in Character
      BY <1>0, <1>2 DEF GiveApply, At, Giving, TypeInv, GivesInv
  <2>2. PICK w \in Session :
            w = Peer(s) /\ w = name[NameOf[give[s].target]] /\ NameOf[give[s].target] \in Name
      BY <1>0, <1>2, <2>1 DEF GiveApply, Reached, Peer, TypeOK, Name
  <2>10. PICK v : v = give[s].copy + 1
      OBVIOUS
  <2>3. /\ cached' = [cached EXCEPT ![w][chosen[w]] = v] /\ live' = [live EXCEPT ![w] = v]
        /\ UNCHANGED <<phase, account, chosen, entering, joined, hook, name>>
      BY <1>2, <2>2, <2>10 DEF GiveApply, people
  <2>4. OwnerInv(w) /\ chosen[w] # NoCharacter
      BY <2>2 DEF NamesInv, OwnerInv
  <2>5. chosen[w] \in Character
      BY <1>0, <2>2, <2>4 DEF TypeOK
  <2>6. /\ live'[w] = v /\ cached'[w] = [cached[w] EXCEPT ![chosen[w]] = v]
        /\ cached[w] \in [Character -> Version]
      BY <1>0, <2>2, <2>3 DEF TypeOK
  <2>7. \A c \in Character : cached'[w][c] = IF c = chosen[w] THEN v ELSE cached[w][c]
      BY <2>5, <2>6
  <2>8. OwnerInv(w)'
      BY <2>3, <2>4, <2>5, <2>6, <2>7 DEF OwnerInv
  <2>9. ASSUME NEW u \in Session, u # w PROVE OwnerInv(u)'
    <3>1. live'[u] = live[u] /\ cached'[u] = cached[u] /\ OwnerInv(u)
        BY <1>0, <2>2, <2>3, <2>9 DEF TypeOK, NamesInv
    <3> QED  BY <2>3, <3>1 DEF OwnerInv
  <2> QED  BY <2>2, <2>3, <2>8, <2>9 DEF NamesInv, AccountsApart
<1> QED
    BY <1>1, <1>2, CommitOwner
    DEF GiveBegin, GiveOn, GiveClone, GiveLoad, GiveRejected, GiveSave, GiveSavePeer,
        GivePeerRefused, GiveApplyRefused, GiveUndo, GiveUndoPeer

LEMMA NamesStep ==
    ASSUME Exclusive, NamesApart
    PROVE  NamesInv /\ [Next]_vars => NamesInv'
<1> SUFFICES ASSUME NamesInv, [Next]_vars PROVE NamesInv'  OBVIOUS
<1>1. TypeInv'  BY TypeInvStep DEF NamesInv
<1>2. NoGhostGame'  BY GhostStep DEF NamesInv
<1>3. ASSUME NEW s \in Session, Step(s) PROVE NamesInv'
    BY <1>1, <1>2, <1>3, LoginOwner, SelectOwner, EnterOwner, CommitOwner, LeaveOwner, GiveOwner
    DEF Step
<1>4. CASE UNCHANGED vars
    BY <1>1, <1>2, <1>4 DEF vars, people, NamesInv, AccountsApart, OwnerInv
<1> QED  BY <1>3, <1>4 DEF Next

LEMMA NamesHold ==
    ASSUME Exclusive, NamesApart
    PROVE  Spec => []NamesInv
<1>1. Init => NamesInv
  <2> SUFFICES ASSUME Init PROVE NamesInv  OBVIOUS
  <2>1. NoGhostGame /\ AccountsApart
      BY DEF Init, NoGhostGame, AccountsApart
  <2>2. \A s \in Session : OwnerInv(s)
      BY SentinelAssumption DEF Init, OwnerInv
  <2> QED  BY TypeInvInit, <2>1, <2>2 DEF NamesInv
<1> QED  BY <1>1, NamesStep, PTL DEF Spec

\* With exclusive logins and unique names, the name of every character in the
\* world leads to the session that plays it, however gives, saves that fail and
\* the steps of other sessions fall between one another.
THEOREM NameLeadsToOwner ==
    ASSUME Exclusive, NamesApart
    PROVE  Spec => []RegistrationIsOwner
<1>1. NamesInv => RegistrationIsOwner
    BY DEF NamesInv, OwnerInv, RegistrationIsOwner
<1> QED  BY NamesHold, <1>1, PTL

-----------------------------------------------------------------------------
(* Nobody uses the accounts of a give under way: the copies of a character *)
(* agree.                                                                  *)
(*                                                                         *)
(* The argument is per account.  A session's ticket and live copy agree    *)
(* with its rows, unless a give has saved these and not yet changed those. *)
(* GiveInv says what a give has read and saved so far; since no two gives  *)
(* have an account in common, and no other session begins a step with one  *)
(* of theirs, each is alone with its two accounts until it ends.           *)

\* The ticket of s holds what r has of its account, except for a character
\* whose creation could not be saved.
Matches(s, r) ==
    \A c \in Character : AccountOf[c] = account[s]
        => cached[s][c] = r[c] \/ (cached[s][c] = 1 /\ r[c] = 0)

Agrees(s, r) ==
    /\ Matches(s, r)
    /\ entering[s] \/ joined[s] => live[s] = r[chosen[s]]

\* A give has saved an account of s whose ticket it has yet to update.
Ahead(s) ==
    \/ give[s].stage \in {"save peer", "apply", "close"}
    \/ \E g \in Session : At(g, "apply") /\ AccountOf[give[g].slot] = account[s]

\* Two gives have no account in common.
GivesApart ==
    \A s, g \in Session : s # g /\ Giving(s) /\ Giving(g) =>
        /\ account[s] # account[g] /\ account[s] # AccountOf[give[g].slot]
        /\ AccountOf[give[s].slot] # AccountOf[give[g].slot]

\* The receiver is still the player who was found when the give began.
PeerInv(s) ==
    /\ give[s].slot = give[s].target
    /\ Peer(s) \in Session \ {s}
    /\ chosen[Peer(s)] = give[s].slot
    /\ account[Peer(s)] = AccountOf[give[s].slot]

\* What a give has read is what the parties hold.
ReadInv(s) ==
    /\ give[s].stage \in {"load", "save", "save peer", "apply"} => give[s].copy = live[Peer(s)]
    /\ give[s].stage \in {"save", "save peer", "apply"} =>
          /\ give[s].rows[give[s].slot] = give[s].copy
          /\ Matches(Peer(s), give[s].rows)
    /\ give[s].stage \in {"save", "save peer"} => Agrees(s, give[s].rows)

\* What it has saved, account by account.
SavedInv(s) ==
    /\ \A c \in Character : AccountOf[c] = account[s] =>
          /\ At(s, "save") => row[c] = give[s].rows[c]
          /\ give[s].stage \in {"save peer", "apply", "close"} => row[c] = OwnSide(s)[c]
    /\ \A c \in Character : AccountOf[c] = AccountOf[give[s].slot] =>
          /\ give[s].stage \in {"save", "save peer"} => row[c] = give[s].rows[c]
          /\ At(s, "apply") => row[c] = PeerSide(s)[c]

GiveInv(s) ==
    Giving(s) =>
        /\ give[s].stage \notin {"undo", "undo peer"}
        /\ PeerInv(s) /\ ReadInv(s) /\ SavedInv(s)

CopiesInv ==
    /\ NamesInv /\ GivesApart
    /\ \A s \in Session : (Ahead(s) \/ Agrees(s, row)) /\ GiveInv(s)

LEMMA Basics ==
    ASSUME CopiesInv, NEW s \in Session
    PROVE  /\ TypeInv /\ TypeOK /\ OwnerInv(s) /\ NoGhostGame
           /\ Ahead(s) \/ Agrees(s, row)
           /\ GiveInv(s)
           /\ account[s] # NoAccount => \A t \in Session \ {s} : account[t] # account[s]
           /\ entering[s] \/ joined[s]
                 => /\ chosen[s] \in Character /\ AccountOf[chosen[s]] = account[s]
                    /\ name[NameOf[chosen[s]]] = s /\ account[s] # NoAccount
BY OwnerAssumption, SentinelAssumption
   DEF CopiesInv, NamesInv, TypeInv, TypeOK, OwnerInv, AccountsApart

\* A give keeps its accounts from everyone who waits for them.
LEMMA NotInUse ==
    ASSUME NEW s \in Session, NEW a, a \notin InUse(s)
    PROVE  \A g \in Session \ {s} :
               Giving(g) => account[g] # a /\ AccountOf[give[g].slot] # a
BY DEF InUse

LEMMA NoAccountFree ==
    ASSUME CopiesInv, NEW s \in Session, account[s] = NoAccount
    PROVE  account[s] \notin InUse(s) /\ ~Giving(s)
<1>1. ASSUME NEW g \in Session, Giving(g)
      PROVE  account[g] # NoAccount /\ AccountOf[give[g].slot] # NoAccount
  <2>1. joined[g] /\ give[g].slot \in Character
      BY <1>1, Basics DEF TypeInv, GivesInv
  <2> QED  BY <2>1, Basics, OwnerAssumption, SentinelAssumption
<1> QED  BY <1>1 DEF InUse

\* A session in no give, whose account no give has in hand, is up to date.
LEMMA Steady ==
    ASSUME CopiesInv, NEW s \in Session, ~Giving(s), account[s] \notin InUse(s)
    PROVE  Agrees(s, row)
<1>1. \A g \in Session : At(g, "apply") => Giving(g)
    BY DEF At, Giving
<1>2. ~Ahead(s)
    BY <1>1, NotInUse DEF Ahead, Giving
<1> QED  BY <1>2, Basics

\* The sessions a step is no business of keep what they hold ...
LEMMA OthersAgree ==
    ASSUME CopiesInv, NEW P \in SUBSET Session, LocalTo(P), NEW t \in Session \ P,
           \A p \in P : ~(At(p, "apply") /\ AccountOf[give[p].slot] = account[t])
    PROVE  /\ \A c \in Character : AccountOf[c] = account[t] => row'[c] = row[c]
           /\ (Ahead(t) \/ Agrees(t, row))'
<1>0. TypeOK /\ OwnerInv(t)  BY Basics
<1>1. ASSUME NEW c \in Character, AccountOf[c] = account[t] PROVE row'[c] = row[c]
  <2>1. account[t] # NoAccount  BY <1>1, OwnerAssumption, SentinelAssumption
  <2>2. \A p \in P : AccountOf[c] # account[p]  BY <1>1, <2>1, Basics
  <2> QED  BY <2>2 DEF LocalTo
<1>2. /\ account'[t] = account[t] /\ cached'[t] = cached[t] /\ chosen'[t] = chosen[t]
      /\ live'[t] = live[t] /\ give'[t] = give[t]
      /\ entering'[t] = entering[t] /\ joined'[t] = joined[t]
    BY DEF LocalTo
<1>3. CASE Agrees(t, row)
  <2>1. Matches(t, row)'  BY <1>1, <1>2, <1>3 DEF Agrees, Matches
  <2>2. entering[t] \/ joined[t] => row'[chosen[t]] = row[chosen[t]]
      BY <1>1, Basics
  <2>3. Agrees(t, row)'  BY <1>2, <1>3, <2>1, <2>2 DEF Agrees
  <2> QED  BY <1>1, <2>3
<1>4. CASE Ahead(t)
  <2>1. CASE give[t].stage \in {"save peer", "apply", "close"}
      BY <1>1, <1>2, <2>1 DEF Ahead
  <2>2. CASE \E g \in Session : At(g, "apply") /\ AccountOf[give[g].slot] = account[t]
    <3>1. PICK g \in Session : At(g, "apply") /\ AccountOf[give[g].slot] = account[t]
        BY <2>2
    <3>2. give'[g] = give[g]  BY <3>1 DEF LocalTo
    <3>3. Ahead(t)'  BY <1>2, <3>1, <3>2 DEF Ahead, At
    <3> QED  BY <1>1, <3>3
  <2> QED  BY <1>4, <2>1, <2>2 DEF Ahead
<1> QED  BY <1>1, <1>3, <1>4, Basics

\* ... and so does a give, if the step is no business of its receiver either.
LEMMA OthersGive ==
    ASSUME CopiesInv, NEW P \in SUBSET Session, LocalTo(P), NEW t \in Session \ P,
           \A p \in P : ~(At(p, "apply") /\ AccountOf[give[p].slot] = account[t]),
           Giving(t) => \A p \in P : account[p] # AccountOf[give[t].slot]
    PROVE  GiveInv(t)'
<1>0. TypeInv /\ TypeOK /\ GiveInv(t)  BY Basics
<1>1. /\ account'[t] = account[t] /\ cached'[t] = cached[t] /\ chosen'[t] = chosen[t]
      /\ live'[t] = live[t] /\ give'[t] = give[t]
      /\ entering'[t] = entering[t] /\ joined'[t] = joined[t]
    BY DEF LocalTo
<1> SUFFICES ASSUME Giving(t) PROVE GiveInv(t)'
    BY <1>1 DEF GiveInv, Giving
<1>2. PeerInv(t) /\ ReadInv(t) /\ SavedInv(t) /\ give[t].stage \notin {"undo", "undo peer"}
    BY <1>0 DEF GiveInv
<1>3. PICK w \in Session \ {t} : w = Peer(t)
    BY <1>2 DEF PeerInv
<1>4. /\ chosen[w] = give[t].slot /\ account[w] = AccountOf[give[t].slot]
      /\ give[t].slot = give[t].target /\ w \notin P
    BY <1>2, <1>3 DEF PeerInv
<1>5. /\ chosen'[w] = chosen[w] /\ account'[w] = account[w] /\ cached'[w] = cached[w]
      /\ live'[w] = live[w]
    BY <1>4 DEF LocalTo
<1>6. Peer(t)' = w
  <2>1. NameOf[give[t].target] \in Name  BY <1>0 DEF TypeInv, GivesInv, Name
  <2>2. name[NameOf[give[t].target]] = w  BY <1>3 DEF Peer
  <2>3. name'[NameOf[give[t].target]] = w  BY <1>4, <2>1, <2>2 DEF LocalTo
  <2> QED  BY <1>1, <2>3 DEF Peer
<1>7. PeerInv(t)'
    BY <1>1, <1>3, <1>4, <1>5, <1>6 DEF PeerInv
<1>9. ReadInv(t)'
  <2>1. give[t].stage \in {"save", "save peer"} => Agrees(t, give[t].rows)'
      BY <1>1, <1>2 DEF ReadInv, Agrees, Matches
  <2>2. give[t].stage \in {"save", "save peer", "apply"} => Matches(w, give[t].rows)'
      BY <1>1, <1>2, <1>3, <1>5 DEF ReadInv, Matches
  <2> QED  BY <1>1, <1>2, <1>3, <1>5, <1>6, <2>1, <2>2 DEF ReadInv
<1>10. \A c \in Character : AccountOf[c] = account[t] => row'[c] = row[c]
    BY OthersAgree
<1>11. \A c \in Character : AccountOf[c] = AccountOf[give[t].slot] => row'[c] = row[c]
  <2> SUFFICES ASSUME NEW c \in Character, AccountOf[c] = account[w] PROVE row'[c] = row[c]
      BY <1>4
  <2>1. account[w] # NoAccount  BY OwnerAssumption, SentinelAssumption
  <2>2. \A p \in P : AccountOf[c] # account[p]  BY <1>3, <1>4, <2>1, Basics
  <2> QED  BY <2>2 DEF LocalTo
<1>12. OwnSide(t)' = OwnSide(t) /\ PeerSide(t)' = PeerSide(t)
    BY <1>1 DEF OwnSide, Bumped, PeerSide
<1>13. SavedInv(t)'
  <2>1. \A c \in Character : AccountOf[c] = account[t] =>
          /\ At(t, "save") => row'[c] = give[t].rows[c]
          /\ give[t].stage \in {"save peer", "apply", "close"} => row'[c] = OwnSide(t)[c]
      BY <1>2, <1>10 DEF SavedInv
  <2>2. \A c \in Character : AccountOf[c] = AccountOf[give[t].slot] =>
          /\ give[t].stage \in {"save", "save peer"} => row'[c] = give[t].rows[c]
          /\ At(t, "apply") => row'[c] = PeerSide(t)[c]
      BY <1>2, <1>11 DEF SavedInv
  <2>3. account'[t] = account[t] /\ give'[t] = give[t]  BY <1>1
  <2>4. \A stage : At(t, stage)' = At(t, stage)  BY <2>3 DEF At
  <2> QED  BY <1>12, <2>1, <2>2, <2>3, <2>4 DEF SavedInv
<1> QED  BY <1>1, <1>2, <1>7, <1>9, <1>13 DEF GiveInv

\* What has to be shown of a step of a session that is in no give.
LEMMA Ordinary ==
    ASSUME CopiesInv, NEW s \in Session, NamesInv', LocalTo({s}), give' = give,
           ~Giving(s), account[s] \notin InUse(s), Agrees(s, row)'
    PROVE  CopiesInv'
<1>1. ASSUME NEW t \in Session \ {s} PROVE (Ahead(t) \/ Agrees(t, row))' /\ GiveInv(t)'
  <2>1. \A p \in {s} : ~(At(p, "apply") /\ AccountOf[give[p].slot] = account[t])
      BY DEF At, Giving
  <2>2. Giving(t) => \A p \in {s} : account[p] # AccountOf[give[t].slot]
      BY NotInUse
  <2> QED  BY <2>1, <2>2, OthersAgree, OthersGive
<1>2. GiveInv(s)'  BY DEF GiveInv, Giving
<1>3. GivesApart'
    BY DEF CopiesInv, GivesApart, Giving, LocalTo
<1> QED  BY <1>1, <1>2, <1>3 DEF CopiesInv

\* LOGIN2 and the SELECT phase.
LEMMA SelectCopies ==
    ASSUME CopiesInv, ~Contend, NamesInv', NEW s \in Session, LocalTo({s}),
           \/ \E a \in Account : Authenticate(s, a)
           \/ SelectEmpire(s)
           \/ \E c \in Character :
                 CreateCharacter(s, c) \/ DeleteCharacter(s, c) \/ SelectCharacter(s, c)
    PROVE  CopiesInv'
<1>0. TypeInv /\ TypeOK /\ OwnerInv(s) /\ NoGhostGame
    BY Basics
<1>1. ASSUME NEW a \in Account, Authenticate(s, a) PROVE CopiesInv'
  <2>1. account[s] \notin InUse(s) /\ ~Giving(s)
      BY <1>0, <1>1, NoAccountFree DEF Authenticate, OwnerInv
  <2>2. /\ account'[s] = a /\ cached'[s] = Loaded(a) /\ row' = row
        /\ ~entering'[s] /\ ~joined'[s] /\ give' = give
      BY <1>0, <1>1 DEF Authenticate, TypeOK, TypeInv, LoadingInv, NoGhostGame
  <2>3. Agrees(s, row)'
      BY <2>2 DEF Agrees, Matches, Loaded
  <2> QED  BY <2>1, <2>2, <2>3, Ordinary
<1> SUFFICES ASSUME ~\E a \in Account : Authenticate(s, a) PROVE CopiesInv'
    BY <1>1
<1>2. ~Giving(s) /\ account[s] \notin InUse(s) /\ give' = give
    BY DEF SelectEmpire, CreateCharacter, DeleteCharacter, SelectCharacter, Ready
<1>3. Matches(s, row) /\ ~entering[s] /\ ~joined[s]
    BY <1>0, <1>2, Steady
    DEF Agrees, SelectEmpire, CreateCharacter, DeleteCharacter, SelectCharacter,
        TypeInv, LoadingInv, NoGhostGame
<1> SUFFICES Matches(s, row)' /\ ~entering'[s] /\ ~joined'[s]
    BY <1>2, Ordinary DEF Agrees
<1>4. CASE SelectEmpire(s)
    BY <1>0, <1>3, <1>4 DEF SelectEmpire, people, Matches, Saved
<1>5. ASSUME NEW c \in Character, CreateCharacter(s, c)
      PROVE  Matches(s, row)' /\ ~entering'[s] /\ ~joined'[s]
  <2>1. cached'[s] = [cached[s] EXCEPT ![c] = 1] /\ UNCHANGED people
      BY <1>0, <1>5 DEF CreateCharacter, TypeOK
  <2>2. cached[s] \in [Character -> Version] /\ row[c] = 0
      BY <1>0, <1>3, <1>5 DEF CreateCharacter, TypeOK, Matches
  <2>3. CASE row' = Saved(account[s], cached'[s])
      BY <1>3, <2>1, <2>2, <2>3 DEF people, Matches, Saved
  <2>4. CASE row' = row
      BY <1>3, <2>1, <2>2, <2>4 DEF people, Matches
  <2> QED  BY <1>5, <2>3, <2>4 DEF CreateCharacter
<1>6. ASSUME NEW c \in Character, DeleteCharacter(s, c)
      PROVE  Matches(s, row)' /\ ~entering'[s] /\ ~joined'[s]
    BY <1>3, <1>6 DEF DeleteCharacter, Matches, Saved
<1>7. ASSUME NEW c \in Character, SelectCharacter(s, c)
      PROVE  Matches(s, row)' /\ ~entering'[s] /\ ~joined'[s]
    BY <1>3, <1>7 DEF SelectCharacter, Matches
<1> QED  BY <1>4, <1>5, <1>6, <1>7

\* ENTERGAME.
LEMMA EnterCopies ==
    ASSUME CopiesInv, ~Contend, NamesInv', NEW s \in Session, LocalTo({s}),
           EnterRefresh(s) \/ EnterJoin(s)
    PROVE  CopiesInv'
<1>0. TypeInv /\ TypeOK /\ OwnerInv(s) /\ NoGhostGame
    BY Basics
<1>1. CASE EnterRefresh(s)
  <2>1. ~Giving(s) /\ account[s] \notin InUse(s) /\ give' = give /\ UNCHANGED row
      BY <1>1 DEF EnterRefresh, Ready
  <2>2. Agrees(s, row)  BY <2>1, Steady
  <2>3. UNCHANGED <<account, chosen, joined>> /\ phase[s] = "loading" /\ ~joined[s]
      BY <1>0, <1>1 DEF EnterRefresh, NoGhostGame
  <2>4. cached'[s] \in {cached[s], Loaded(account[s])}
      BY <1>0, <1>1 DEF EnterRefresh, TypeOK
  <2>5. Matches(s, row)'
      BY <2>1, <2>2, <2>3, <2>4 DEF Agrees, Matches, Loaded
  <2>6. entering'[s] => live'[s] = row[chosen[s]]
      BY <1>0, <1>1 DEF EnterRefresh, RefreshRejected, TypeOK
  <2>7. Agrees(s, row)'
      BY <2>1, <2>3, <2>5, <2>6 DEF Agrees
  <2> QED  BY <2>1, <2>7, Ordinary
<1>2. CASE EnterJoin(s)
  <2>1. UNCHANGED <<account, cached, chosen, live, name, row, give>>
      BY <1>2 DEF EnterJoin
  <2>2. \A t \in Session : entering'[t] \/ joined'[t] => entering[t] \/ joined[t]
      BY <1>0, <1>2 DEF EnterJoin, TypeOK
  <2>4. ASSUME NEW t \in Session PROVE (Ahead(t) \/ Agrees(t, row))' /\ GiveInv(t)'
    <3>1. Ahead(t) => Ahead(t)'  BY <2>1 DEF Ahead, At
    <3>2. Agrees(t, row) => Agrees(t, row)'  BY <2>1, <2>2 DEF Agrees, Matches
    <3>3. Agrees(t, give[t].rows) => Agrees(t, give[t].rows)'
        BY <2>1, <2>2 DEF Agrees, Matches
    <3>4. Matches(Peer(t), give[t].rows) => Matches(Peer(t), give[t].rows)'
        BY <2>1 DEF Matches, Peer
    <3>6. PeerInv(t) => PeerInv(t)'  BY <2>1 DEF PeerInv, Peer
    <3>7. Peer(t)' = Peer(t) /\ live[Peer(t)]' = live[Peer(t)]  BY <2>1 DEF Peer
    <3>8. ReadInv(t) => ReadInv(t)'  BY <2>1, <3>3, <3>4, <3>7 DEF ReadInv
    <3>9. OwnSide(t)' = OwnSide(t) /\ PeerSide(t)' = PeerSide(t)
        BY <2>1 DEF OwnSide, PeerSide, Bumped
    <3>10. SavedInv(t) => SavedInv(t)'  BY <2>1, <3>9 DEF SavedInv, At
    <3>5. GiveInv(t)'
        BY <2>1, <3>6, <3>8, <3>10, Basics DEF GiveInv, Giving
    <3> QED  BY <3>1, <3>2, <3>5, Basics
  <2>5. GivesApart'  BY <2>1 DEF CopiesInv, GivesApart, Giving
  <2> QED  BY <2>4, <2>5 DEF CopiesInv
<1> QED  BY <1>1, <1>2

\* An accepted change of the selected character.
LEMMA CommitCopies ==
    ASSUME CopiesInv, ~Contend, NamesInv', NEW s \in Session, LocalTo({s}), Commit(s)
    PROVE  CopiesInv'
<1> DEFINE c == chosen[s]
<1>0. TypeInv /\ TypeOK
    BY Basics
<1>1. ~Giving(s) /\ account[s] \notin InUse(s) /\ give' = give /\ UNCHANGED people
    BY DEF Commit, Ready
<1>2. Agrees(s, row)  BY <1>1, Steady
<1>3. c \in Character /\ AccountOf[c] = account[s]
    BY Basics DEF Commit
<1>4. CASE UNCHANGED <<cached, row, live>>
  <2>1. Agrees(s, row)'  BY <1>1, <1>2, <1>4 DEF people, Agrees, Matches
  <2> QED  BY <1>1, <2>1, Ordinary
<1>5. CASE ~UNCHANGED <<cached, row, live>>
  <2>1. /\ cached' = [cached EXCEPT ![s] = Bumped(s, c)]
        /\ row' = Saved(account[s], cached'[s])
        /\ live' = [live EXCEPT ![s] = @ + 1]
      BY <1>5 DEF Commit
  <2>2. cached'[s] = [cached[s] EXCEPT ![c] = live[s] + 1] /\ live'[s] = live[s] + 1
      BY <1>0, <2>1 DEF TypeOK, Bumped
  <2>3. \A d \in Character : AccountOf[d] = account[s] => row'[d] = cached'[s][d]
      BY <2>1 DEF Saved
  <2>4. cached[s] \in [Character -> Version]  BY <1>0 DEF TypeOK
  <2>5. row'[c] = live'[s]
      BY <1>3, <2>2, <2>3, <2>4
  <2>6. Agrees(s, row)'
      BY <1>1, <2>3, <2>5 DEF people, Agrees, Matches
  <2> QED  BY <1>1, <2>6, Ordinary
<1> QED  BY <1>4, <1>5

\* Leaving, closing and coming back.
LEMMA LeaveCopies ==
    ASSUME CopiesInv, ~Contend, NamesInv', NEW s \in Session, LocalTo({s}),
           \/ \E next \in {"game", "closed", "select"} : LeaveWorld(s, next)
           \/ Drop(s) \/ DropLeave(s) \/ Reconnect(s)
    PROVE  CopiesInv'
<1>0. TypeInv /\ TypeOK /\ OwnerInv(s) /\ NoGhostGame
    BY Basics
<1>1. ASSUME NEW next \in {"game", "closed", "select"}, LeaveWorld(s, next)
      PROVE  CopiesInv'
  <2>1. ~Giving(s) /\ account[s] \notin InUse(s) /\ give' = give /\ row' = row
      BY <1>1 DEF LeaveWorld, Ready
  <2>2. Matches(s, row)  BY <2>1, Steady DEF Agrees
  <2>3. /\ ~entering'[s] /\ ~joined'[s]
        /\ account'[s] = NoAccount \/ (account'[s] = account[s] /\ cached'[s] = cached[s])
      BY <1>0, <1>1 DEF LeaveWorld, TypeOK, TypeInv, LoadingInv
  <2>4. Agrees(s, row)'
      BY <2>1, <2>2, <2>3, OwnerAssumption, SentinelAssumption DEF Agrees, Matches
  <2> QED  BY <2>1, <2>4, Ordinary
<1>2. CASE Drop(s)
  <2>1. ~Giving(s) /\ account[s] \notin InUse(s) /\ give' = give
      BY <1>2 DEF Drop, Ready
  <2>2. account'[s] = NoAccount /\ ~entering'[s] /\ ~joined'[s]
      BY <1>0, <1>2 DEF Drop, TypeOK
  <2>3. Agrees(s, row)'
      BY <2>2, OwnerAssumption, SentinelAssumption DEF Agrees, Matches
  <2> QED  BY <2>1, <2>3, Ordinary
<1>3. CASE DropLeave(s) \/ Reconnect(s)
  <2>1. account[s] = NoAccount /\ give' = give
      BY <1>0, <1>3 DEF DropLeave, Reconnect, OwnerInv
  <2>2. account'[s] = NoAccount /\ ~entering'[s] /\ ~joined'[s]
      BY <1>0, <1>3, <2>1 DEF DropLeave, Reconnect, TypeInv, LoadingInv, NoGhostGame
  <2>3. Agrees(s, row)'
      BY <2>2, OwnerAssumption, SentinelAssumption DEF Agrees, Matches
  <2> QED  BY <2>1, <2>3, NoAccountFree, Ordinary
<1> QED  BY <1>1, <1>2, <1>3

-----------------------------------------------------------------------------
(* The steps of a give.                                                    *)

\* The parties of a give: two players of two accounts that no other give has.
GivePair(s, w) ==
    /\ w = Peer(s) /\ w \in Session \ {s} /\ ~Giving(w)
    /\ give[s].slot \in Character /\ give[s].target = give[s].slot
    /\ chosen[w] = give[s].slot /\ account[w] = AccountOf[give[s].slot]
    /\ joined[s] /\ chosen[s] \in Character /\ AccountOf[chosen[s]] = account[s]
    /\ account[s] # NoAccount /\ account[w] # NoAccount
    /\ \A t \in Session \ {s} : account[t] # account[s]
    /\ \A t \in Session \ {w} : account[t] # account[w]
    /\ \A g \in Session \ {s} : Giving(g) =>
          /\ account[s] \notin {account[g], AccountOf[give[g].slot]}
          /\ account[w] \notin {account[g], AccountOf[give[g].slot]}

LEMMA GiveFinds ==
    ASSUME CopiesInv, NEW s \in Session, Giving(s)
    PROVE  \E w \in Session : GivePair(s, w)
<1>1. /\ joined[s] /\ give[s].slot \in Character
      /\ chosen[s] \in Character /\ AccountOf[chosen[s]] = account[s] /\ account[s] # NoAccount
    BY Basics DEF TypeInv, GivesInv
<1>2. PeerInv(s)  BY Basics DEF GiveInv
<1>3. PICK w \in Session \ {s} : w = Peer(s)  BY <1>2 DEF PeerInv
<1>4. /\ give[s].target = give[s].slot
      /\ chosen[w] = give[s].slot /\ account[w] = AccountOf[give[s].slot]
    BY <1>2, <1>3 DEF PeerInv
<1>5. account[w] # NoAccount
    BY <1>1, <1>4, OwnerAssumption, SentinelAssumption
<1>6. /\ \A t \in Session \ {s} : account[t] # account[s]
      /\ \A t \in Session \ {w} : account[t] # account[w]
    BY <1>1, <1>5, Basics
<1>7. \A g \in Session \ {s} : Giving(g) =>
          /\ account[s] \notin {account[g], AccountOf[give[g].slot]}
          /\ account[w] \notin {account[g], AccountOf[give[g].slot]}
    BY <1>4 DEF CopiesInv, GivesApart
<1>8. ~Giving(w)  BY <1>3, <1>7
<1> QED  BY <1>1, <1>3, <1>4, <1>5, <1>6, <1>7, <1>8 DEF GivePair

\* What has to be shown of a step of a give.
LEMMA GiveAlone ==
    ASSUME CopiesInv, NEW s \in Session, NEW w \in Session, GivePair(s, w), Giving(s),
           NEW P \in SUBSET Session, LocalTo(P), s \in P, P \subseteq {s, w},
           At(s, "apply") => w \in P,
           NamesInv', UNCHANGED account, give'[w] = give[w],
           Giving(s)' => give'[s].slot = give[s].slot,
           \A p \in P : (Ahead(p) \/ Agrees(p, row))',
           GiveInv(s)'
    PROVE  CopiesInv'
<1>1. ASSUME NEW t \in Session \ P PROVE (Ahead(t) \/ Agrees(t, row))' /\ GiveInv(t)'
  <2>1. \A p \in P : ~(At(p, "apply") /\ AccountOf[give[p].slot] = account[t])
    <3> SUFFICES ASSUME NEW p \in P, At(p, "apply"), AccountOf[give[p].slot] = account[t]
                 PROVE  FALSE
        OBVIOUS
    <3>1. p = s  BY DEF GivePair, At, Giving
    <3> QED  BY <3>1 DEF GivePair
  <2>2. Giving(t) => \A p \in P : account[p] # AccountOf[give[t].slot]
      BY DEF GivePair
  <2> QED  BY <2>1, <2>2, OthersAgree, OthersGive
<1>2. \A p \in P : GiveInv(p)'
    BY DEF GivePair, GiveInv, Giving
<1>3. GivesApart'
  <2>1. \A g \in Session \ {s} : give'[g] = give[g]
      BY DEF LocalTo
  <2> QED  BY <2>1 DEF CopiesInv, GivesApart, Giving
<1> QED  BY <1>1, <1>2, <1>3 DEF CopiesInv

LEMMA GiveBeginCopies ==
    ASSUME CopiesInv, ~Contend, NamesApart, NamesInv', NEW s \in Session, NEW t \in Session,
           GiveBegin(s, t)
    PROVE  CopiesInv'
<1>0. TypeInv /\ TypeOK  BY Basics
<1>1. /\ ~Giving(s) /\ account[s] \notin InUse(s)
      /\ UNCHANGED <<people, cached, live, name, row>>
    BY DEF GiveBegin, Ready
<1>2. PICK w : w = name[NameOf[hook[t]]] /\ w \in Session \ {s}
    BY <1>0 DEF GiveBegin, TypeOK, Name
<1>3. PICK r \in Character :
        /\ AccountOf[r] = account[w] /\ IdOf[r] = IdOf[hook[t]] /\ AccountOf[r] \notin InUse(s)
        /\ give' = [give EXCEPT
               ![s] = [NoGive EXCEPT !.stage = "clone", !.target = hook[t], !.slot = r]]
    BY <1>2 DEF GiveBegin
<1>4. hook[t] \in Character /\ NameOf[hook[t]] \in Name
    BY <1>0 DEF GiveBegin, TypeOK, Name
<1>5. chosen[w] = hook[t]
  <2>1. OwnerInv(w)  BY <1>2, Basics
  <2>2. chosen[w] # NoCharacter /\ NameOf[chosen[w]] = NameOf[hook[t]]
      BY <1>2, <1>4, <2>1 DEF OwnerInv
  <2>3. chosen[w] \in Character
      BY <1>0, <1>2, <2>2 DEF TypeOK
  <2> QED  BY <1>4, <2>2, <2>3 DEF NamesApart
<1>6. r = hook[t] /\ account[w] = AccountOf[r]
    BY <1>2, <1>3, <1>4, <1>5, Basics, SentinelAssumption, IdentityAssumption DEF OwnerInv
<1>7. /\ give'[s].stage = "clone" /\ give'[s].target = hook[t] /\ give'[s].slot = r
      /\ \A g \in Session \ {s} : give'[g] = give[g]
    BY <1>0, <1>3 DEF TypeOK, NoGive
<1>8. LocalTo({s})
    BY <1>1, <1>7 DEF people, LocalTo
<1>9. (Ahead(s) \/ Agrees(s, row))'
  <2>1. Agrees(s, row)  BY <1>1, Steady
  <2> QED  BY <1>1, <2>1 DEF people, Agrees, Matches
<1>10. GiveInv(s)'
  <2>1. Peer(s)' = w  BY <1>1, <1>2, <1>7 DEF Peer
  <2>2. PeerInv(s)'
      BY <1>1, <1>2, <1>5, <1>6, <1>7, <2>1 DEF people, PeerInv
  <2> QED  BY <1>7, <2>2 DEF GiveInv, ReadInv, SavedInv, At
<1>11. ASSUME NEW u \in Session \ {s} PROVE (Ahead(u) \/ Agrees(u, row))' /\ GiveInv(u)'
  <2>1. \A p \in {s} : ~(At(p, "apply") /\ AccountOf[give[p].slot] = account[u])
      BY <1>1 DEF At, Giving
  <2>2. Giving(u) => \A p \in {s} : account[p] # AccountOf[give[u].slot]
      BY <1>1, NotInUse
  <2> QED  BY <1>8, <2>1, <2>2, OthersAgree, OthersGive
<1>12. GivesApart'
  <2>1. \A g \in Session \ {s} : Giving(g) =>
            /\ account[s] \notin {account[g], AccountOf[give[g].slot]}
            /\ AccountOf[r] \notin {account[g], AccountOf[give[g].slot]}
      BY <1>1, <1>3, NotInUse
  <2>2. \A g, h \in Session \ {s} : g # h /\ Giving(g) /\ Giving(h) =>
            /\ account[g] # account[h] /\ account[g] # AccountOf[give[h].slot]
            /\ AccountOf[give[g].slot] # AccountOf[give[h].slot]
      BY DEF CopiesInv, GivesApart
  <2>3. account' = account /\ \A g \in Session \ {s} : Giving(g)' = Giving(g)
      BY <1>1, <1>7 DEF people, Giving
  <2> QED  BY <1>7, <2>1, <2>2, <2>3 DEF GivesApart
<1> QED  BY <1>9, <1>10, <1>11, <1>12 DEF CopiesInv

\* What a give may rely on, by the stage it is in.
LEMMA GiveKnows ==
    ASSUME CopiesInv, NEW s \in Session, NEW w \in Session, GivePair(s, w), Giving(s)
    PROVE  /\ give[s].stage \notin {"undo", "undo peer"}
           /\ give[s].stage \in {"load", "save", "save peer", "apply"} => give[s].copy = live[w]
           /\ give[s].stage \in {"save", "save peer", "apply"} =>
                 give[s].rows[give[s].slot] = give[s].copy /\ Matches(w, give[s].rows)
           /\ give[s].stage \in {"save", "save peer"} => Agrees(s, give[s].rows)
           /\ SavedInv(s)
           /\ give[s].stage \in {"clone", "load", "save"} => Agrees(s, row)
           /\ ~At(s, "apply") => Agrees(w, row)
<1>1. PeerInv(s) /\ ReadInv(s) /\ SavedInv(s) /\ give[s].stage \notin {"undo", "undo peer"}
    BY Basics DEF GiveInv
<1>2. w = Peer(s)  BY DEF GivePair
<1>3. \A g \in Session : At(g, "apply") => Giving(g)  BY DEF At, Giving
<1>4. give[s].stage \in {"clone", "load", "save"} => ~Ahead(s)
    BY <1>3 DEF GivePair, Ahead, At
<1>5. ~At(s, "apply") => ~Ahead(w)
    BY <1>3 DEF GivePair, Ahead, Giving
<1> QED  BY <1>1, <1>2, <1>4, <1>5, Basics DEF ReadInv

\* A receiver is always reached: it cannot have left.
LEMMA NeverMissed ==
    ASSUME NEW s \in Session, NEW w \in Session, GivePair(s, w), Missed(s)
    PROVE  FALSE
BY SentinelAssumption DEF GivePair, Missed

\* The steps that only read.
LEMMA GiveReadCopies ==
    ASSUME CopiesInv, NamesInv', NEW s \in Session, NEW w \in Session, GivePair(s, w),
           GiveClone(s) \/ GiveLoad(s) \/ GiveRejected(s)
    PROVE  CopiesInv'
<1>0. TypeInv /\ TypeOK  BY Basics
<1>1. /\ UNCHANGED <<people, cached, live, name, row>>
      /\ give[s].stage \in {"clone", "load", "save"} /\ Giving(s) /\ ~At(s, "apply")
    BY DEF GiveClone, GiveLoad, GiveRejected, At, Giving
<1>2. \A g \in Session \ {s} : give'[g] = give[g]
    BY <1>0 DEF GiveClone, GiveLoad, GiveRejected, Finish, TypeOK
<1>3. LocalTo({s})  BY <1>1, <1>2 DEF people, LocalTo
<1>4. Agrees(s, row) /\ Agrees(w, row)  BY <1>1, GiveKnows
<1>5. Agrees(s, row)'  BY <1>1, <1>4 DEF people, Agrees, Matches
<1>6. w # s /\ w = Peer(s)  BY DEF GivePair
<1>7. ASSUME GiveInv(s)', Giving(s)' => give'[s].slot = give[s].slot PROVE CopiesInv'
  <2>1. UNCHANGED account  BY <1>1 DEF people
  <2> QED  BY <1>1, <1>2, <1>3, <1>5, <1>6, <1>7, <2>1, GiveAlone
<1>8. ASSUME GiveClone(s) PROVE CopiesInv'
  <2>1. /\ give'[s].stage = "load" /\ give'[s].copy = live[w]
        /\ give'[s].target = give[s].target /\ give'[s].slot = give[s].slot
      BY <1>0, <1>6, <1>8 DEF GiveClone, TypeOK, Give
  <2>2. Peer(s)' = w  BY <1>1, <1>6, <2>1 DEF Peer
  <2>3. PeerInv(s)'
      BY <1>1, <1>6, <2>1, <2>2 DEF people, PeerInv, GivePair
  <2>4. GiveInv(s)'
      BY <1>1, <2>1, <2>2, <2>3 DEF GiveInv, ReadInv, SavedInv, At
  <2> QED  BY <1>7, <2>1, <2>4
<1>9. ASSUME GiveLoad(s) PROVE CopiesInv'
  <2> DEFINE R == [c \in Character |-> IF AccountOf[c] \in {account[s], AccountOf[give[s].slot]}
                                         THEN row[c] ELSE 0]
  <2>1. /\ give'[s].stage = "save" /\ give'[s].rows = R /\ give'[s].copy = give[s].copy
        /\ give'[s].target = give[s].target /\ give'[s].slot = give[s].slot
      BY <1>0, <1>9 DEF GiveLoad, TypeOK, Give
  <2>2. Peer(s)' = w  BY <1>1, <1>6, <2>1 DEF Peer
  <2>3. PeerInv(s)'
      BY <1>1, <1>6, <2>1, <2>2 DEF people, PeerInv, GivePair
  <2>4. At(s, "load") /\ row[give[s].slot] # 0 /\ give[s].copy = live[w]
      BY <1>1, <1>9, GiveKnows DEF GiveLoad, At
  <2>5. live[w] = cached[w][chosen[w]] /\ chosen[w] = give[s].slot
    <3>1. name[NameOf[give[s].target]] = w /\ NameOf[give[s].target] \in Name
        BY <1>0, <1>6 DEF Peer, GivePair, Name
    <3>2. OwnerInv(w)  BY Basics
    <3> QED  BY <3>1, <3>2 DEF OwnerInv, GivePair
  <2>6. row[give[s].slot] = live[w]
      BY <1>4, <2>4, <2>5 DEF Agrees, Matches, GivePair
  <2>7. \A c \in Character : AccountOf[c] \in {account[s], account[w]} => give'[s].rows[c] = row[c]
      BY <2>1 DEF GivePair
  <2>8. give[s].slot \in Character /\ AccountOf[give[s].slot] = account[w]
      BY DEF GivePair
  <2>9. chosen[s] \in Character /\ AccountOf[chosen[s]] = account[s]
      BY DEF GivePair
  <2>10. give'[s].rows[give[s].slot] = give'[s].copy
      BY <2>1, <2>4, <2>6, <2>7, <2>8
  <2> HIDE DEF R
  <2>11. Matches(w, give[s].rows)'
    <3>1. \A c \in Character : AccountOf[c] = account[w]
             => cached[w][c] = give'[s].rows[c] \/ (cached[w][c] = 1 /\ give'[s].rows[c] = 0)
        BY <1>4, <2>7 DEF Agrees, Matches
    <3> QED  BY <1>1, <3>1 DEF people, Matches
  <2>12. Agrees(s, give[s].rows)'
    <3>1. \A c \in Character : AccountOf[c] = account[s]
             => cached[s][c] = give'[s].rows[c] \/ (cached[s][c] = 1 /\ give'[s].rows[c] = 0)
        BY <1>4, <2>7 DEF Agrees, Matches
    <3>2. live[s] = give'[s].rows[chosen[s]]
        BY <1>4, <2>7, <2>9 DEF Agrees, GivePair
    <3> QED  BY <1>1, <3>1, <3>2 DEF people, Agrees, Matches
  <2>13. ReadInv(s)'
    <3>1. give'[s].copy = live'[w]  BY <1>1, <2>1, <2>4
    <3> QED  BY <2>1, <2>2, <2>10, <2>11, <2>12, <3>1 DEF ReadInv
  <2>14. SavedInv(s)'
      BY <1>1, <2>1, <2>7, <2>8 DEF people, SavedInv, At
  <2>15. GiveInv(s)'
      BY <2>1, <2>3, <2>13, <2>14 DEF GiveInv
  <2> QED  BY <1>7, <2>1, <2>15
<1>10. ASSUME GiveRejected(s) PROVE CopiesInv'
  <2>1. ~Giving(s)'
      BY <1>0, <1>10 DEF GiveRejected, Finish, NoGive, Giving, TypeOK
  <2> QED  BY <1>7, <2>1 DEF GiveInv
<1> QED  BY <1>8, <1>9, <1>10

LEMMA Advanced ==
    ASSUME TypeOK, NEW s \in Session, NEW stage, Advance(s, stage)
    PROVE  /\ give'[s].stage = stage
           /\ give'[s].target = give[s].target /\ give'[s].slot = give[s].slot
           /\ give'[s].copy = give[s].copy /\ give'[s].rows = give[s].rows
           /\ \A g \in Session \ {s} : give'[g] = give[g]
BY DEF Advance, TypeOK, Give

\* The two saves, and the first one taken back.
LEMMA GiveSaveCopies ==
    ASSUME CopiesInv, NamesInv', NEW s \in Session, NEW w \in Session, GivePair(s, w), GiveSave(s)
    PROVE  CopiesInv'
<1>0. TypeInv /\ TypeOK  BY Basics
<1>1. /\ give[s].stage = "save" /\ Giving(s) /\ ~At(s, "apply")
      /\ row' = Saved(account[s], OwnSide(s)) /\ UNCHANGED <<people, cached, live, name>>
    BY DEF GiveSave, At, Giving
<1>2. /\ give'[s].stage = "save peer"
      /\ give'[s].target = give[s].target /\ give'[s].slot = give[s].slot
      /\ give'[s].copy = give[s].copy /\ give'[s].rows = give[s].rows
      /\ \A g \in Session \ {s} : give'[g] = give[g]
    BY <1>0, Advanced DEF GiveSave
<1>3. LocalTo({s})
    BY <1>1, <1>2 DEF people, LocalTo, Saved
<1>4. Ahead(s)'  BY <1>2 DEF Ahead
<1>5. w # s /\ w = Peer(s) /\ UNCHANGED account  BY <1>1 DEF GivePair, people
<1>6. Peer(s)' = w  BY <1>1, <1>2, <1>5 DEF Peer
<1>7. PeerInv(s)'  BY <1>1, <1>2, <1>5, <1>6 DEF people, PeerInv, GivePair
<1>8. /\ give[s].copy = live[w] /\ give[s].rows[give[s].slot] = give[s].copy
      /\ Matches(w, give[s].rows) /\ Agrees(s, give[s].rows) /\ SavedInv(s)
    BY <1>1, GiveKnows
<1>9. ReadInv(s)'
  <2>1. Matches(w, give[s].rows)'  BY <1>1, <1>2, <1>8 DEF people, Matches
  <2>2. Agrees(s, give[s].rows)'  BY <1>1, <1>2, <1>8 DEF people, Agrees, Matches
  <2> QED  BY <1>1, <1>2, <1>6, <1>8, <2>1, <2>2 DEF ReadInv
<1>10. SavedInv(s)'
  <2>1. OwnSide(s)' = OwnSide(s)  BY <1>1 DEF people, OwnSide, Bumped
  <2>2. \A c \in Character : AccountOf[c] = account[s] => row'[c] = OwnSide(s)[c]
      BY <1>1 DEF Saved
  <2>3. \A c \in Character : AccountOf[c] = account[w] => row'[c] = give[s].rows[c]
      BY <1>1, <1>8 DEF Saved, SavedInv, GivePair
  <2>4. AccountOf[give[s].slot] = account[w]  BY DEF GivePair
  <2> QED  BY <1>1, <1>2, <2>1, <2>2, <2>3, <2>4 DEF people, SavedInv, At
<1>11. GiveInv(s)'  BY <1>2, <1>7, <1>9, <1>10 DEF GiveInv
<1> QED  BY <1>1, <1>2, <1>3, <1>4, <1>5, <1>11, GiveAlone

LEMMA GiveSavePeerCopies ==
    ASSUME CopiesInv, NamesInv', NEW s \in Session, NEW w \in Session, GivePair(s, w),
           GiveSavePeer(s)
    PROVE  CopiesInv'
<1>0. TypeInv /\ TypeOK  BY Basics
<1>1. /\ give[s].stage = "save peer" /\ Giving(s) /\ ~At(s, "apply")
      /\ row' = Saved(AccountOf[give[s].slot], PeerSide(s))
      /\ UNCHANGED <<people, cached, live, name>>
    BY DEF GiveSavePeer, At, Giving
<1>2. /\ give'[s].stage = "apply"
      /\ give'[s].target = give[s].target /\ give'[s].slot = give[s].slot
      /\ give'[s].copy = give[s].copy /\ give'[s].rows = give[s].rows
      /\ \A g \in Session \ {s} : give'[g] = give[g]
    BY <1>0, Advanced DEF GiveSavePeer
<1>4. AccountOf[give[s].slot] = account[w]  BY DEF GivePair
<1>3. LocalTo({s, w})
    BY <1>1, <1>2, <1>4 DEF people, LocalTo, Saved
<1>5. w # s /\ w = Peer(s) /\ UNCHANGED account  BY <1>1 DEF GivePair, people
<1>12. Ahead(s)' /\ Ahead(w)'  BY <1>2, <1>4, <1>5 DEF Ahead, At
<1>6. Peer(s)' = w  BY <1>1, <1>2, <1>5 DEF Peer
<1>7. PeerInv(s)'  BY <1>1, <1>2, <1>5, <1>6 DEF people, PeerInv, GivePair
<1>8. /\ give[s].copy = live[w] /\ give[s].rows[give[s].slot] = give[s].copy
      /\ Matches(w, give[s].rows) /\ SavedInv(s)
    BY <1>1, GiveKnows
<1>9. ReadInv(s)'
  <2>1. Matches(w, give[s].rows)'  BY <1>1, <1>2, <1>8 DEF people, Matches
  <2> QED  BY <1>1, <1>2, <1>6, <1>8, <2>1 DEF ReadInv
<1>10. SavedInv(s)'
  <2>1. OwnSide(s)' = OwnSide(s) /\ PeerSide(s)' = PeerSide(s)
      BY <1>1, <1>2 DEF people, OwnSide, PeerSide, Bumped
  <2>2. \A c \in Character : AccountOf[c] = account[s] => row'[c] = OwnSide(s)[c]
      BY <1>1, <1>4, <1>8 DEF Saved, SavedInv, GivePair
  <2>3. \A c \in Character : AccountOf[c] = account[w] => row'[c] = PeerSide(s)[c]
      BY <1>1, <1>4 DEF Saved
  <2> QED  BY <1>1, <1>2, <1>4, <2>1, <2>2, <2>3 DEF people, SavedInv, At
<1>11. GiveInv(s)'  BY <1>2, <1>7, <1>9, <1>10 DEF GiveInv
<1> QED  BY <1>1, <1>2, <1>3, <1>5, <1>11, <1>12, GiveAlone

LEMMA GivePeerRefusedCopies ==
    ASSUME CopiesInv, ~RestoreFails, NamesInv', NEW s \in Session, NEW w \in Session,
           GivePair(s, w), GivePeerRefused(s)
    PROVE  CopiesInv'
<1>0. TypeInv /\ TypeOK  BY Basics
<1>1. /\ give[s].stage = "save peer" /\ Giving(s) /\ ~At(s, "apply")
      /\ row' = Saved(account[s], give[s].rows) /\ UNCHANGED <<people, cached, live, name>>
    BY DEF GivePeerRefused, PutBack, At, Giving
<1>2. ~Giving(s)' /\ \A g \in Session \ {s} : give'[g] = give[g]
    BY <1>0 DEF GivePeerRefused, Finish, NoGive, Giving, TypeOK
<1>3. LocalTo({s})
    BY <1>1, <1>2 DEF people, LocalTo, Saved
<1>4. Agrees(s, give[s].rows)  BY <1>1, GiveKnows
<1>5. w # s /\ UNCHANGED account  BY <1>1 DEF GivePair, people
<1>6. \A c \in Character : AccountOf[c] = account[s] => row'[c] = give[s].rows[c]
    BY <1>1 DEF Saved
<1>7. chosen[s] \in Character /\ AccountOf[chosen[s]] = account[s]  BY DEF GivePair
<1>8. Agrees(s, row)'
    BY <1>1, <1>4, <1>6, <1>7 DEF people, Agrees, Matches
<1>9. GiveInv(s)'  BY <1>2 DEF GiveInv
<1> QED  BY <1>1, <1>2, <1>3, <1>5, <1>8, <1>9, GiveAlone

\* The receiver's runtime and ticket follow what was saved ...
LEMMA GiveApplyCopies ==
    ASSUME CopiesInv, NamesInv', NEW s \in Session, NEW w \in Session, GivePair(s, w), GiveApply(s)
    PROVE  CopiesInv'
<1>0. TypeInv /\ TypeOK  BY Basics
<1>4. /\ AccountOf[give[s].slot] = account[w] /\ chosen[w] = give[s].slot /\ w # s
      /\ w = Peer(s) /\ chosen[w] \in Character
    BY DEF GivePair
<1>10. PICK v : v = give[s].copy + 1  OBVIOUS
<1>1. /\ give[s].stage = "apply" /\ Giving(s) /\ UNCHANGED <<people, name, row>>
      /\ cached' = [cached EXCEPT ![w][chosen[w]] = v] /\ live' = [live EXCEPT ![w] = v]
    BY <1>4, <1>10 DEF GiveApply, At, Giving
<1>2. /\ give'[s].stage = "close"
      /\ give'[s].target = give[s].target /\ give'[s].slot = give[s].slot
      /\ \A g \in Session \ {s} : give'[g] = give[g]
    BY <1>0 DEF GiveApply, TypeOK, Give
<1>3. LocalTo({s, w})
    BY <1>0, <1>1, <1>2 DEF people, LocalTo, TypeOK
<1>5. UNCHANGED account  BY <1>1 DEF people
<1>6. Peer(s)' = w  BY <1>1, <1>2, <1>4 DEF Peer
<1>7. PeerInv(s)'  BY <1>1, <1>2, <1>4, <1>6 DEF people, PeerInv, GivePair
<1>8. Matches(w, give[s].rows) /\ SavedInv(s)
    BY <1>1, GiveKnows
<1>9. cached'[s] = cached[s] /\ live'[s] = live[s]
    BY <1>0, <1>1, <1>4 DEF TypeOK
<1>11. SavedInv(s)'
  <2>1. OwnSide(s)' = OwnSide(s)  BY <1>1, <1>9 DEF people, OwnSide, Bumped
  <2> QED  BY <1>1, <1>2, <1>8, <2>1 DEF people, SavedInv, At
<1>12. GiveInv(s)'  BY <1>2, <1>7, <1>11 DEF GiveInv, ReadInv
<1>13. Ahead(s)'  BY <1>2 DEF Ahead
<1>14. Agrees(w, row)'
  <2>1. give[s].rows \in [Character -> Version]  BY <1>0 DEF TypeOK, Give
  <2>2. \A c \in Character : AccountOf[c] = account[w] =>
            row[c] = IF c = chosen[w] THEN v ELSE give[s].rows[c]
      BY <1>1, <1>4, <1>8, <1>10, <2>1 DEF SavedInv, PeerSide, At
  <2>3. cached'[w] = [cached[w] EXCEPT ![chosen[w]] = v] /\ live'[w] = v
      BY <1>0, <1>1 DEF TypeOK
  <2>4. cached[w] \in [Character -> Version]  BY <1>0 DEF TypeOK
  <2>5. \A c \in Character : cached'[w][c] = IF c = chosen[w] THEN v ELSE cached[w][c]
      BY <1>4, <2>3, <2>4
  <2>6. Matches(w, row)'
      BY <1>1, <1>8, <2>2, <2>5 DEF people, Matches
  <2> QED  BY <1>1, <1>4, <2>2, <2>3, <2>6 DEF people, Agrees
<1> QED  BY <1>1, <1>2, <1>3, <1>4, <1>5, <1>12, <1>13, <1>14, GiveAlone

\* ... and then the giver's.
LEMMA GiveCloseCopies ==
    ASSUME CopiesInv, NamesApart, NamesInv', NEW s \in Session, NEW w \in Session,
           GivePair(s, w), GiveClose(s)
    PROVE  CopiesInv'
<1>0. TypeInv /\ TypeOK /\ NamesInv /\ (TypeInv /\ NoGhostGame)'
    BY Basics DEF CopiesInv, NamesInv
<1>1. /\ give[s].stage = "close" /\ Giving(s) /\ ~At(s, "apply") /\ UNCHANGED <<people, row>>
      /\ cached' = [cached EXCEPT ![s] = OwnSide(s)] /\ live' = [live EXCEPT ![s] = @ + 1]
    BY DEF GiveClose, At, Giving
<1>2. ~Giving(s)' /\ \A g \in Session \ {s} : give'[g] = give[g]
    BY <1>0 DEF GiveClose, Finish, NoGive, Giving, TypeOK
<1>3. LocalTo({s})  BY <1>0, CommitOwner
<1>4. SavedInv(s)  BY <1>1, GiveKnows
<1>5. w # s /\ UNCHANGED account  BY <1>1 DEF GivePair, people
<1>6. chosen[s] \in Character /\ AccountOf[chosen[s]] = account[s]  BY DEF GivePair
<1>7. /\ cached'[s] = OwnSide(s) /\ live'[s] = live[s] + 1
      /\ cached[s] \in [Character -> Version]
    BY <1>0, <1>1 DEF TypeOK
<1>8. OwnSide(s)[chosen[s]] = live[s] + 1
    BY <1>6, <1>7 DEF OwnSide, Bumped
<1>9. \A c \in Character : AccountOf[c] = account[s] => row[c] = cached'[s][c]
    BY <1>1, <1>4, <1>7 DEF SavedInv
<1>10. Agrees(s, row)'
    BY <1>1, <1>6, <1>7, <1>8, <1>9 DEF people, Agrees, Matches
<1>11. GiveInv(s)'  BY <1>2 DEF GiveInv
<1> QED  BY <1>1, <1>2, <1>3, <1>5, <1>10, <1>11, GiveAlone

LEMMA GiveCopies ==
    ASSUME CopiesInv, ~RestoreFails, NamesApart, NamesInv', NEW s \in Session, GiveOn(s)
    PROVE  CopiesInv'
<1>1. Giving(s)  BY GiveMoves, Basics
<1>2. PICK w \in Session : GivePair(s, w)  BY <1>1, GiveFinds
<1>3. ~GiveApplyRefused(s)  BY <1>2, NeverMissed DEF GiveApplyRefused
<1>4. ~GiveUndo(s) /\ ~GiveUndoPeer(s)
    BY <1>1, <1>2, GiveKnows DEF GiveUndo, GiveUndoPeer, At
<1> QED
    BY <1>2, <1>3, <1>4, GiveReadCopies, GiveSaveCopies, GiveSavePeerCopies,
       GivePeerRefusedCopies, GiveApplyCopies, GiveCloseCopies
    DEF GiveOn

LEMMA CopiesStep ==
    ASSUME Exclusive, ~Contend, ~RestoreFails, NamesApart
    PROVE  CopiesInv /\ [Next]_vars => CopiesInv'
<1> SUFFICES ASSUME CopiesInv, [Next]_vars PROVE CopiesInv'  OBVIOUS
<1>1. NamesInv /\ NamesInv'  BY NamesStep DEF CopiesInv
<1>2. TypeInv' /\ NoGhostGame'  BY <1>1 DEF NamesInv
<1>3. ASSUME NEW s \in Session, Step(s) PROVE CopiesInv'
  <2>1. ASSUME NEW a \in Account, Authenticate(s, a) PROVE CopiesInv'
      BY <1>1, <1>2, <2>1, LoginOwner, SelectCopies
  <2>2. CASE \/ SelectEmpire(s)
             \/ \E c \in Character :
                   CreateCharacter(s, c) \/ DeleteCharacter(s, c) \/ SelectCharacter(s, c)
    <3>1. LocalTo({s})  BY <1>1, <1>2, <2>2, SelectOwner
    <3> QED  BY <1>1, <2>2, <3>1, SelectCopies
  <2>3. CASE EnterRefresh(s) \/ EnterJoin(s)
      BY <1>1, <1>2, <2>3, EnterOwner, EnterCopies
  <2>4. CASE Commit(s)
      BY <1>1, <1>2, <2>4, CommitOwner, CommitCopies
  <2>5. CASE \/ \E next \in {"game", "closed", "select"} : LeaveWorld(s, next)
             \/ Drop(s) \/ DropLeave(s) \/ Reconnect(s)
    <3>1. LocalTo({s})  BY <1>1, <1>2, <2>5, LeaveOwner
    <3> QED  BY <1>1, <2>5, <3>1, LeaveCopies
  <2>6. ASSUME NEW t \in Session, GiveBegin(s, t) PROVE CopiesInv'
      BY <1>1, <2>6, GiveBeginCopies
  <2>7. CASE GiveOn(s)
      BY <1>1, <2>7, GiveCopies
  <2> QED  BY <1>3, <2>1, <2>2, <2>3, <2>4, <2>5, <2>6, <2>7 DEF Step
<1>4. CASE UNCHANGED vars
  <2>1. UNCHANGED <<people, cached, live, name, give, row>>  BY <1>4 DEF vars
  <2>2. ASSUME NEW s \in Session PROVE (Ahead(s) \/ Agrees(s, row))' /\ GiveInv(s)'
    <3>1. Ahead(s) => Ahead(s)'  BY <2>1 DEF people, Ahead, At
    <3>2. Agrees(s, row) => Agrees(s, row)'  BY <2>1 DEF people, Agrees, Matches
    <3>3. PeerInv(s) => PeerInv(s)'  BY <2>1 DEF people, PeerInv, Peer
    <3>4. ReadInv(s) => ReadInv(s)'
        BY <2>1 DEF people, ReadInv, Peer, Agrees, Matches
    <3>5. OwnSide(s)' = OwnSide(s) /\ PeerSide(s)' = PeerSide(s)
        BY <2>1 DEF people, OwnSide, PeerSide, Bumped
    <3>6. SavedInv(s) => SavedInv(s)'  BY <2>1, <3>5 DEF people, SavedInv, At
    <3> QED  BY <2>1, <3>1, <3>2, <3>3, <3>4, <3>6, Basics DEF GiveInv, Giving
  <2>3. GivesApart'  BY <2>1 DEF people, CopiesInv, GivesApart, Giving
  <2> QED  BY <1>1, <2>2, <2>3 DEF CopiesInv
<1> QED  BY <1>3, <1>4 DEF Next

LEMMA CopiesHold ==
    ASSUME Exclusive, ~Contend, ~RestoreFails, NamesApart
    PROVE  Spec => []CopiesInv
<1>1. Init => CopiesInv
  <2> SUFFICES ASSUME Init PROVE CopiesInv  OBVIOUS
  <2>1. NoGhostGame /\ AccountsApart
      BY DEF Init, NoGhostGame, AccountsApart
  <2>2. \A s \in Session : OwnerInv(s)
      BY SentinelAssumption DEF Init, OwnerInv
  <2>3. NamesInv  BY TypeInvInit, <2>1, <2>2 DEF NamesInv
  <2>4. \A s \in Session : ~Giving(s) /\ account[s] = NoAccount /\ ~entering[s] /\ ~joined[s]
      BY DEF Init, Giving, NoGive
  <2>5. \A s \in Session : Agrees(s, row)
      BY <2>4, OwnerAssumption, SentinelAssumption DEF Agrees, Matches
  <2> QED  BY <2>3, <2>4, <2>5 DEF CopiesInv, GivesApart, GiveInv
<1> QED  BY <1>1, CopiesStep, PTL DEF Spec

\* With exclusive logins, unique names and restores that succeed, and as long as
\* no other session uses the two accounts of a give under way, whoever is in the
\* world plays what its account row holds, whatever loads and saves are refused.
THEOREM PlaysThePersistedRow ==
    ASSUME Exclusive, ~Contend, ~RestoreFails, NamesApart
    PROVE  Spec => []RowIsLive
<1>1. ASSUME CopiesInv PROVE RowIsLive
  <2> SUFFICES ASSUME NEW s \in Session, joined[s], Settled(s) PROVE row[chosen[s]] = live[s]
      BY DEF RowIsLive
  <2>1. ~Giving(s)  BY DEF Settled
  <2>2. ASSUME NEW g \in Session, At(g, "apply"), AccountOf[give[g].slot] = account[s]
        PROVE  FALSE
    <3>1. Giving(g)  BY <2>2 DEF At, Giving
    <3>2. PICK w \in Session : GivePair(g, w)  BY <1>1, <3>1, GiveFinds
    <3>3. w = s /\ give[g].slot = chosen[s]  BY <2>2, <3>2 DEF GivePair
    <3> QED  BY <3>1, <3>3 DEF Settled
  <2>3. ~Ahead(s)  BY <2>1, <2>2 DEF Ahead, Giving
  <2> QED  BY <1>1, <2>3, Basics DEF Agrees
<1> QED  BY CopiesHold, <1>1, PTL

\* What NoRollback asks of one character's row.
RowMoves(c) ==
    \/ row'[c] >= row[c] /\ (row[c] = 0 => row'[c] \in {0, 1})
    \/ row'[c] = 0 /\ \E s \in Session : phase[s] = "select" /\ cached[s][c] # cached'[s][c]
    \/ \E s \in Session : Undone(s, c)

\* A session that saves its cached ticket, one slot of it apart, takes no other
\* row back.
LEMMA SavingTicket ==
    ASSUME TypeOK, NEW s \in Session, Matches(s, row),
           NEW c \in Character, row'[c] = IF AccountOf[c] = account[s] THEN cached[s][c] ELSE row[c]
    PROVE  RowMoves(c)
<1>1. row[c] \in Nat /\ cached[s][c] \in Nat
    BY MaxVersionAssumption DEF TypeOK, Version
<1>2. CASE AccountOf[c] # account[s]
    BY <1>1, <1>2 DEF RowMoves
<1>3. CASE AccountOf[c] = account[s]
  <2>1. cached[s][c] = row[c] \/ (cached[s][c] = 1 /\ row[c] = 0)
      BY <1>3 DEF Matches
  <2> QED  BY <1>1, <1>3, <2>1 DEF RowMoves
<1> QED  BY <1>2, <1>3

\* ... and with its character one version on, only that one moves.
LEMMA SavingBumped ==
    ASSUME TypeOK, NEW s \in Session, Agrees(s, row), joined[s],
           chosen[s] \in Character, AccountOf[chosen[s]] = account[s],
           row' = Saved(account[s], Bumped(s, chosen[s])), NEW c \in Character
    PROVE  RowMoves(c)
<1>1. row[c] \in Nat /\ live[s] \in Nat /\ cached[s] \in [Character -> Version]
    BY MaxVersionAssumption DEF TypeOK, Version
<1>2. CASE c # chosen[s]
  <2>1. row'[c] = IF AccountOf[c] = account[s] THEN cached[s][c] ELSE row[c]
      BY <1>1, <1>2 DEF Saved, Bumped
  <2> QED  BY <2>1, SavingTicket DEF Agrees
<1>3. CASE c = chosen[s]
  <2>1. row'[c] = live[s] + 1 /\ live[s] = row[c]
      BY <1>1, <1>3 DEF Saved, Bumped, Agrees
  <2> QED  BY <1>1, <2>1 DEF RowMoves
<1> QED  BY <1>2, <1>3

LEMMA GiveRows ==
    ASSUME CopiesInv, ~RestoreFails, NEW s \in Session, GiveOn(s), NEW c \in Character
    PROVE  RowMoves(c)
<1>0. TypeInv /\ TypeOK  BY Basics
<1>1. Giving(s)  BY <1>0, GiveMoves
<1>2. PICK w \in Session : GivePair(s, w)  BY <1>1, GiveFinds
<1>3. row[c] \in Nat  BY <1>0, MaxVersionAssumption DEF TypeOK, Version
<1>9. ASSUME row'[c] = row[c] PROVE RowMoves(c)
    BY <1>3, <1>9 DEF RowMoves
<1>4. CASE UNCHANGED row
    BY <1>4, <1>9
<1>5. ASSUME GiveSave(s) PROVE RowMoves(c)
  <2>1. give[s].stage = "save" /\ row' = Saved(account[s], Bumped(s, chosen[s]))
      BY <1>5 DEF GiveSave, At, OwnSide
  <2>2. Agrees(s, row)  BY <1>1, <1>2, <2>1, GiveKnows
  <2> QED  BY <1>0, <1>2, <2>1, <2>2, SavingBumped DEF GivePair
<1>6. ASSUME GiveSavePeer(s) PROVE RowMoves(c)
  <2>1. give[s].stage = "save peer" /\ row' = Saved(AccountOf[give[s].slot], PeerSide(s))
      BY <1>6 DEF GiveSavePeer, At
  <2>2. SavedInv(s) /\ give[s].rows[give[s].slot] = give[s].copy
      BY <1>1, <1>2, <2>1, GiveKnows
  <2>3. give[s].rows \in [Character -> Version] /\ give[s].copy \in Nat
      BY <1>0, MaxVersionAssumption DEF TypeOK, Give, Version
  <2>4. CASE AccountOf[c] # AccountOf[give[s].slot]
      BY <1>9, <2>1, <2>4 DEF Saved
  <2>5. CASE AccountOf[c] = AccountOf[give[s].slot]
    <3>1. row[c] = give[s].rows[c]  BY <2>1, <2>2, <2>5 DEF SavedInv
    <3>2. row'[c] = IF c = give[s].slot THEN give[s].copy + 1 ELSE give[s].rows[c]
        BY <2>1, <2>3, <2>5 DEF Saved, PeerSide
    <3>3. c = give[s].slot => row[c] = give[s].copy  BY <2>2, <3>1
    <3>4. PICK k \in Nat : k = row[c]  BY <1>3
    <3>5. row'[c] \in {k, k + 1} /\ (row'[c] = k + 1 => c = give[s].slot)
        BY <2>3, <3>1, <3>2, <3>3, <3>4
    <3> QED  BY <3>4, <3>5 DEF RowMoves
  <2> QED  BY <2>4, <2>5
<1>7. ASSUME GivePeerRefused(s) PROVE RowMoves(c)
  <2>1. give[s].stage = "save peer" /\ row' = Saved(account[s], give[s].rows)
      BY <1>7 DEF GivePeerRefused, PutBack, At
  <2>2. CASE AccountOf[c] # account[s]
      BY <1>9, <2>1, <2>2 DEF Saved
  <2>3. CASE AccountOf[c] = account[s]
    <3>1. row[c] = OwnSide(s)[c]  BY <1>1, <1>2, <2>1, <2>3, GiveKnows DEF SavedInv
    <3>2. row'[c] = give[s].rows[c]  BY <2>1, <2>3 DEF Saved
    <3> QED  BY <2>1, <2>3, <3>1, <3>2 DEF Undone, RowMoves
  <2> QED  BY <2>2, <2>3
<1>8. ~GiveUndo(s) /\ ~GiveUndoPeer(s)
    BY <1>1, <1>2, GiveKnows DEF GiveUndo, GiveUndoPeer, At
<1> QED
    BY <1>4, <1>5, <1>6, <1>7, <1>8
    DEF GiveOn, GiveClone, GiveLoad, GiveRejected, GiveApply, GiveApplyRefused, GiveClose

LEMMA RowStep ==
    ASSUME CopiesInv, ~Contend, ~RestoreFails, NEW s \in Session, Step(s), NEW c \in Character
    PROVE  RowMoves(c)
<1>0. TypeInv /\ TypeOK /\ OwnerInv(s) /\ NoGhostGame
    BY Basics
<1>1. row[c] \in Nat /\ cached[s] \in [Character -> Version]
    BY <1>0, MaxVersionAssumption DEF TypeOK, Version
<1>2. CASE row' = row
    BY <1>1, <1>2 DEF RowMoves
<1>3. ASSUME Ready(s) PROVE Agrees(s, row) /\ Matches(s, row)
    BY <1>3, Steady DEF Ready, Agrees
<1>4. ASSUME SelectEmpire(s) PROVE RowMoves(c)
  <2>1. Matches(s, row)  BY <1>3, <1>4 DEF SelectEmpire
  <2> QED  BY <1>0, <1>4, <2>1, SavingTicket DEF SelectEmpire, Saved
<1>5. ASSUME NEW x \in Character, CreateCharacter(s, x), row' # row PROVE RowMoves(c)
  <2>1. /\ AccountOf[x] = account[s] /\ cached[s][x] = 0 /\ Matches(s, row)
        /\ row' = Saved(account[s], [cached[s] EXCEPT ![x] = 1])
      BY <1>0, <1>3, <1>5 DEF CreateCharacter, TypeOK
  <2>2. CASE c # x
    <3>1. row'[c] = IF AccountOf[c] = account[s] THEN cached[s][c] ELSE row[c]
        BY <1>1, <2>1, <2>2 DEF Saved
    <3> QED  BY <1>0, <2>1, <3>1, SavingTicket
  <2>3. CASE c = x
    <3>1. row[c] = 0 /\ row'[c] = 1
        BY <1>1, <2>1, <2>3 DEF Saved, Matches
    <3> QED  BY <3>1 DEF RowMoves
  <2> QED  BY <2>2, <2>3
<1>6. ASSUME NEW x \in Character, DeleteCharacter(s, x) PROVE RowMoves(c)
  <2>1. /\ phase[s] = "select" /\ cached[s][x] # 0 /\ account[s] # NoAccount /\ Matches(s, row)
        /\ cached'[s] = [cached[s] EXCEPT ![x] = 0]
        /\ row' = Saved(account[s], [cached[s] EXCEPT ![x] = 0])
      BY <1>0, <1>3, <1>6 DEF DeleteCharacter, TypeOK, OwnerInv
  <2>2. CASE c # x
    <3>1. row'[c] = IF AccountOf[c] = account[s] THEN cached[s][c] ELSE row[c]
        BY <1>1, <2>1, <2>2 DEF Saved
    <3> QED  BY <1>0, <2>1, <3>1, SavingTicket
  <2>3. CASE c = x
    <3>1. AccountOf[c] = account[s]
        BY <1>0, <2>1, <2>3 DEF OwnerInv
    <3>2. row'[c] = 0 /\ cached'[s][c] # cached[s][c]
        BY <1>1, <2>1, <2>3, <3>1 DEF Saved
    <3> QED  BY <2>1, <3>2 DEF RowMoves
  <2> QED  BY <2>2, <2>3
<1>7. ASSUME Commit(s), row' # row PROVE RowMoves(c)
  <2>1. /\ joined[s] /\ Agrees(s, row)
        /\ cached' = [cached EXCEPT ![s] = Bumped(s, chosen[s])]
        /\ row' = Saved(account[s], cached'[s])
      BY <1>3, <1>7 DEF Commit
  <2>2. row' = Saved(account[s], Bumped(s, chosen[s]))
      BY <1>0, <2>1 DEF TypeOK
  <2> QED  BY <1>0, <2>1, <2>2, Basics, SavingBumped
<1>8. ASSUME GiveOn(s) PROVE RowMoves(c)
    BY <1>8, GiveRows
<1> QED
    BY <1>2, <1>4, <1>5, <1>6, <1>7, <1>8
    DEF Step, Authenticate, SelectCharacter, EnterRefresh, EnterJoin, LeaveWorld,
        Drop, DropLeave, Reconnect, GiveBegin

\* With exclusive logins, unique names and restores that succeed, and as long as
\* no other session uses the two accounts of a give under way, no save takes a
\* character back: not the whole-account save of a later commit, not a give's
\* writes into two accounts from what it loaded earlier; and what an undo takes
\* back is what its own give had saved.
THEOREM NoSaveTakesBack ==
    ASSUME Exclusive, ~Contend, ~RestoreFails, NamesApart
    PROVE  Spec => NoRollback
<1>1. ASSUME CopiesInv, [Next]_vars
      PROVE  [ \A c \in Character : RowMoves(c) ]_vars
    BY <1>1, RowStep DEF Next
<1>2. [ \A c \in Character : RowMoves(c) ]_vars
        => [ \A c \in Character :
          \/ row'[c] >= row[c] /\ (row[c] = 0 => row'[c] \in {0, 1})
          \/ row'[c] = 0 /\ \E s \in Session : phase[s] = "select" /\ cached[s][c] # cached'[s][c]
          \/ \E s \in Session : Undone(s, c)
             ]_vars
    BY DEF RowMoves
<1> QED  BY CopiesHold, <1>1, <1>2, PTL DEF Spec, NoRollback
=============================================================================
