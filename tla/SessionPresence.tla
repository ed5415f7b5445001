-------------------------- MODULE SessionPresence --------------------------
(***************************************************************************)
(* Which session plays which character: login, character selection,        *)
(* ENTERGAME, saving, leaving and reconnecting, as the session closures of *)
(* internal/minimal/factory.go drive them.                                 *)
(*                                                                         *)
(* A character's runtime state lives in four places: the account row on    *)
(* disk, the session's cached ticket, the session's live runtime, and (by  *)
(* name) the registration other sessions reach it through.  What a commit  *)
(* persists of a character (gold, inventory, equipment, quickslots) is     *)
(* abstracted to a version number: 0 is an empty slot, 1 a fresh           *)
(* character, and every committed change increments it.  Position and      *)
(* combat points, which may run ahead of the row, are not in the version.  *)
(*                                                                         *)
(* A handler runs under its session's stateMu and is one action, except    *)
(* where it leaves the shared state between two steps that others can see: *)
(* ENTERGAME refreshes the account and then joins the shared world;        *)
(* onClose unregisters the name and then leaves the shared world; and      *)
(* ITEM_GIVE copies the receiver's runtime, loads and saves two accounts   *)
(* and overwrites the receiver's runtime in steps of its own, holding only *)
(* the giver's stateMu, so that the receiver's session, and others, run in *)
(* between.  It stands for the purchase in a private shop and the trade as *)
(* well, which save and undo two accounts in the same way (PeerDeals).     *)
(*                                                                         *)
(* An operator whose comment starts with "Fault:" is a variant of the one  *)
(* that follows it with one plausible bug; it is part of no specification. *)
(***************************************************************************)
EXTENDS Integers, FiniteSets

CONSTANTS
    Session,       \* connections, one goroutine each
    Account,       \* logins
    Character,     \* character slots of all the accounts
    AccountOf,     \* AccountOf[c]: the login whose row holds c
    VidOf, NameOf, IdOf,   \* VID, normalised name and ID of a character
    MaxVersion,    \* bound on the changes committed to one character
    Exclusive,     \* is a login used by at most one open session at a time?
    Contend,       \* may others use the two accounts of a give under way?
    StoreFails,    \* may the account store refuse a load or a save?
    RestoreFails,  \* may it refuse the save that undoes another?
    NoSession, NoAccount, NoCharacter

Name == {NameOf[c] : c \in Character}
Version == 0 .. MaxVersion

ASSUME SentinelAssumption ==
    NoSession \notin Session /\ NoAccount \notin Account /\ NoCharacter \notin Character
ASSUME OwnerAssumption == AccountOf \in [Character -> Account]
\* createCharacterInTicket and nextCharacterID/VID keep an account's own
\* characters apart; nothing keeps the characters of two accounts apart.
ASSUME IdentityAssumption ==
    \A c, d \in Character :
        c # d /\ AccountOf[c] = AccountOf[d]
            => VidOf[c] # VidOf[d] /\ NameOf[c] # NameOf[d] /\ IdOf[c] # IdOf[d]
ASSUME MaxVersionAssumption == MaxVersion \in Nat \ {0}
ASSUME FlagAssumption ==
    /\ Exclusive \in BOOLEAN /\ Contend \in BOOLEAN
    /\ StoreFails \in BOOLEAN /\ RestoreFails \in BOOLEAN

VARIABLES
    phase,     \* the connection's phase, "closed" once onClose has begun
    account,   \* sessionTicket.Login
    cached,    \* sessionTicket.Characters
    chosen,    \* selectedIndex while hasSelected
    live,      \* selectedPlayer, 0 when nil
    entering,  \* an ENTERGAME has refreshed and has not joined yet
    joined,    \* joinedSharedWorld
    hook,      \* the session entry the shared world keeps for this connection
    name,      \* liveCharactersByName
    give,      \* the local variables of applyVisiblePlayerItemGive
    row        \* the account store

people == <<phase, account, chosen, entering, joined, hook>>
vars == <<people, cached, live, name, give, row>>

Phase == {"login", "select", "loading", "game", "closed"}

Empty == [c \in Character |-> 0]

\* What a give has still to do.
Stage == {"none", "clone", "load", "save", "save peer", "apply", "undo", "undo peer", "close"}

\* A give under way: the receiver as the shared world held it, its slot in the
\* account of the login that has registered its name, the version copied from
\* its runtime, and the rows of the two accounts as they were loaded.
Give ==
    [stage : Stage,
     target : Character \cup {NoCharacter}, slot : Character \cup {NoCharacter},
     copy : Version, rows : [Character -> Version]]

NoGive ==
    [stage |-> "none", target |-> NoCharacter, slot |-> NoCharacter, copy |-> 0, rows |-> Empty]

\* One type invariant: every variable ranges over what its Go type and the
\* account split allow.
TypeOK ==
    /\ phase \in [Session -> Phase]
    /\ account \in [Session -> Account \cup {NoAccount}]
    /\ cached \in [Session -> [Character -> Version]]
    /\ chosen \in [Session -> Character \cup {NoCharacter}]
    /\ live \in [Session -> Version]
    /\ entering \in [Session -> BOOLEAN]
    /\ joined \in [Session -> BOOLEAN]
    /\ hook \in [Session -> Character \cup {NoCharacter}]
    /\ name \in [Name -> Session \cup {NoSession}]
    /\ give \in [Session -> Give]
    /\ row \in [Character -> Version]

Init ==
    /\ phase = [s \in Session |-> "login"]
    /\ account = [s \in Session |-> NoAccount]
    /\ cached = [s \in Session |-> Empty]
    /\ chosen = [s \in Session |-> NoCharacter]
    /\ live = [s \in Session |-> 0]
    /\ entering = [s \in Session |-> FALSE]
    /\ joined = [s \in Session |-> FALSE]
    /\ hook = [s \in Session |-> NoCharacter]
    /\ name = [n \in Name |-> NoSession]
    /\ give = [s \in Session |-> NoGive]
    /\ row \in [Character -> {0, 1}]

-----------------------------------------------------------------------------
(* The account store and the registration by name                          *)

\* The characters of account a, as accounts.Load returns them.
Loaded(a) == [c \in Character |-> IF AccountOf[c] = a THEN row[c] ELSE 0]

\* Every row after account a is saved whole with the characters cs.
Saved(a, cs) == [c \in Character |-> IF AccountOf[c] = a THEN cs[c] ELSE row[c]]

\* The registrations once s has dropped its own, if it still has it.
Unregistered(s) == [n \in Name |-> IF name[n] = s THEN NoSession ELSE name[n]]

\* ... and once s has then registered as c, over whoever holds the name.
\* Fault: registered first, and the own entry dropped afterwards.
RegisteredThenDropped(s, c) ==
    [n \in Name |-> IF name[n] = s \/ n = NameOf[c] THEN NoSession ELSE name[n]]
Registered(s, c) == [Unregistered(s) EXCEPT ![NameOf[c]] = s]

-----------------------------------------------------------------------------
(* Who may begin what                                                      *)

Giving(s) == give[s].stage # "none"
At(s, stage) == give[s].stage = stage
Advance(s, stage) == give' = [give EXCEPT ![s].stage = stage]
Finish(s) == give' = [give EXCEPT ![s] = NoGive]

\* The accounts that gives of others have in hand.
InUse(s) ==
    UNION {{account[g], AccountOf[give[g].slot]} : g \in {g \in Session \ {s} : Giving(g)}}

\* A session begins a handler when it is in none; without Contend it also waits
\* for gives that have its account in hand.
Ready(s) == ~Giving(s) /\ (Contend \/ account[s] \notin InUse(s))

-----------------------------------------------------------------------------
(* LOGIN2 and the SELECT phase                                             *)

\* The ticket a login was issued is not consumed: nothing but Exclusive keeps
\* a second session from presenting it again.
Available(a) == \A t \in Session : account[t] # a

Authenticate(s, a) ==
    /\ phase[s] = "login"
    /\ Exclusive => Available(a)
    /\ phase' = [phase EXCEPT ![s] = "select"]
    /\ account' = [account EXCEPT ![s] = a]
    /\ cached' = [cached EXCEPT ![s] = Loaded(a)]
    /\ chosen' = [chosen EXCEPT ![s] = NoCharacter]
    /\ live' = [live EXCEPT ![s] = 0]
    /\ name' = Unregistered(s)
    /\ UNCHANGED <<entering, joined, hook, row, give>>

\* The empire of an account without characters: the whole account is saved.
SelectEmpire(s) ==
    /\ Ready(s) /\ phase[s] = "select"
    /\ \A c \in Character : AccountOf[c] = account[s] => cached[s][c] = 0
    /\ row' = Saved(account[s], cached[s])
    /\ UNCHANGED <<people, cached, live, name, give>>

\* The new character enters the cached ticket before the save, and stays
\* there when the save is refused.
CreateCharacter(s, c) ==
    /\ Ready(s) /\ phase[s] = "select"
    /\ AccountOf[c] = account[s]
    /\ cached[s][c] = 0
    /\ cached' = [cached EXCEPT ![s][c] = 1]
    /\ \/ row' = Saved(account[s], cached'[s])
       \/ StoreFails /\ UNCHANGED row
    /\ UNCHANGED <<people, live, name, give>>

\* A refused save leaves everything as it was.
DeleteCharacter(s, c) ==
    /\ Ready(s) /\ phase[s] = "select"
    /\ cached[s][c] # 0
    /\ cached' = [cached EXCEPT ![s][c] = 0]
    /\ row' = Saved(account[s], cached'[s])
    /\ IF chosen[s] = c
         THEN /\ chosen' = [chosen EXCEPT ![s] = NoCharacter]
              /\ live' = [live EXCEPT ![s] = 0]
              /\ name' = Unregistered(s)
         ELSE UNCHANGED <<chosen, live, name>>
    /\ UNCHANGED <<phase, account, entering, joined, hook, give>>

SelectCharacter(s, c) ==
    /\ Ready(s) /\ phase[s] = "select"
    /\ cached[s][c] # 0
    /\ phase' = [phase EXCEPT ![s] = "loading"]
    /\ chosen' = [chosen EXCEPT ![s] = c]
    /\ live' = [live EXCEPT ![s] = cached[s][c]]
    /\ name' = Registered(s, c)
    /\ UNCHANGED <<account, cached, entering, joined, hook, row, give>>

-----------------------------------------------------------------------------
(* ENTERGAME: refresh the account, then join the shared world              *)

\* The refresh found no character: selectedPlayer is nil, the socket stays in
\* LOADING and may try again.
RefreshRejected(s) ==
    /\ live' = [live EXCEPT ![s] = 0]
    /\ name' = Unregistered(s)
    /\ UNCHANGED entering

EnterRefresh(s) ==
    /\ Ready(s) /\ phase[s] = "loading"
    /\ ~entering[s]
    /\ \/ StoreFails /\ RefreshRejected(s) /\ UNCHANGED cached
       \/ /\ cached' = [cached EXCEPT ![s] = Loaded(account[s])]
          /\ IF row[chosen[s]] = 0
               THEN RefreshRejected(s)
               ELSE /\ live' = [live EXCEPT ![s] = row[chosen[s]]]
                    /\ name' = Registered(s, chosen[s])
                    /\ entering' = [entering EXCEPT ![s] = TRUE]
    /\ UNCHANGED <<phase, account, chosen, joined, hook, row, give>>

\* Two characters the shared world cannot hold at once.
Clash(c, d) == VidOf[c] = VidOf[d] \/ NameOf[c] = NameOf[d]

\* A transport hook is the live-conflict signal, whoever holds it.
\* Fault: only a session that still plays conflicts, not one that is leaving.
PlayingConflict(s) ==
    \E t \in Session : joined[t] /\ Clash(chosen[t], chosen[s])
LiveConflict(s) ==
    \E t \in Session : hook[t] # NoCharacter /\ Clash(hook[t], chosen[s])

\* Fault: the rejected session goes to GAME all the same.
EnterRegardless(s) ==
    /\ entering[s]
    /\ entering' = [entering EXCEPT ![s] = FALSE]
    /\ phase' = [phase EXCEPT ![s] = "game"]
    /\ IF LiveConflict(s)
         THEN UNCHANGED <<joined, hook>>
         ELSE /\ joined' = [joined EXCEPT ![s] = TRUE]
              /\ hook' = [hook EXCEPT ![s] = chosen[s]]
    /\ UNCHANGED <<account, cached, chosen, live, name, row, give>>
EnterJoin(s) ==
    /\ entering[s]
    /\ entering' = [entering EXCEPT ![s] = FALSE]
    /\ IF LiveConflict(s)
         THEN UNCHANGED <<phase, joined, hook>>
         ELSE /\ phase' = [phase EXCEPT ![s] = "game"]
              /\ joined' = [joined EXCEPT ![s] = TRUE]
              /\ hook' = [hook EXCEPT ![s] = chosen[s]]
    /\ UNCHANGED <<account, cached, chosen, live, name, row, give>>

-----------------------------------------------------------------------------
(* GAME: commits and leaving                                               *)

\* The cached ticket of s once c has gone one version further than its live
\* copy.
\* Fault: the change is applied twice.
BumpedTwice(s, c) == [cached[s] EXCEPT ![c] = live[s] + 2]
Bumped(s, c) == [cached[s] EXCEPT ![c] = live[s] + 1]

\* An accepted change of the selected character.  The whole account is saved
\* from the cached ticket; when the save is refused the live copy is restored.
\* Either way the session registers its name again.
Commit(s) ==
    /\ Ready(s) /\ phase[s] = "game" /\ joined[s]
    /\ live[s] < MaxVersion
    /\ name' = Registered(s, chosen[s])
    /\ \/ /\ cached' = [cached EXCEPT ![s] = Bumped(s, chosen[s])]
          /\ row' = Saved(account[s], cached'[s])
          /\ live' = [live EXCEPT ![s] = @ + 1]
       \/ StoreFails /\ UNCHANGED <<cached, row, live>>
    /\ UNCHANGED <<people, give>>

\* /quit stays in GAME, /logout closes, /phase_select goes back to SELECT with
\* the cached ticket it has.  Nothing reads the fields of a closed session again,
\* so they are reset here.
LeaveWorld(s, next) ==
    /\ Ready(s) /\ phase[s] = "game"
    /\ phase' = [phase EXCEPT ![s] = next]
    /\ account' = [account EXCEPT ![s] = IF next = "closed" THEN NoAccount ELSE @]
    /\ cached' = [cached EXCEPT ![s] = IF next = "closed" THEN Empty ELSE @]
    /\ chosen' = [chosen EXCEPT ![s] = NoCharacter]
    /\ live' = [live EXCEPT ![s] = 0]
    /\ joined' = [joined EXCEPT ![s] = FALSE]
    /\ hook' = [hook EXCEPT ![s] = NoCharacter]
    /\ name' = Unregistered(s)
    /\ UNCHANGED <<entering, row, give>>

\* onClose, up to the release of stateMu.
Drop(s) ==
    /\ Ready(s) /\ phase[s] # "closed"
    /\ ~entering[s]
    /\ phase' = [phase EXCEPT ![s] = "closed"]
    /\ account' = [account EXCEPT ![s] = NoAccount]
    /\ cached' = [cached EXCEPT ![s] = Empty]
    /\ chosen' = [chosen EXCEPT ![s] = NoCharacter]
    /\ live' = [live EXCEPT ![s] = 0]
    /\ joined' = [joined EXCEPT ![s] = FALSE]
    /\ name' = Unregistered(s)
    /\ UNCHANGED <<entering, hook, row, give>>

\* ... and its Leave, with the session entry's ID it captured.
\* Fault: the ID is captured after it was reset, so the entry stays.
NeverLeave(s) == FALSE /\ UNCHANGED vars
DropLeave(s) ==
    /\ phase[s] = "closed" /\ hook[s] # NoCharacter
    /\ hook' = [hook EXCEPT ![s] = NoCharacter]
    /\ UNCHANGED <<phase, account, cached, chosen, live, entering, joined, name, row, give>>

\* A new connection takes the place of one that is completely gone.
Reconnect(s) ==
    /\ phase[s] = "closed" /\ hook[s] = NoCharacter
    /\ phase' = [phase EXCEPT ![s] = "login"]
    /\ cached' = [cached EXCEPT ![s] = Empty]
    /\ UNCHANGED <<account, chosen, live, entering, joined, hook, name, row, give>>

-----------------------------------------------------------------------------
(* ITEM_GIVE                                                               *)

\* The session that is registered under the receiver's name now, and whether a
\* handler of its own holds its stateMu.
Peer(s) == name[NameOf[give[s].target]]
Locked(w) == entering[w] \/ Giving(w)

\* Cloning and applying find a character by its name and then compare IDs.
Reached(s) ==
    /\ Peer(s) \notin {NoSession, s} /\ ~Locked(Peer(s))
    /\ IdOf[chosen[Peer(s)]] = IdOf[give[s].target]
Missed(s) ==
    \/ Peer(s) = NoSession
    \/ /\ Peer(s) \notin {NoSession, s} /\ ~Locked(Peer(s))
       /\ IdOf[chosen[Peer(s)]] # IdOf[give[s].target]

\* The checks, and the login of the player whose session entry t holds.
GiveBegin(s, t) ==
    LET w == name[NameOf[hook[t]]]
    IN /\ Ready(s) /\ phase[s] = "game" /\ joined[s] /\ live[s] < MaxVersion
       /\ t # s /\ hook[t] # NoCharacter /\ w \notin {NoSession, s}
       /\ \E r \in Character :
             /\ AccountOf[r] = account[w] /\ IdOf[r] = IdOf[hook[t]]
             /\ Contend \/ AccountOf[r] \notin InUse(s)
             /\ give' = [give EXCEPT
                  ![s] = [NoGive EXCEPT !.stage = "clone", !.target = hook[t], !.slot = r]]
       /\ UNCHANGED <<people, cached, live, name, row>>

\* The item goes from the giver's runtime to the copy of the receiver; nobody
\* can look at the former before the give ends, which is where live[s] moves on.
GiveClone(s) ==
    /\ At(s, "clone") /\ Reached(s) /\ live[Peer(s)] < MaxVersion
    /\ give' = [give EXCEPT ![s].stage = "load", ![s].copy = live[Peer(s)]]
    /\ UNCHANGED <<people, cached, live, name, row>>

GiveLoad(s) ==
    /\ At(s, "load") /\ row[give[s].slot] # 0
    /\ give' = [give EXCEPT ![s].stage = "save", ![s].rows =
         [c \in Character |-> IF AccountOf[c] \in {account[s], AccountOf[give[s].slot]}
                                THEN row[c] ELSE 0]]
    /\ UNCHANGED <<people, cached, live, name, row>>

\* Nothing has been saved: the copy is refused or does not take the item, a
\* load or the first save fails, or the receiver is not in the loaded account.
GiveRejected(s) ==
    /\ \/ At(s, "clone") /\ (Reached(s) \/ Missed(s))
       \/ At(s, "load") /\ (StoreFails \/ row[give[s].slot] = 0)
       \/ At(s, "save") /\ StoreFails
    /\ Finish(s)
    /\ UNCHANGED <<people, cached, live, name, row>>

\* What is saved of the giver's account, and of the receiver's.
OwnSide(s) == Bumped(s, chosen[s])
PeerSide(s) == [give[s].rows EXCEPT ![give[s].slot] = give[s].copy + 1]

GiveSave(s) ==
    /\ At(s, "save")
    /\ row' = Saved(account[s], OwnSide(s))
    /\ Advance(s, "save peer")
    /\ UNCHANGED <<people, cached, live, name>>

GiveSavePeer(s) ==
    /\ At(s, "save peer")
    /\ row' = Saved(AccountOf[give[s].slot], PeerSide(s))
    /\ Advance(s, "apply")
    /\ UNCHANGED <<people, cached, live, name>>

\* The account is saved as it was loaded; that it may fail is ignored.
PutBack(s, a) ==
    \/ row' = Saved(a, give[s].rows)
    \/ RestoreFails /\ UNCHANGED row

\* Fault: the giver's account is not put back.
GivePeerRefusedKeep(s) ==
    /\ At(s, "save peer") /\ StoreFails
    /\ Finish(s)
    /\ UNCHANGED <<people, cached, live, name, row>>
GivePeerRefused(s) ==
    /\ At(s, "save peer") /\ StoreFails
    /\ PutBack(s, account[s])
    /\ Finish(s)
    /\ UNCHANGED <<people, cached, live, name>>

\* Fault: the receiver's runtime moves on, its ticket does not.
GiveApplyRuntime(s) ==
    /\ At(s, "apply") /\ Reached(s)
    /\ live' = [live EXCEPT ![Peer(s)] = give[s].copy + 1]
    /\ Advance(s, "close")
    /\ UNCHANGED <<people, cached, name, row>>
GiveApply(s) ==
    /\ At(s, "apply") /\ Reached(s)
    /\ cached' = [cached EXCEPT ![Peer(s)][chosen[Peer(s)]] = give[s].copy + 1]
    /\ live' = [live EXCEPT ![Peer(s)] = give[s].copy + 1]
    /\ give' = [give EXCEPT ![s].stage = "close", ![s].copy = 0, ![s].rows = Empty]
    /\ UNCHANGED <<people, name, row>>

\* The receiver has gone: both accounts are put back, one after the other.
GiveApplyRefused(s) ==
    /\ At(s, "apply") /\ Missed(s)
    /\ Advance(s, "undo")
    /\ UNCHANGED <<people, cached, live, name, row>>

GiveUndo(s) ==
    /\ At(s, "undo")
    /\ PutBack(s, account[s])
    /\ Advance(s, "undo peer")
    /\ UNCHANGED <<people, cached, live, name>>

GiveUndoPeer(s) ==
    /\ At(s, "undo peer")
    /\ PutBack(s, AccountOf[give[s].slot])
    /\ Finish(s)
    /\ UNCHANGED <<people, cached, live, name>>

GiveClose(s) ==
    /\ At(s, "close")
    /\ cached' = [cached EXCEPT ![s] = OwnSide(s)]
    /\ live' = [live EXCEPT ![s] = @ + 1]
    /\ name' = Registered(s, chosen[s])
    /\ Finish(s)
    /\ UNCHANGED <<people, row>>

-----------------------------------------------------------------------------
(* The behaviour                                                           *)

\* The steps of a give that has begun.
GiveOn(s) ==
    \/ GiveClone(s) \/ GiveLoad(s) \/ GiveRejected(s)
    \/ GiveSave(s) \/ GiveSavePeer(s) \/ GivePeerRefused(s)
    \/ GiveApply(s) \/ GiveApplyRefused(s) \/ GiveUndo(s) \/ GiveUndoPeer(s)
    \/ GiveClose(s)

Step(s) ==
    \/ \E a \in Account : Authenticate(s, a)
    \/ SelectEmpire(s)
    \/ \E c \in Character :
          CreateCharacter(s, c) \/ DeleteCharacter(s, c) \/ SelectCharacter(s, c)
    \/ EnterRefresh(s)
    \/ EnterJoin(s)
    \/ Commit(s)
    \/ \E next \in {"game", "closed", "select"} : LeaveWorld(s, next)
    \/ Drop(s)
    \/ DropLeave(s)
    \/ Reconnect(s)
    \/ \E t \in Session : GiveBegin(s, t)
    \/ GiveOn(s)

Next == \E s \in Session : Step(s)

Spec == Init /\ [][Next]_vars

\* A handler that has begun comes to its end, and so does onClose; and the
\* client of a socket that waits in LOADING keeps sending ENTERGAME.
Fairness ==
    \A s \in Session :
        /\ WF_vars(EnterRefresh(s))
        /\ WF_vars(EnterJoin(s))
        /\ WF_vars(DropLeave(s))

FairSpec == Spec /\ Fairness

-----------------------------------------------------------------------------
(* Properties                                                              *)

\* The shared world never holds two session entries whose characters have the
\* same VID or the same name, however many sessions play them (Join).
OneLiveEntry ==
    \A s, t \in Session :
        s # t /\ hook[s] # NoCharacter /\ hook[t] # NoCharacter
            => ~Clash(hook[s], hook[t])

\* No session is in GAME with a selected character the shared world does not
\* hold for it, and no entry stands for a session that has neither joined nor
\* is on its way out (EnterGame, leaveSharedWorld, onClose).
NoGhostGame ==
    \A s \in Session :
        /\ phase[s] = "game" /\ chosen[s] # NoCharacter => joined[s]
        /\ joined[s] => phase[s] = "game" /\ hook[s] = chosen[s] /\ chosen[s] # NoCharacter
        /\ hook[s] # NoCharacter => joined[s] \/ phase[s] = "closed"

\* Other sessions reach a joined character, by its name, in the session that
\* plays it (registerLiveCharacterSnapshotter, liveCharacterClone).
RegistrationIsOwner ==
    \A s \in Session : joined[s] => name[NameOf[chosen[s]]] = s

\* No give is about the character s plays.
Settled(s) == ~Giving(s) /\ \A g \in Session : Giving(g) => give[g].slot # chosen[s]

\* What a joined session plays is what its account row holds: between two
\* requests no accepted change is in memory only, and no saved change is
\* missing from memory, its own or one made by another session's give.  Of a
\* character a give is about it is said once the give has ended, however it did.
RowIsLive ==
    \A s \in Session : joined[s] /\ Settled(s) => row[chosen[s]] = live[s]

\* c is put back to what was loaded before the give of s has changed it.
Undone(s, c) ==
    /\ give[s].stage \in {"save peer", "undo", "undo peer"}
    /\ row'[c] = give[s].rows[c]
    /\ \/ AccountOf[c] = account[s] /\ row[c] = OwnSide(s)[c]
       \/ AccountOf[c] = AccountOf[give[s].slot] /\ row[c] = PeerSide(s)[c]

\* A save never takes a character back to an earlier version: a delete may empty
\* a slot, a creation fills one, and the undo of a give takes back what that
\* give has saved and nothing else (saveAccountSnapshot writes every character
\* of the account, from the saver's cached ticket or from an earlier load).
NoRollback ==
    [][ \A c \in Character :
          \/ row'[c] >= row[c] /\ (row[c] = 0 => row'[c] \in {0, 1})
          \/ row'[c] = 0 /\ \E s \in Session : phase[s] = "select" /\ cached[s][c] # cached'[s][c]
          \/ \E s \in Session : Undone(s, c)
      ]_vars

\* A session that waits in LOADING for a character another session plays gets
\* in once the others are gone, unless its character has been deleted.
WaiterGetsIn ==
    \A s \in Session :
        <>[](\A t \in Session \ {s} : phase[t] = "closed")
            => (phase[s] = "loading" ~> phase[s] # "loading" \/ row[chosen[s]] = 0)
=============================================================================
