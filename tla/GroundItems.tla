---------------------------- MODULE GroundItems ----------------------------
(***************************************************************************)
(* Dropping and picking up (executeSelectedItemDrop, executeSelectedGold-  *)
(* Drop, executeSelectedItemPickup), the timers of a handle, and the hook  *)
(* that saves the pending handles.                                         *)
(*                                                                         *)
(* A step that changes the ground leaves unsaved TRUE; the hook saves what *)
(* the ground is when it runs, under a mutex of its own, so two pending    *)
(* hooks do what one does, and ignores a refusal.  A handle's clock is     *)
(* absolute: file[v] is what a restart would make of the record now, so an *)
(* exclusive time that has passed is over in the file as well, and so is a *)
(* handle's.                                                               *)
(***************************************************************************)
EXTENDS Custody

\* Fault: the dropped item stays in the account row.
DropKeepingRow(c, i, v) ==
    /\ i \in live[c].bag /\ v \in VidsOf[c] /\ ground[v] = NoHandle
    /\ Playing(c) /\ shop[c] = {} /\ Begin(c, {}, {i, v})
    /\ live' = [live EXCEPT ![c] = Loses(@, {i})]
    /\ seen' = [seen EXCEPT ![c] = live'[c]]
    /\ job' = [job EXCEPT ![c] = [op |-> "drop", stage |-> "ground", item |-> i, vid |-> v]]
    /\ UNCHANGED <<here, row, shop, floor>>

\* The handle is free, the account takes the save.  (If the account refuses it,
\* the runtime is rolled back and nothing has happened.)
Drop(c, i, v) ==
    /\ i \in live[c].bag /\ v \in VidsOf[c] /\ ground[v] = NoHandle
    /\ Playing(c) /\ shop[c] = {} /\ Begin(c, {}, {i, v})
    /\ CommitOwn(c, live[c].bag \ {i})
    /\ job' = [job EXCEPT ![c] = [op |-> "drop", stage |-> "ground", item |-> i, vid |-> v]]
    /\ UNCHANGED <<here, shop, floor>>

Dropping(c) == ~Free(c) /\ job[c].op = "drop"

\* The result of RegisterGroundItem is ignored: a taken handle loses the item.
DropRegister(c) ==
    /\ Dropping(c)
    /\ LET v == job[c].vid IN
         IF Playing(c) /\ ground[v] = NoHandle
         THEN /\ ground' = [ground EXCEPT ![v] =
                    [item |-> job[c].item, owner |-> c, exclusive |-> TRUE, bound |-> TRUE]]
              /\ unsaved' = TRUE
         ELSE UNCHANGED <<ground, unsaved>>
    /\ job' = [job EXCEPT ![c] = NoJob]
    /\ UNCHANGED <<people, file>>

\* Fault: a handle that waits for its owner is anybody's.
BlocksBound(h, c) == h.exclusive /\ h.bound /\ h.owner # c

\* By entity ID while the handle is bound, by the owner's identity otherwise.
Blocks(h, c) == h.exclusive /\ h.owner # c

PickResolve(c, v) ==
    /\ ground[v] # NoHandle
    /\ Playing(c) /\ shop[c] = {} /\ Begin(c, {}, {ground[v].item, v})
    /\ ~Blocks(ground[v], c) /\ Room(live[c], ground[v].item)
    /\ job' = [job EXCEPT ![c] =
                 [op |-> "pick", stage |-> "save", item |-> ground[v].item, vid |-> v]]
    /\ UNCHANGED <<people, floor>>

Picking(c, stage) == ~Free(c) /\ job[c].op = "pick" /\ job[c].stage = stage

PickSave(c) ==
    /\ Picking(c, "save")
    /\ CommitOwn(c, live[c].bag \cup {job[c].item})
    /\ job' = [job EXCEPT ![c].stage = "ground"]
    /\ UNCHANGED <<here, shop, floor>>

PickRefused(c) ==
    /\ Picking(c, "save") /\ StoreFails
    /\ job' = [job EXCEPT ![c] = NoJob]
    /\ UNCHANGED <<people, floor>>

\* Fault: the handle stays on the ground.
PickForgets(c) ==
    /\ Picking(c, "ground")
    /\ unsaved' = TRUE
    /\ job' = [job EXCEPT ![c] = NoJob]
    /\ UNCHANGED <<people, ground, file>>

\* RemoveGroundItem removes whatever the handle now is.  If there is none the
\* handler ends as refused, with the item already saved.
PickRemove(c) ==
    /\ Picking(c, "ground")
    /\ LET v == job[c].vid IN
         IF Playing(c) /\ ground[v] # NoHandle
         THEN ground' = [ground EXCEPT ![v] = NoHandle] /\ unsaved' = TRUE
         ELSE UNCHANGED <<ground, unsaved>>
    /\ job' = [job EXCEPT ![c] = NoJob]
    /\ UNCHANGED <<people, file>>

\* The poll of any session releases and saves; a pickup that resolves releases
\* as well and does not save.
ReleaseOwnership(v) ==
    /\ ground[v] # NoHandle /\ ground[v].exclusive
    /\ ground' = [ground EXCEPT ![v].exclusive = FALSE]
    /\ file' = [file EXCEPT ![v] = IF @ = NoHandle THEN @ ELSE [@ EXCEPT !.exclusive = FALSE]]
    /\ unsaved' \in {unsaved, TRUE}
    /\ UNCHANGED <<people, job>>

Despawn(v) ==
    /\ ground[v] # NoHandle
    /\ ground' = [ground EXCEPT ![v] = NoHandle]
    /\ file' = [file EXCEPT ![v] = NoHandle]
    /\ unsaved' = TRUE
    /\ UNCHANGED <<people, job>>

\* Any hook that runs now saves everything; a refused save changes nothing.
PersistGround ==
    /\ unsaved
    /\ file' = [v \in Vid |-> Durable(ground[v])]
    /\ unsaved' = FALSE
    /\ UNCHANGED <<people, ground, job>>
=============================================================================
