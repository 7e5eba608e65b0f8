----------------------------- MODULE PageRegistry -----------------------------
(***************************************************************************)
(* The page registry of a session (crates/session/src/pages.rs): a list of *)
(* slots and a recovery gate, read and written as one unit under one std   *)
(* mutex.  Each operator is one method, a function from a registry value   *)
(* to the next one; SessionPages calls them, one per lock acquisition.     *)
(***************************************************************************)
EXTENDS Integers, Sequences

\* a slot; tab and ctx are its handle, the target it drives and the engine that
\* target is of; key tells logical tabs apart for the properties, the code has
\* none
Slot(id, url, tab, ctx, active, key) ==
    [id |-> id, url |-> url, tab |-> tab, ctx |-> ctx, active |-> active, key |-> key]

Empty == [slots |-> <<>>, recovering |-> FALSE]

Indices(r)      == DOMAIN r.slots
ActiveIn(slots) == {i \in DOMAIN slots : slots[i].active}
First(S)        == CHOOSE i \in S : \A j \in S : i <= j
-------------------------------------------------------------------------------
\* active(): the lookup answers nothing while recovery owns the list
HasActive(r)  == ~r.recovering /\ ActiveIn(r.slots) # {}
ActiveSlot(r) == r.slots[First(ActiveIn(r.slots))]

AcceptsNewPage(r) == ~r.recovering

Contains(r, id) == \E i \in Indices(r) : r.slots[i].id = id

CanAdmitActive(r) == ~r.recovering /\ ActiveIn(r.slots) = {}
AdmitActive(r, s) ==
    IF CanAdmitActive(r)
    THEN [r EXCEPT !.slots = Append(r.slots, [s EXCEPT !.active = TRUE])]
    ELSE r

CanAdmit(r, s) == ~r.recovering /\ ~Contains(r, s.id)
Admit(r, s) ==
    IF CanAdmit(r, s) THEN [r EXCEPT !.slots = Append(r.slots, s)] ELSE r

SetUrl(r, id, url) ==
    [r EXCEPT !.slots = [i \in Indices(r) |->
        IF r.slots[i].id = id THEN [r.slots[i] EXCEPT !.url = url] ELSE r.slots[i]]]

\* mutant: the flag is only set, the old active slot keeps its own
ActivateOnly(r, id) ==
    [r EXCEPT !.slots = [i \in Indices(r) |->
        IF r.slots[i].id = id THEN [r.slots[i] EXCEPT !.active = TRUE] ELSE r.slots[i]]]

Activate(r, id) ==
    IF Contains(r, id)
    THEN [r EXCEPT !.slots = [i \in Indices(r) |->
            [r.slots[i] EXCEPT !.active = (r.slots[i].id = id)]]]
    ELSE r

\* the slots without the p-th
Without(slots, p) ==
    [i \in 1 .. Len(slots) - 1 |-> IF i < p THEN slots[i] ELSE slots[i + 1]]

\* mutant: nothing takes over from the active slot that left
PromotedNever(slots) == slots

Promoted(slots) ==
    IF slots = <<>> THEN slots ELSE [slots EXCEPT ![1].active = TRUE]

\* remove(): the first slot with this id goes, the first of the rest is
\* promoted when it was active
Place(r, id) == First({i \in Indices(r) : r.slots[i].id = id})
Remove(r, id) ==
    IF ~Contains(r, id) THEN r
    ELSE LET p    == Place(r, id)
             rest == Without(r.slots, p)
         IN  [r EXCEPT !.slots = IF r.slots[p].active THEN Promoted(rest) ELSE rest]

\* begin_recovery(): closes the gate; what recovery reads out is r.slots
BeginRecovery(r) == [r EXCEPT !.recovering = TRUE]

\* finish_recovery(): the rebuilt list, one slot active unless it is empty
FinishRecovery(slots) ==
    [slots |-> IF ActiveIn(slots) # {} THEN slots
               ELSE Promoted(slots),
     recovering |-> FALSE]

\* RecoveryGate::drop without finish_recovery
DropGate(r) == [r EXCEPT !.recovering = FALSE]
-------------------------------------------------------------------------------
AtMostOneActive(r) ==
    \A i, j \in Indices(r) : r.slots[i].active /\ r.slots[j].active => i = j
===============================================================================
