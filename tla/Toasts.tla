--------------------------------- MODULE Toasts ---------------------------------
(***************************************************************************)
(* hooks/use-toast.ts, the store behind the Toaster of App.tsx: reducer,   *)
(* removal timers, and the subscription of the one Toaster.  The pages use *)
(* another library's toasts, so its callers are any.                       *)
(*                                                                         *)
(* A toast is its id and whether it is open.                               *)
(* Bound: MaxToasts toasts.                                                *)
(***************************************************************************)
EXTENDS Integers, Sequences

CONSTANT MaxToasts

ToastsAssumption == MaxToasts \in Nat

VARIABLES
    count, toasts,        \* memoryState.toasts
    toastTimeouts,        \* ids whose timer runs
    dismissed,            \* history: the ids dismissed
    toaster               \* whether the Toaster listens, its state, and whether something
                          \* was dispatched after it read that state and before it listened

toastVars == <<count, toasts, toastTimeouts, dismissed, toaster>>

TOAST_LIMIT == 1
Toast       == [id : 1..MaxToasts, open : BOOLEAN]

ToastsInit ==
    /\ count = 0 /\ toasts = <<>> /\ toastTimeouts = {} /\ dismissed = {}
    /\ toaster = [listens |-> FALSE, shown |-> <<>>, missed |-> FALSE]

\* dispatch: the state becomes ts, and the listeners are told.
dispatch(ts) ==
    /\ toasts' = ts
    /\ toaster' = IF toaster.listens THEN [listens |-> TRUE, shown |-> ts, missed |-> FALSE]
                                     ELSE [toaster EXCEPT !.missed = TRUE]

Ids(ts) == {ts[i].id : i \in 1..Len(ts)}

\* The reducer's cases.
AddToast(id) ==
    LET all == <<[id |-> id, open |-> TRUE]>> \o toasts
    IN  SubSeq(all, 1, IF Len(all) < TOAST_LIMIT THEN Len(all) ELSE TOAST_LIMIT)
UpdateToast(id, open) ==
    [i \in 1..Len(toasts) |-> IF toasts[i].id = id THEN [id |-> id, open |-> open] ELSE toasts[i]]
DismissToasts(ids) ==
    [i \in 1..Len(toasts) |->
        IF toasts[i].id \in ids THEN [toasts[i] EXCEPT !.open = FALSE] ELSE toasts[i]]
RemoveToast(id) ==
    LET kept[n \in 0..Len(toasts)] ==
            IF n = 0 THEN <<>>
            ELSE IF toasts[n].id = id THEN kept[n - 1] ELSE Append(kept[n - 1], toasts[n])
    IN  kept[Len(toasts)]

NotQueued(ids) == toastTimeouts
\* addToRemoveQueue: a timer that runs already is left alone.
addToRemoveQueue(ids) == toastTimeouts \cup ids

-----------------------------------------------------------------------------
toast ==
    /\ count < MaxToasts
    /\ count' = count + 1
    /\ dispatch(AddToast(count'))
    /\ UNCHANGED <<toastTimeouts, dismissed>>

\* The caller keeps update and dismiss for as long as it likes.
update(id, open) ==
    /\ dispatch(UpdateToast(id, open))
    /\ UNCHANGED <<count, toastTimeouts, dismissed>>

dismiss(ids) ==
    /\ toastTimeouts' = addToRemoveQueue(ids)
    /\ dispatch(DismissToasts(ids))
    /\ dismissed' = dismissed \cup ids
    /\ UNCHANGED count

TimerFires(id) ==
    /\ toastTimeouts' = toastTimeouts \ {id}
    /\ dispatch(RemoveToast(id))
    /\ UNCHANGED <<count, dismissed>>

\* useToast: the effect after the first render.
ToasterListens ==
    /\ ~ toaster.listens
    /\ toaster' = [toaster EXCEPT !.listens = TRUE]
    /\ UNCHANGED <<count, toasts, toastTimeouts, dismissed>>

ToastsNext ==
    \/ toast
    \/ \E id \in 1..count :
          \/ \E open \in BOOLEAN : update(id, open)
          \/ dismiss({id})
    \/ dismiss(Ids(toasts))
    \/ \E id \in toastTimeouts : TimerFires(id)
    \/ ToasterListens

ToastsSpec == ToastsInit /\ [][ToastsNext]_toastVars

-----------------------------------------------------------------------------
ToastsTypeOK ==
    /\ count \in 0..MaxToasts /\ toasts \in Seq(Toast)
    /\ toastTimeouts \subseteq 1..MaxToasts /\ dismissed \subseteq 1..MaxToasts
    /\ toaster.listens \in BOOLEAN /\ toaster.shown \in Seq(Toast)

(***************************************************************************)
(* A toast that was dismissed is on its way out: its timer runs for as     *)
(* long as it is in the store, also if it was dismissed twice, updated     *)
(* afterwards, or dismissed after a newer one had pushed it out.  What the *)
(* Toaster shows is the store, once it listens, unless a change fell       *)
(* between its first render and its effect; then it is the next change     *)
(* that brings it up to date.                                              *)
(***************************************************************************)
DismissedIsLeaving ==
    /\ dismissed \cap Ids(toasts) \subseteq toastTimeouts
    /\ toaster.listens => toaster.shown = toasts \/ toaster.missed
=============================================================================
