----------------------------- MODULE WorkPool ------------------------------
(***************************************************************************)
(* What the service promises about the work it accepts, without saying how *)
(* intake, workers and shutdown synchronise: a bounded first-in first-out  *)
(* buffer and a fixed number of slots; accepted work is settled once, or   *)
(* abandoned once the shutdown is forced; nothing is left when it stops.   *)
(***************************************************************************)
EXTENDS Naturals, Sequences

CONSTANTS Items, Slots, Capacity, None

VARIABLES
  pending,    \* accepted, not started
  slot,       \* the item each slot works on
  settled,    \* handled to the end
  abandoned,  \* skipped
  closed,     \* no more work is accepted
  forced,     \* the shutdown ran out of time
  stopped     \* the pool is gone

poolVars == <<pending, slot, settled, abandoned, closed, forced, stopped>>

Known == {pending[k] : k \in DOMAIN pending} \cup {slot[s] : s \in Slots}
         \cup settled \cup abandoned

Init ==
  /\ pending = <<>>
  /\ slot = [s \in Slots |-> None]
  /\ settled = {}
  /\ abandoned = {}
  /\ closed = FALSE
  /\ forced = FALSE
  /\ stopped = FALSE

Accept(i) ==
  /\ ~closed
  /\ Len(pending) < Capacity
  /\ i \notin Known
  /\ pending' = Append(pending, i)
  /\ UNCHANGED <<slot, settled, abandoned, closed, forced, stopped>>

Start(s) ==
  /\ slot[s] = None
  /\ pending # <<>>
  /\ slot' = [slot EXCEPT ![s] = Head(pending)]
  /\ pending' = Tail(pending)
  /\ UNCHANGED <<settled, abandoned, closed, forced, stopped>>

Settle(s) ==
  /\ slot[s] # None
  /\ settled' = settled \cup {slot[s]}
  /\ slot' = [slot EXCEPT ![s] = None]
  /\ UNCHANGED <<pending, abandoned, closed, forced, stopped>>

Abandon(s) ==
  /\ forced
  /\ slot[s] # None
  /\ abandoned' = abandoned \cup {slot[s]}
  /\ slot' = [slot EXCEPT ![s] = None]
  /\ UNCHANGED <<pending, settled, closed, forced, stopped>>

Close ==
  /\ closed' = TRUE
  /\ UNCHANGED <<pending, slot, settled, abandoned, forced, stopped>>

Force ==
  /\ ~stopped
  /\ forced' = TRUE
  /\ UNCHANGED <<pending, slot, settled, abandoned, closed, stopped>>

Stop ==
  /\ closed
  /\ pending = <<>>
  /\ \A s \in Slots : slot[s] = None
  /\ stopped' = TRUE
  /\ UNCHANGED <<pending, slot, settled, abandoned, closed, forced>>

Next ==
  \/ \E i \in Items : Accept(i)
  \/ \E s \in Slots : Start(s) \/ Settle(s) \/ Abandon(s)
  \/ Close \/ Force \/ Stop

Spec == Init /\ [][Next]_poolVars

=============================================================================
