----------------------------- MODULE LeasePool -----------------------------
(***************************************************************************)
(* What a pool of solver instances promises its callers, without the queue,*)
(* the channels and the goroutines that hand instances over: a call asks,  *)
(* is granted an instance nobody else owns or gives up, and the instance   *)
(* of a call that is over comes back to the pool.                          *)
(***************************************************************************)
CONSTANTS Calls,   \* the calls of Acquire
          Slots,   \* the instances of the pool
          Nobody   \* the owner of a free instance

VARIABLES state,   \* state[c]: how far call c has got
          owner    \* owner[s]: the call instance s is set aside for, or Nobody

vars == <<state, owner>>

Init == /\ state = [c \in Calls |-> "new"]
        /\ owner = [s \in Slots |-> Nobody]

(* A call that finds no solver configured, or is cancelled before it is    *)
(* granted anything, is over without an instance.                          *)
GoWithout(c) == /\ state[c] \in {"new", "asking"}
                /\ state' = [state EXCEPT ![c] = "over"]
                /\ UNCHANGED owner

Ask(c) == /\ state[c] = "new"
          /\ state' = [state EXCEPT ![c] = "asking"]
          /\ UNCHANGED owner

(* Only an instance nobody owns is granted.                                *)
Grant(c, s) == /\ state[c] \in {"new", "asking"}
               /\ owner[s] = Nobody
               /\ state' = [state EXCEPT ![c] = "granted"]
               /\ owner' = [owner EXCEPT ![s] = c]

(* The call is over; its instance cools down before anyone else gets it.   *)
Return(c) == /\ state[c] = "granted"
             /\ state' = [state EXCEPT ![c] = "over"]
             /\ UNCHANGED owner

Recycle(s) == /\ owner[s] # Nobody
              /\ state[owner[s]] = "over"
              /\ owner' = [owner EXCEPT ![s] = Nobody]
              /\ UNCHANGED state

Next == \/ \E c \in Calls : Ask(c) \/ GoWithout(c) \/ Return(c)
        \/ \E c \in Calls, s \in Slots : Grant(c, s)
        \/ \E s \in Slots : Recycle(s)

Spec == Init /\ [][Next]_vars
=============================================================================
