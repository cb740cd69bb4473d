--------------------------- MODULE LeaseContract ---------------------------
(***************************************************************************)
(* What the lease primitives of the kernel promise (docs/RUNTIME.md,       *)
(* "Lease, heartbeat, and reclaim semantics"), with no store, version or   *)
(* caller in sight: a session carries at most one lease; a lease is        *)
(* granted only when the previous one is absent or past its expiry, always *)
(* under an id never used before; until then it can only be extended or    *)
(* given up.  Nothing else ever moves it.                                  *)
(***************************************************************************)
EXTENDS Naturals

CONSTANTS Session, LeaseTTL

VARIABLES lease,     \* lease[s]: the id on the session, 0 when there is none
          expires,   \* expires[s]: when it lapses
          granted,   \* ids handed out so far
          now

vars == <<lease, expires, granted, now>>

Init == /\ lease = [s \in Session |-> 0]
        /\ expires = [s \in Session |-> 0]
        /\ granted = 0
        /\ now = 1

Free(s) == lease[s] = 0 \/ expires[s] <= now

Grant(s) ==
    /\ Free(s)
    /\ granted' = granted + 1
    /\ lease' = [lease EXCEPT ![s] = granted + 1]
    /\ \E e \in 0..(now + LeaseTTL) : expires' = [expires EXCEPT ![s] = e]
    /\ UNCHANGED now

Extend(s) ==
    /\ lease[s] # 0
    /\ \E e \in 0..(now + LeaseTTL) : expires' = [expires EXCEPT ![s] = e]
    /\ UNCHANGED <<lease, granted, now>>

GiveUp(s) ==
    /\ lease[s] # 0
    /\ lease' = [lease EXCEPT ![s] = 0]
    /\ expires' = [expires EXCEPT ![s] = 0]
    /\ UNCHANGED <<granted, now>>

Tick == now' = now + 1 /\ UNCHANGED <<lease, expires, granted>>

Next == Tick \/ \E s \in Session : Grant(s) \/ Extend(s) \/ GiveUp(s)

Spec == Init /\ [][Next]_vars
=============================================================================
