------------------------------- MODULE RWLock -------------------------------
(***************************************************************************)
(* What a namespace lock promises its callers (crates/lock/src/lib.rs, the *)
(* LockMode of fast_lock/types.rs): a guard is shared or exclusive, an     *)
(* exclusive guard excludes every other one, and only its holder gives a   *)
(* guard back.                                                             *)
(***************************************************************************)
CONSTANTS Clients, NoMode

VARIABLE held   \* the mode each client holds, or NoMode

RWModes == {"Shared", "Exclusive"}

RWTypeOK == held \in [Clients -> RWModes \cup {NoMode}]

RWInit == held = [c \in Clients |-> NoMode]

Compatible(c, m) ==
  \A d \in Clients \ {c} :
    /\ held[d] # "Exclusive"
    /\ m = "Exclusive" => held[d] = NoMode

Acquire(c, m) ==
  /\ held[c] = NoMode
  /\ Compatible(c, m)
  /\ held' = [held EXCEPT ![c] = m]

Release(c) ==
  /\ held[c] # NoMode
  /\ held' = [held EXCEPT ![c] = NoMode]

RWNext == \E c \in Clients : Release(c) \/ \E m \in RWModes : Acquire(c, m)

RWSpec == RWInit /\ [][RWNext]_held

=============================================================================
