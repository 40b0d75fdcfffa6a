------------------------- MODULE EntitlementRegister -------------------------
(***************************************************************************)
(* What the billing webhook promises, with no Stripe deliveries, no log of *)
(* processed events and no checkout: each user holds one entitlement,      *)
(* which changes only by taking, whole, an offer that is the same age as   *)
(* the one held or newer.                                                  *)
(***************************************************************************)
EXTENDS Integers

CONSTANTS
    Users,
    Offers,     \* the entitlements a user may ever be offered
    Blank,      \* what a user holds before any offer
    NoTime      \* the stamp of something that cannot be ordered

VARIABLE held

Init == held = [u \in Users |-> Blank]

MayReplace(new, old) ==
    old.stamp = NoTime \/ new.stamp = NoTime \/ new.stamp >= old.stamp

Take(u, o) ==
    /\ MayReplace(o, held[u])
    /\ held' = [held EXCEPT ![u] = o]

Next == \E u \in Users : \E o \in Offers[u] : Take(u, o)

Spec == Init /\ [][Next]_held
==============================================================================
