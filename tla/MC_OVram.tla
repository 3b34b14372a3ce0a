------------------------------ MODULE MC_OVram ------------------------------
(* Instance of OVram for TLC: tenants with processes of their own.         *)
EXTENDS OVram

\* Calls that take the device to the floor
MCLarge == {[tier |-> TIER_PAID, mb |-> 4, min |-> 4, wait |-> 0]}
OwnPid == [t \in Tenant |-> t]
=============================================================================
