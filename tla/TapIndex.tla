------------------------------ MODULE TapIndex ------------------------------
(***************************************************************************)
(* TAP indices of one Metal node and the address contract built on them    *)
(* (crates/common/src/networking.rs).  Every Firecracker VM of a node owns *)
(* one index i: its kernel device is tap<i> and its guest address is       *)
(* GuestIp(i), so two VMs with one index share a device and an address.    *)
(***************************************************************************)
EXTENDS Integers

CONSTANT MaxTapIndex      \* networking::MAX_TAP_INDEX, 63 * 63 - 1 in the code

ASSUME TapAssumption == MaxTapIndex \in Nat /\ MaxTapIndex < 63 * 63

Indices == 0 .. MaxTapIndex

\* The indices allocate_tap_index may still hand out.
Free(used) == Indices \ used

\* What allocate_tap_index promises: the smallest index that is not in use.
IsSmallestFree(i, used) ==
  /\ i \in Free(used)
  /\ \A j \in Free(used) : i <= j

\* guest_ip: 172.16.{idx / 63}.{(idx % 63) * 4 + 2}, the last two octets.
GuestIp(idx) == <<idx \div 63, (idx % 63) * 4 + 2>>

\* networking::GATEWAY is 172.16.0.1.
Gateway == <<0, 1>>
=============================================================================
