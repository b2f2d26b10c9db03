--------------------------- MODULE MCDeviceMemory ---------------------------
EXTENDS DeviceMemory, TLC

Small == << <<0, 1>> >>
Gapped == << <<0, 1>>, <<2, 3>> >>
Wide == << <<0, 4>> >>
High == << <<4, 6>> >>

\* Linked at the base of DRAM, as the device's toolchain links kernels.
BaseImages == {Small, Gapped}
\* Kernels linked at different addresses.
SpreadImages == {Small, High, Wide}

\* Much of one kind or some of both.
CallerBudgets == {<<0, 4>>, <<1, 2>>, <<2, 0>>}
LoadsOnly == {<<0, 3>>}

Symmetry == Permutations(Queues)
=============================================================================
