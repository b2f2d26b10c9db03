------------------------------- MODULE Sgemm --------------------------------
(***************************************************************************)
(* Matrix multiplication on the tensor co-processors: the checks and the   *)
(* launch of `blas::sgemm`, the partition of C over shires and Minions,    *)
(* and the loop of `compute_tile` against a co-processor that works behind *)
(* the back of the hart that issues its instructions.                      *)
(*                                                                         *)
(* Matrices are counted in f32 elements, of which a 64-byte row of a tile  *)
(* holds TileN (and TileK).  Of the data, the model keeps which part of A  *)
(* and B a register file holds and which products were summed up.          *)
(***************************************************************************)
EXTENDS Integers, Sequences, FiniteSetsExt

CONSTANTS
  TileM, TileN, TileK,  \* GEMM_TILE_M, GEMM_TILE_N, GEMM_TILE_K
  MinionsPerShire,      \* MINIONS_PER_SHIRE
  Available,            \* the shires of the device's topology
  MaxShires,            \* 63: shires a mask can name
  Problems,             \* bound: the arguments `sgemm` is called with
  Unwritten             \* a tile of C nothing was stored to

ASSUME SgemmAssumption ==
  /\ {TileM, TileN, TileK, MinionsPerShire} \subseteq Nat \ {0}
  /\ TileN = TileK
  /\ Available \subseteq Nat /\ MaxShires \in Nat
  /\ \A p \in Problems :
       {p.m, p.n, p.k, p.lda, p.ldb, p.ldc, p.nShires} \subseteq Nat

VARIABLES
  args,     \* the arguments of the call
  call,     \* "none", "rejected", "running" or "returned"
  pc,       \* where the primary hart of each Minion is
  local,    \* `local_idx` of each Minion
  ktile,    \* `k_tile` of each Minion
  ops,      \* tensor instructions issued and not completed
  scp,      \* the A sub-tile in the L1 scratchpad
  tenB,     \* the B sub-tile in the TenB registers
  acc,      \* the products summed up in the FP registers
  c,        \* the tiles of C in memory
  writers   \* the Minions that have stored each tile

hostVars == <<args, call>>
loopVars == <<pc, local, ktile>>
tensorVars == <<ops, scp, tenB, acc, c, writers>>
vars == <<hostVars, loopVars, tensorVars>>
-----------------------------------------------------------------------------
(***************************************************************************)
(* The host.                                                               *)
(***************************************************************************)
CeilDiv(a, b) == (a + b - 1) \div b

\* The argument checks of `sgemm`; addresses and overflow are left out.
Valid(p) ==
  /\ p.m > 0 /\ p.n > 0 /\ p.k > 0
  /\ p.nShires \in 1 .. MaxShires
  /\ \A stride \in {p.lda, p.ldb, p.ldc} : stride % TileN = 0
  /\ p.lda >= p.k /\ p.ldb >= p.n /\ p.ldc >= p.n
  /\ 0 .. p.nShires - 1 \subseteq Available

TileRows == CeilDiv(args.m, TileM)
TileCols == CeilDiv(args.n, TileN)
NumTiles == TileRows * TileCols
KTiles == CeilDiv(args.k, TileK)
Tiles == 0 .. NumTiles - 1

\* The Minions of the device; a launch starts those of the first nShires shires.
Minions == Available \X (0 .. MinionsPerShire - 1)
Launched == {m \in Minions : m[1] < args.nShires}

Init ==
  /\ args \in Problems
  /\ call = "none"
  /\ pc = [m \in Minions |-> "idle"]
  /\ local = [m \in Minions |-> 0]
  /\ ktile = [m \in Minions |-> 0]
  /\ ops = [m \in Minions |-> {}]
  /\ scp = [m \in Minions |-> Unwritten]
  /\ tenB = [m \in Minions |-> Unwritten]
  /\ acc = [m \in Minions |-> <<Unwritten>>]
  /\ c = [t \in Tiles |-> Unwritten]
  /\ writers = [t \in Tiles |-> {}]

\* `sgemm` up to the launch.
Call ==
  /\ call = "none"
  /\ call' = IF Valid(args) THEN "running" ELSE "rejected"
  /\ pc' = [m \in Minions |-> IF Valid(args) /\ m \in Launched THEN "start" ELSE "idle"]
  /\ UNCHANGED <<args, local, ktile, tensorVars>>

\* The launch has completed and `sgemm` returns.
Return ==
  /\ call = "running"
  /\ \A m \in Launched : pc[m] = "done"
  /\ call' = "returned"
  /\ UNCHANGED <<args, loopVars, tensorVars>>
-----------------------------------------------------------------------------
(***************************************************************************)
(* The partition.  A shire owns a block of consecutive tiles, of which its *)
(* Minions take every MinionsPerShire-th.                                  *)
(***************************************************************************)

\* Variant: the tiles that do not divide evenly belong to no shire.
ShireSizeFloor == NumTiles \div args.nShires
ShireSize == CeilDiv(NumTiles, args.nShires)
ShireBase(m) == m[1] * ShireSize

\* Variant: the last block is as long as the others.
ShireEndUnbounded(m) == ShireSize
ShireEnd(m) == Min({Max({NumTiles - ShireBase(m), 0}), ShireSize})

\* Variant: the step of a Minion is one tile.
AdvanceByOne(i) == i + 1
\* Variant: a Minion stays at its tile.
AdvanceNever(i) == i
Advance(i) == i + MinionsPerShire

Tile(m) == ShireBase(m) + local[m]
Row(t) == t \div TileCols
Col(t) == t % TileCols

\* Variant: a tile at the lower edge has as many rows as the others.
RowsWhole(t) == TileM
Rows(t) == Min({TileM, args.m - Row(t) * TileM})
Depth(k) == Min({TileK, args.k - k * TileK})
-----------------------------------------------------------------------------
(***************************************************************************)
(* The kernel.                                                             *)
(***************************************************************************)
Goto(m, l) == pc' = [pc EXCEPT ![m] = l]

Issue(m, op) == ops' = [ops EXCEPT ![m] = @ \cup {op}]
\* `tensor_wait`
Waited(m, kind) == \A op \in ops[m] : op.kind # kind

\* `entry_point`: the Minion's place in its shire is its first tile there.
Start(m) ==
  /\ pc[m] = "start"
  /\ local' = [local EXCEPT ![m] = m[2]]
  /\ Goto(m, "tile")
  /\ UNCHANGED <<hostVars, ktile, tensorVars>>

\* The loop over tiles.
Begin(m) ==
  /\ pc[m] = "tile"
  /\ ktile' = [ktile EXCEPT ![m] = 0]
  /\ Goto(m, IF local[m] < ShireEnd(m) THEN "load A" ELSE "done")
  /\ UNCHANGED <<hostVars, local, tensorVars>>

LoadA(m) ==
  /\ pc[m] = "load A"
  /\ Issue(m, [kind |-> "load0", tile |-> Tile(m), k |-> ktile[m]])
  /\ Goto(m, "load B")
  /\ UNCHANGED <<hostVars, local, ktile, scp, tenB, acc, c, writers>>

\* TensorWait(Load0), then B's load, whose event is Load1.
LoadB(m) ==
  /\ pc[m] = "load B"
  /\ Waited(m, "load0")
  /\ Issue(m, [kind |-> "load1", tile |-> Tile(m), k |-> ktile[m]])
  /\ Goto(m, "fma")
  /\ UNCHANGED <<hostVars, local, ktile, scp, tenB, acc, c, writers>>

\* Variant: the first product is added to what the registers hold.
MulOnlyNever(k) == FALSE
MulOnly(k) == k = 0

Fma(m) ==
  /\ pc[m] = "fma"
  /\ Issue(m, [kind |-> "fma", tile |-> Tile(m), k |-> ktile[m]])
  /\ Goto(m, "wait")
  /\ UNCHANGED <<hostVars, local, ktile, scp, tenB, acc, c, writers>>

\* TensorWait(Fma) ends a turn of the loop over k.
Accumulated(m) ==
  /\ pc[m] = "wait"
  /\ Waited(m, "fma")
  /\ ktile' = [ktile EXCEPT ![m] = @ + 1]
  /\ Goto(m, IF ktile[m] + 1 < KTiles THEN "load A" ELSE "store")
  /\ UNCHANGED <<hostVars, local, tensorVars>>

StoreC(m) ==
  /\ pc[m] = "store"
  /\ Issue(m, [kind |-> "store", tile |-> Tile(m), k |-> ktile[m]])
  /\ Goto(m, "drain")
  /\ UNCHANGED <<hostVars, local, ktile, scp, tenB, acc, c, writers>>

\* Variant: the store is left to complete on its own.
StoreDrainedNever(m) == TRUE
\* TensorWait(Store); the fence after it orders nothing that is still under way.
StoreDrained(m) == Waited(m, "store")

Drain(m) ==
  /\ pc[m] = "drain"
  /\ StoreDrained(m)
  /\ local' = [local EXCEPT ![m] = Advance(@)]
  /\ Goto(m, "tile")
  /\ UNCHANGED <<hostVars, ktile, tensorVars>>

Kernel(m) ==
  \/ Start(m) \/ Begin(m) \/ LoadA(m) \/ LoadB(m) \/ Fma(m)
  \/ Accumulated(m) \/ StoreC(m) \/ Drain(m)
-----------------------------------------------------------------------------
(***************************************************************************)
(* The co-processor completes what was issued in any order, except that an *)
(* FMA waits for the B load it is paired with.                             *)
(***************************************************************************)
Done(m, op) == ops' = [ops EXCEPT ![m] = @ \ {op}]

CompleteLoadA(m, op) ==
  /\ op.kind = "load0"
  /\ scp' = [scp EXCEPT ![m] = [row |-> Row(op.tile), k |-> op.k]]
  /\ UNCHANGED <<tenB, acc, c, writers>>

CompleteLoadB(m, op) ==
  /\ op.kind = "load1"
  /\ tenB' = [tenB EXCEPT ![m] = [col |-> Col(op.tile), k |-> op.k]]
  /\ UNCHANGED <<scp, acc, c, writers>>

Product(a, b, rows, depth) == [a |-> a, b |-> b, rows |-> rows, depth |-> depth]

CompleteFma(m, op) ==
  /\ op.kind = "fma"
  /\ Waited(m, "load1")
  /\ LET product == Product(scp[m], tenB[m], Rows(op.tile), Depth(op.k)) IN
     acc' = [acc EXCEPT ![m] = IF MulOnly(op.k) THEN <<product>> ELSE Append(@, product)]
  /\ UNCHANGED <<scp, tenB, c, writers>>

CompleteStore(m, op) ==
  /\ op.kind = "store"
  /\ c' = [c EXCEPT ![op.tile] = acc[m]]
  /\ writers' = [writers EXCEPT ![op.tile] = @ \cup {m}]
  /\ UNCHANGED <<scp, tenB, acc>>

Complete(m) ==
  \E op \in ops[m] :
    /\ \/ CompleteLoadA(m, op) \/ CompleteLoadB(m, op)
       \/ CompleteFma(m, op) \/ CompleteStore(m, op)
    /\ Done(m, op)
    /\ UNCHANGED <<hostVars, loopVars>>

Next ==
  \/ Call \/ Return
  \/ \E m \in Minions : Kernel(m) \/ Complete(m)

Spec == Init /\ [][Next]_vars

\* Minions and co-processors run, and the host waits for the launch.
FairSpec ==
  /\ Spec
  /\ WF_vars(Return)
  /\ \A m \in Minions : WF_vars(Kernel(m)) /\ WF_vars(Complete(m))
-----------------------------------------------------------------------------
(***************************************************************************)
(* Properties.                                                             *)
(***************************************************************************)
TensorOps == [kind : {"load0", "load1", "fma", "store"}, tile : Tiles, k : 0 .. KTiles]

\* A Minion works on tiles of the grid only, with one instruction of each kind
\* under way at most.
TypeOK ==
  /\ args \in Problems
  /\ call \in {"none", "rejected", "running", "returned"}
  /\ pc \in [Minions -> {"idle", "start", "tile", "load A", "load B", "fma", "wait",
                         "store", "drain", "done"}]
  /\ \A m \in Minions :
       /\ local[m] \in Nat
       /\ ktile[m] \in 0 .. KTiles
       /\ ops[m] \subseteq TensorOps
       /\ \A o, p \in ops[m] : o.kind = p.kind => o = p
  /\ \A t \in Tiles : writers[t] \subseteq Launched

\* What A times B is, tile by tile: every slice of k once, in order.
Result(t) ==
  [i \in 1 .. KTiles |->
     Product([row |-> Row(t), k |-> i - 1], [col |-> Col(t), k |-> i - 1], Rows(t), Depth(i - 1))]

\* Memory never holds anything but whole results: no tile is stored before its
\* last slice of k is in, with a product of another tile, or with what the
\* registers held before.
StoredWhole == \A t \in Tiles : c[t] \in {Unwritten, Result(t)}

\* When the call has returned, all of C is in memory, whatever the number of
\* tiles is, and no store is still to come.
ResultComplete ==
  call = "returned" =>
    /\ \A t \in Tiles : c[t] = Result(t)
    /\ \A m \in Minions : ops[m] = {}

\* Shires and Minions divide the grid between them: no tile has two writers, now
\* or later.
OneWriter ==
  \A m, o \in Launched :
    m # o /\ {pc[m], pc[o]} \cap {"idle", "start", "tile", "done"} = {} =>
      /\ Tile(m) # Tile(o)
      /\ m \notin writers[Tile(o)]

\* Each element of C the co-processor stores, padding of the last columns
\* included, lies in a row of C and in the rows the caller has allocated.
StoresInside ==
  TypeOK /\ \A m \in Minions : \A op \in ops[m] :
    op.kind = "store" =>
      /\ (Col(op.tile) + 1) * TileN <= args.ldc
      /\ Row(op.tile) * TileM + Rows(op.tile) <= args.m

\* Every accepted call returns.
Returns == call = "running" ~> call = "returned"
=============================================================================
