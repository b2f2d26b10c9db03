----------------------------- MODULE SpmdOutput -----------------------------
(***************************************************************************)
(* The self-checking programs: a host program prefills an output array,    *)
(* launches a kernel on some shires, every hart of which runs it and       *)
(* writes output cells of its own, and then reads the array back and says  *)
(* whether the device did what it should.                                  *)
(*                                                                         *)
(*   reduce, reset_test             kernel reduce: a cell per hart         *)
(*   cache_test, double_buffer      kernel cache_test: a cell per Minion   *)
(*   simd_test, tensor_ext_test     the kernels of these names, which      *)
(*                                  store with the tensor co-processor     *)
(*   ps_math_test                   its kernel: units dealt out to the     *)
(*                                  Minions that were launched             *)
(*                                                                         *)
(* A cell is a cache line.  What a hart stores stays above DDR, where host *)
(* DMA reads, until a cache operation or a replacement of the line takes   *)
(* it there; a tensor store lands there some time after it was issued.     *)
(* Loading the kernel, the arguments and the upload of the input work as   *)
(* in DeviceMemory and Staging and are left out.                           *)
(***************************************************************************)
EXTENDS Integers, FiniteSets, FiniteSetsExt

CONSTANTS
  Setups,        \* pairs of a program and the set of shires the device has
  MaskBits,      \* the bits of a shire mask
  ShireMinions,  \* Minions of a shire, with two harts each
  Elements,      \* elements that the reduction sums
  Units          \* units of ps_math_test

Programs == {"reduce", "reset_test", "cache_test", "double_buffer", "simd_test",
             "tensor_ext_test", "ps_math_test"}

ASSUME SpmdAssumption ==
  /\ {MaskBits, ShireMinions} \subseteq Nat \ {0} /\ {Elements, Units} \subseteq Nat
  /\ Setups \subseteq Programs \X ((SUBSET (0 .. MaskBits - 1)) \ {{}})
\* reset_test is used on devices whose shires are numbered without a gap.
ASSUME NoGapInResetTest ==
  \A s \in Setups : s[1] = "reset_test" => s[2] = 0 .. Cardinality(s[2]) - 1
\* The input of reduce has an element for every hart of a shire.
ASSUME EnoughElements == Elements >= 2 * ShireMinions

VARIABLES
  program,   \* the host program
  present,   \* the shires the device has (Topology::shire_mask)
  launched,  \* the shires it launches the kernel on
  dest,      \* cache_test's argument: the level that data is written back to
  leftover,  \* what earlier programs have left where the array will be
  host,      \* how far the host program is
  round,     \* the launch: an operation, a phase or an attempt of the program
  ddr,       \* ddr[x]: the value of cell x, and the launch that stored it
  above,     \* above[x]: the same for the copy on its way to DDR
  level,     \* level[x]: where that copy is, or "none"
  hart,      \* hart[h]: "store", "publish", or "idle" outside the kernel
  next,      \* next[h]: the cell it stores to next
  storers    \* history: the harts that have stored to a cell in this launch

programVars == <<program, present, launched, dest, leftover>>
deviceVars == <<ddr, above, level, hart, next, storers>>
spmdVars == <<programVars, deviceVars, host, round>>
-----------------------------------------------------------------------------
(***************************************************************************)
(* Topology: harts and Minions are numbered by their shire.                *)
(***************************************************************************)
HartsPerShire == 2 * ShireMinions
Harts == 0 .. MaskBits * HartsPerShire - 1

ShireOf(h) == h \div HartsPerShire
Primary(h) == h % 2 = 0
MinionInShire(h) == (h % HartsPerShire) \div 2

NumShires(shires) == Cardinality(shires)
NumHarts(shires) == NumShires(shires) * HartsPerShire
FirstShire == {Min(present)}
Lowest(k) == {s \in present : Cardinality({t \in present : t < s}) < k}

\* The shires up to the highest one launched.
Extent(shires) == Max(shires) + 1
-----------------------------------------------------------------------------
(***************************************************************************)
(* The reductions: every participating hart sums a slice of the input.     *)
(***************************************************************************)
Reduces == program \in {"reduce", "reset_test"}

\* One shire in reduce, as many harts as are launched in reset_test.
GridHarts == IF program = "reduce" THEN HartsPerShire ELSE NumHarts(launched)
Active(h) == h < GridHarts

\* Variant: the remainder of the division is dropped.
SliceFloor(h) == LET base == Elements \div GridHarts IN h * base .. (h + 1) * base - 1
\* `range`: the first harts take one element more.
Slice(h) ==
  LET base == Elements \div GridHarts
      rem == Elements % GridHarts
      start == h * base + Min({h, rem})
  IN start .. start + base + (IF h < rem THEN 1 ELSE 0) - 1

\* Element i is i + 1 in reduce and i in reset_test.
Element(i) == IF program = "reduce" THEN i + 1 ELSE i
SumOf(range) == SumFunction([i \in range |-> Element(i)])
Total == SumOf(0 .. Elements - 1)
-----------------------------------------------------------------------------
(***************************************************************************)
(* The cells that hart h stores to in each kernel.  The kernels number     *)
(* Minions by shire and skip those beyond the extent in their arguments,   *)
(* except for ps_math_test, which numbers the launched ones without gaps.  *)
(***************************************************************************)

\* Variant: a Minion's number in its shire.
MinionOfShire(h) == MinionInShire(h)
Minion(h) == ShireOf(h) * ShireMinions + MinionInShire(h)

MinionCount == Extent(launched) * ShireMinions
Rank(h) == Cardinality({s \in launched : s < ShireOf(h)}) * ShireMinions + MinionInShire(h)

ReduceCells(h) == IF Active(h) THEN {h} ELSE {}
MinionCells(h) == IF Minion(h) < MinionCount THEN {Minion(h)} ELSE {}
RowCells(h) == IF ShireOf(h) < Extent(launched) THEN {Minion(h)} ELSE {}
SubtestCells(h) == IF Minion(h) < MinionCount THEN {3 * Minion(h) + t : t \in 0 .. 2} ELSE {}
UnitCells(h) ==
  {u \in 0 .. Units - 1 :
     u >= Rank(h) /\ (u - Rank(h)) % (NumShires(launched) * ShireMinions) = 0}

\* Every hart runs the kernel; but for the reductions, only the primary hart of
\* a Minion does anything.
CellsOf(h) ==
  CASE Reduces -> ReduceCells(h)
    [] ~Reduces /\ ~Primary(h) -> {}
    [] OTHER -> CASE program = "simd_test" -> RowCells(h)
                  [] program = "tensor_ext_test" -> SubtestCells(h)
                  [] program = "ps_math_test" -> UnitCells(h)
                  [] OTHER -> MinionCells(h)

\* A hart's number, its Minion's, the result of a subtest or of a unit.
Stored(h, x) ==
  CASE Reduces -> SumOf(Slice(h))
    [] program = "tensor_ext_test" -> x % 3
    [] program = "ps_math_test" -> x
    [] OTHER -> Minion(h)
-----------------------------------------------------------------------------
(***************************************************************************)
(* The array, and what the host expects in it.                             *)
(***************************************************************************)
NumCells ==
  CASE Reduces -> GridHarts
    [] program = "tensor_ext_test" -> 3 * MinionCount
    [] program = "ps_math_test" -> Units
    [] OTHER -> MinionCount
Cells == 0 .. NumCells - 1
MaxCells == Max({3 * MaskBits * ShireMinions, Units})
AllCells == 0 .. MaxCells - 1

Sentinel == -1
\* Variant: no program writes the array before a launch.
PrefilledNever == FALSE
\* Programs that write the array before every launch.  The second launch of
\* double_buffer has an array of its own, as every launch of ps_math_test has.
Prefilled == program # "reset_test"
Prefill == IF program = "reduce" THEN 0 ELSE Sentinel

\* The cells of shires that were not launched keep the sentinel.
LaunchedCell(x) ==
  CASE program \in {"reduce", "reset_test", "ps_math_test"} -> TRUE
    [] program = "tensor_ext_test" -> (x \div 3) \div ShireMinions \in launched
    [] OTHER -> x \div ShireMinions \in launched

Right(x) ==
  CASE Reduces -> SumOf(Slice(x))
    [] program = "tensor_ext_test" -> x % 3
    [] OTHER -> x

\* The comparisons of reduce, of reset_test, and of the programs that know what
\* every cell must hold.
TotalRight(value) == SumFunction(value) = Total
AllContributed(value) == \A x \in Cells : value[x] # 0
CellsRight(value) == \A x \in Cells : value[x] = IF LaunchedCell(x) THEN Right(x) ELSE Sentinel

Verified(value) ==
  CASE program = "reduce" -> AllContributed(value) /\ TotalRight(value)
    [] program = "reset_test" -> TotalRight(value)
    [] OTHER -> CellsRight(value)

Rounds ==
  CASE program \in {"reduce", "simd_test", "tensor_ext_test"} -> 1
    [] program \in {"reset_test", "double_buffer"} -> 2
    [] program = "cache_test" -> 3
    [] program = "ps_math_test" -> 4
-----------------------------------------------------------------------------
SpmdInit ==
  /\ \E setup \in Setups : program = setup[1] /\ present = setup[2]
  /\ launched \in
       CASE program = "reduce" -> {FirstShire}
         [] program \in {"cache_test", "simd_test", "ps_math_test"} ->
              {Lowest(k) : k \in 1 .. NumShires(present)}
         [] OTHER -> {present}
  /\ dest \in IF program = "cache_test" THEN {1, 2, 3} ELSE {3}
  /\ leftover \in {"right", "wrong"}
  /\ host = "start"
  /\ round = 1
  /\ ddr = [x \in AllCells |->
              [value |-> IF leftover = "right" /\ x \in Cells THEN Right(x) ELSE 100, by |-> 0]]
  /\ above = ddr
  /\ level = [x \in AllCells |-> "none"]
  /\ hart = [h \in Harts |-> "idle"]
  /\ next = [h \in Harts |-> 0]
  /\ storers = [x \in AllCells |-> {}]

(***************************************************************************)
(* The host.                                                               *)
(***************************************************************************)

\* Variant: reduce runs on whichever shire is the first.
RefusedNever == FALSE
\* The reduction numbers harts globally, so it needs shire 0.
Refused == program = "reduce" /\ launched # {0}

Refuse ==
  /\ host = "start"
  /\ Refused
  /\ host' = "refused"
  /\ UNCHANGED <<programVars, deviceVars, round>>

Mine(h) == IF ShireOf(h) \in launched THEN CellsOf(h) ELSE {}

\* `fill`, and the launch: every hart of the launched shires runs the kernel,
\* and one without a cell returns at once.
Launch ==
  /\ host = "start"
  /\ ~Refused
  /\ host' = "waiting"
  /\ ddr' = [x \in AllCells |-> IF x \in Cells /\ Prefilled
                                THEN [value |-> Prefill, by |-> 0] ELSE ddr[x]]
  /\ storers' = [x \in AllCells |-> {}]
  /\ hart' = [h \in Harts |-> IF Mine(h) # {} THEN "store" ELSE "idle"]
  /\ next' = [h \in Harts |-> IF Mine(h) # {} THEN Min(Mine(h)) ELSE 0]
  /\ UNCHANGED <<programVars, above, level, round>>

\* The launch fails; what the harts have done by then may be anything.
LaunchFails ==
  /\ host = "waiting"
  /\ host' = "error"
  /\ UNCHANGED <<programVars, deviceVars, round>>

\* All harts have returned: the array is read back and verified.  (ps_math_test
\* goes on after a function that is wrong, and fails in the end.)
Verify ==
  /\ host = "waiting"
  /\ \A h \in Harts : hart[h] = "idle"
  /\ host' = IF Verified([x \in Cells |-> ddr[x].value]) THEN "passed" ELSE "failed"
  /\ UNCHANGED <<programVars, deviceVars, round>>

\* The program goes on with its next operation, phase or attempt.
NextRound ==
  /\ host = "passed"
  /\ round < Rounds
  /\ round' = round + 1
  /\ host' = "start"
  /\ UNCHANGED <<programVars, deviceVars>>

Ended == host \in {"refused", "failed", "error"} \/ (host = "passed" /\ round = Rounds)
-----------------------------------------------------------------------------
(***************************************************************************)
(* The kernels.                                                            *)
(***************************************************************************)
Tensor == program \in {"simd_test", "tensor_ext_test"}
Above(l) == CASE l = "l1" -> 1 [] l = "l2" -> 2 [] l = "l3" -> 3
LevelOf(n) == CASE n = 1 -> "l2" [] n = 2 -> "l3" [] OTHER -> "none"

Store(h) ==
  /\ hart[h] = "store"
  /\ LET x == next[h]
     IN /\ above' = [above EXCEPT ![x] = [value |-> Stored(h, x), by |-> round]]
        /\ level' = [level EXCEPT ![x] = IF Tensor THEN "tensor" ELSE "l1"]
        /\ storers' = [storers EXCEPT ![x] = @ \cup {h}]
  /\ hart' = [hart EXCEPT ![h] = "publish"]
  /\ UNCHANGED <<programVars, host, round, ddr, next>>

\* The copy of cell x moves down to level l.
MoveTo(x, l) ==
  /\ level' = [level EXCEPT ![x] = l]
  /\ ddr' = IF l = "none" THEN [ddr EXCEPT ![x] = above[x]] ELSE ddr

Further(h) == {x \in CellsOf(h) : x > next[h]}

\* Variant: nothing but a fence follows the store.
PublishedFenced(h) == UNCHANGED <<level, ddr>>
\* A cached line is written back to its level, and flush goes all the way; the
\* hart waits for a tensor store to land.
Published(h) ==
  LET x == next[h]
      target == IF program = "cache_test" /\ round # 3 THEN dest ELSE 3
  IN IF Tensor THEN level[x] = "none" /\ UNCHANGED <<level, ddr>>
     ELSE IF level[x] # "none" /\ Above(level[x]) <= target THEN MoveTo(x, LevelOf(target))
     ELSE UNCHANGED <<level, ddr>>

Publish(h) ==
  /\ hart[h] = "publish"
  /\ Published(h)
  /\ IF Further(h) = {} THEN hart' = [hart EXCEPT ![h] = "idle"] /\ UNCHANGED next
     ELSE hart' = [hart EXCEPT ![h] = "store"] /\ next' = [next EXCEPT ![h] = Min(Further(h))]
  /\ UNCHANGED <<programVars, host, round, above, storers>>

\* The caches replace a line, and tensor stores land, when they like.
Settle(x) ==
  /\ level[x] # "none"
  /\ \E l \in {"l2", "l3", "none"} :
       /\ l # "none" => level[x] # "tensor" /\ Above(l) > Above(level[x])
       /\ MoveTo(x, l)
  /\ UNCHANGED <<programVars, host, round, above, hart, next, storers>>

KernelSteps == \E h \in Harts : Store(h) \/ Publish(h)

SpmdNext ==
  \/ Refuse \/ Launch \/ LaunchFails \/ Verify \/ NextRound
  \/ host = "waiting" /\ KernelSteps
  \/ \E x \in AllCells : Settle(x)

SpmdSpec == SpmdInit /\ [][SpmdNext]_spmdVars
-----------------------------------------------------------------------------
(***************************************************************************)
(* Properties.                                                             *)
(***************************************************************************)

\* Types; a copy is never above DDR while the host writes the array, so that no
\* later replacement undoes the prefill.
SpmdTyped ==
  /\ <<program, present>> \in Setups
  /\ launched \subseteq present /\ launched # {}
  /\ dest \in 1 .. 3 /\ leftover \in {"right", "wrong"}
  /\ host \in {"start", "waiting", "refused", "passed", "failed", "error"}
  /\ round \in 1 .. Rounds
  /\ {ddr, above} \subseteq [AllCells -> [value : Int, by : 0 .. round]]
  /\ level \in [AllCells -> {"none", "l1", "l2", "l3", "tensor"}]
  /\ hart \in [Harts -> {"idle", "store", "publish"}]
  /\ \A h \in Harts : hart[h] # "idle" => next[h] \in Cells
  /\ storers \in [AllCells -> SUBSET Harts]
  /\ host = "start" => \A x \in AllCells : level[x] = "none"

\* A program passes only on what this launch has computed: not on what the
\* prefill or an earlier program left in DRAM, and not on a copy that has yet
\* to get there (`fill`, cache_writeback, tensor_wait).
PassMeansWritten ==
  host = "passed" =>
    \A x \in Cells : LaunchedCell(x) => ddr[x] = [value |-> Right(x), by |-> round]

\* A device that works passes: a program fails only if it was asked to write
\* back to a cache instead of to memory.
NoFalseFailure == host = "failed" => dest # 3

\* No two harts store to one cell, nor any beyond the array (Grid::output_cell,
\* the Minion numbers of the kernels).
OneWriterInside ==
  /\ SpmdTyped
  /\ \A x \in AllCells : \A g, h \in storers[x] : g = h
  /\ \A x \in AllCells : storers[x] # {} => x \in Cells
=============================================================================
