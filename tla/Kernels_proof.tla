--------------------------- MODULE Kernels_proof ----------------------------
(***************************************************************************)
(* Proofs about the kernels: Sgemm, for every size of the tiles, number of *)
(* Minions and shires, and every set of arguments; and the programs of     *)
(* SpmdOutput, for every set of shires, number of Minions, elements and    *)
(* units.                                                                  *)
(***************************************************************************)
EXTENDS Sgemm, SpmdOutput, FiniteSetTheorems, TLAPS

\* The tiles of Minion m: those of its shire's block that have its remainder.
Owns(m, t) ==
  /\ ShireBase(m) <= t /\ t < ShireBase(m) + ShireSize
  /\ (t - ShireBase(m)) % MinionsPerShire = m[2]

\* The first n products of tile t.
Partial(t, n) ==
  [i \in 1 .. n |->
     Product([row |-> Row(t), k |-> i - 1], [col |-> Col(t), k |-> i - 1], Rows(t), Depth(i - 1))]

Instruction(m, kind) == [kind |-> kind, tile |-> Tile(m), k |-> ktile[m]]

Busy == {"load A", "load B", "fma", "wait", "store", "drain"}

Domains ==
  /\ pc \in [Minions -> {"idle", "start", "tile", "done"} \cup Busy]
  /\ local \in [Minions -> Nat] /\ ktile \in [Minions -> Nat]
  /\ DOMAIN ops = Minions /\ DOMAIN scp = Minions /\ DOMAIN tenB = Minions
  /\ DOMAIN acc = Minions /\ DOMAIN c = Tiles /\ DOMAIN writers = Tiles

\* Only an accepted call has Minions at work, and it returns when all are done.
Called ==
  /\ args \in Problems
  /\ call \in {"none", "rejected", "running", "returned"}
  /\ call \in {"running", "returned"} => Valid(args) /\ \A m \in Launched : pc[m] # "idle"
  /\ call = "returned" => \A m \in Launched : pc[m] = "done"

\* A Minion that works has a tile of its own in its shire's block.
InBlock(m) ==
  /\ pc[m] # "idle" => m \in Launched /\ call \in {"running", "returned"}
  /\ pc[m] \notin {"idle", "start"} => local[m] % MinionsPerShire = m[2]
  /\ pc[m] \in Busy => local[m] < ShireEnd(m)
  /\ pc[m] = "done" => local[m] >= ShireEnd(m)

\* What may be under way at each place of the loop over k.
Underway(m) ==
  /\ pc[m] \notin {"load B", "fma", "wait", "drain"} => ops[m] = {}
  /\ pc[m] = "load B" => ops[m] \subseteq {Instruction(m, "load0")}
  /\ pc[m] = "fma" => ops[m] \subseteq {Instruction(m, "load1")}
  /\ pc[m] = "wait" =>
       /\ ops[m] \subseteq {Instruction(m, "load1"), Instruction(m, "fma")}
       /\ Instruction(m, "load1") \in ops[m] => Instruction(m, "fma") \in ops[m]
  /\ pc[m] = "drain" => ops[m] \subseteq {Instruction(m, "store")}

\* Once a load has completed, its registers hold this turn's sub-tile.
OperandsLoaded(m) ==
  /\ pc[m] \in {"fma", "wait"} \/ (pc[m] = "load B" /\ ops[m] = {}) =>
       scp[m] = [row |-> Row(Tile(m)), k |-> ktile[m]]
  /\ pc[m] \in {"fma", "wait"} /\ Instruction(m, "load1") \notin ops[m] =>
       tenB[m] = [col |-> Col(Tile(m)), k |-> ktile[m]]

\* The registers hold the products of the turns that are over, and nothing else.
Accumulating(m) ==
  \/ pc[m] \in {"load A", "load B", "fma"}
  \/ pc[m] = "wait" /\ Instruction(m, "fma") \in ops[m]
SumsUp(m) ==
  /\ ktile[m] <= KTiles
  /\ pc[m] \in {"load A", "load B", "fma", "wait"} => ktile[m] < KTiles
  /\ Accumulating(m) => ktile[m] = 0 \/ acc[m] = Partial(Tile(m), ktile[m])
  /\ pc[m] = "wait" /\ ~Accumulating(m) => acc[m] = Partial(Tile(m), ktile[m] + 1)
  /\ pc[m] \in {"store", "drain"} => ktile[m] = KTiles /\ acc[m] = Result(Tile(m))

\* The tiles a Minion has left behind are in memory.
LeftBehind(m) ==
  /\ pc[m] \notin {"idle", "start"} =>
       \A t \in Tiles : Owns(m, t) /\ t < Tile(m) => c[t] = Result(t)
  /\ pc[m] = "drain" /\ ops[m] = {} => c[Tile(m)] = Result(Tile(m))

\* A tile in memory is whole, and stored by its owner.
Memory ==
  \A t \in Tiles :
    /\ c[t] \in {Unwritten, Result(t)}
    /\ \A m \in writers[t] : m \in Launched /\ Owns(m, t)

Working(m) ==
  InBlock(m) /\ Underway(m) /\ OperandsLoaded(m) /\ SumsUp(m) /\ LeftBehind(m)

IInv == Domains /\ Called /\ Memory /\ \A m \in Minions : Working(m)
-----------------------------------------------------------------------------
(***************************************************************************)
(* Arithmetic of the partition.                                            *)
(***************************************************************************)
LEMMA Quotient ==
  ASSUME NEW a \in Int, NEW b \in Nat \ {0}
  PROVE  /\ a \div b \in Int /\ a % b \in 0 .. b - 1
         /\ a = b * (a \div b) + (a % b)
OBVIOUS

\* A quotient and a remainder that fit are the quotient and the remainder.
LEMMA QuotientUnique ==
  ASSUME NEW b \in Nat \ {0}, NEW q \in Int, NEW r \in 0 .. b - 1
  PROVE  (b * q + r) \div b = q /\ (b * q + r) % b = r
<1> DEFINE a == b * q + r
           p == a \div b
<1>1. a \in Int /\ p \in Int /\ a % b \in 0 .. b - 1 /\ a = b * p + (a % b)
  BY Quotient
<1> HIDE DEF p
<1>2. b * (q - p) = (a % b) - r
  BY <1>1
<1>3. q - p < 1 /\ -1 < q - p
  <2>1. b * (q - p) < b /\ -b < b * (q - p)
    BY <1>1, <1>2
  <2>2. q - p \in Int
    BY <1>1
  <2> HIDE DEF a
  <2>3. ASSUME NEW d \in Int, b * d < b, -b < b * d PROVE d < 1 /\ -1 < d
    BY <2>3
  <2>4. QED
    BY <2>1, <2>2, <2>3
<1>4. q = p
  BY <1>1, <1>3
<1>5. QED
  BY <1>1, <1>4 DEF p

LEMMA CeilDivCovers ==
  ASSUME NEW a \in Nat, NEW b \in Nat \ {0}
  PROVE  /\ CeilDiv(a, b) \in Nat /\ a <= CeilDiv(a, b) * b
         /\ CeilDiv(a, b) * b < a + b
<1>1. a + b - 1 \in Nat
  OBVIOUS
<1> DEFINE q == (a + b - 1) \div b
<1>2. q \in Int /\ (a + b - 1) % b \in 0 .. b - 1 /\ a + b - 1 = b * q + ((a + b - 1) % b)
  BY <1>1, Quotient
<1>3. q \in Nat
  BY <1>1
<1> HIDE DEF q
<1>4. a <= q * b /\ q * b < a + b
  BY <1>2, <1>3
<1>5. QED
  BY <1>3, <1>4 DEF CeilDiv, q

LEMMA CeilDivPositive ==
  ASSUME NEW a \in Nat \ {0}, NEW b \in Nat \ {0}
  PROVE  CeilDiv(a, b) >= 1
<1>1. CeilDiv(a, b) \in Nat /\ a <= CeilDiv(a, b) * b
  BY CeilDivCovers
<1> DEFINE q == CeilDiv(a, b)
<1> HIDE DEF q
<1>2. q \in Nat /\ a <= q * b
  BY <1>1 DEF q
<1>3. q # 0
  BY <1>2
<1>4. QED
  BY <1>2, <1>3 DEF q

LEMMA MinOfTwo ==
  ASSUME NEW a \in Int, NEW b \in Int
  PROVE  Min({a, b}) = IF a <= b THEN a ELSE b
BY DEF Min

LEMMA MaxOfTwo ==
  ASSUME NEW a \in Int, NEW b \in Int
  PROVE  Max({a, b}) = IF a <= b THEN b ELSE a
BY DEF Max
-----------------------------------------------------------------------------
(***************************************************************************)
(* The grid and its owners.                                                *)
(***************************************************************************)

\* What the checks of `sgemm` say of an accepted problem.
LEMMA ArgsTyped ==
  ASSUME args \in Problems
  PROVE  /\ args.m \in Nat /\ args.n \in Nat /\ args.k \in Nat /\ args.ldc \in Nat
         /\ args.nShires \in Nat
         /\ TileM \in Nat \ {0} /\ TileN \in Nat \ {0} /\ TileK \in Nat \ {0}
         /\ MinionsPerShire \in Nat \ {0} /\ TileN = TileK
         /\ Available \subseteq Nat
BY SgemmAssumption

LEMMA GridTyped ==
  ASSUME args \in Problems
  PROVE  /\ TileRows \in Nat /\ TileCols \in Nat /\ KTiles \in Nat
         /\ NumTiles \in Nat /\ Tiles = 0 .. NumTiles - 1
<1>1. TileRows \in Nat /\ TileCols \in Nat /\ KTiles \in Nat
  BY ArgsTyped, CeilDivCovers DEF TileRows, TileCols, KTiles
<1>2. QED
  BY <1>1 DEF NumTiles, Tiles

LEMMA MinionTyped ==
  ASSUME args \in Problems, NEW m \in Minions
  PROVE  m = <<m[1], m[2]>> /\ m[1] \in Nat /\ m[2] \in 0 .. MinionsPerShire - 1
BY ArgsTyped DEF Minions

\* The blocks of the shires cover the grid.
LEMMA BlocksTyped ==
  ASSUME args \in Problems, args.nShires > 0
  PROVE  ShireSize \in Nat /\ NumTiles <= ShireSize * args.nShires
<1>1. PICK n \in Nat : n = NumTiles
  BY GridTyped
<1>2. PICK shires \in Nat \ {0} : shires = args.nShires
  BY ArgsTyped
<1>3. CeilDiv(n, shires) \in Nat /\ n <= CeilDiv(n, shires) * shires
  BY CeilDivCovers
<1>4. QED
  BY <1>1, <1>2, <1>3 DEF ShireSize

LEMMA BlockTyped ==
  ASSUME args \in Problems, args.nShires > 0, NEW m \in Minions
  PROVE  /\ ShireBase(m) \in Nat /\ ShireBase(m) = m[1] * ShireSize
         /\ ShireEnd(m) \in Nat /\ ShireEnd(m) <= ShireSize
         /\ \A i \in Nat : i < ShireEnd(m) <=> i < ShireSize /\ ShireBase(m) + i < NumTiles
<1>1. ShireSize \in Nat /\ NumTiles \in Nat /\ m[1] \in Nat
  BY BlocksTyped, GridTyped, MinionTyped
<1>2. ShireBase(m) \in Nat /\ ShireBase(m) = m[1] * ShireSize
  BY <1>1 DEF ShireBase
<1>3. PICK left \in Int : left = NumTiles - ShireBase(m)
  BY <1>1, <1>2
<1>4. PICK size \in Nat : size = ShireSize
  BY <1>1
<1>5. PICK room \in Nat : room = Max({left, 0}) /\ room = IF left <= 0 THEN 0 ELSE left
  BY MaxOfTwo
<1>6. Min({room, size}) = IF room <= size THEN room ELSE size
  BY MinOfTwo
<1>7. ShireEnd(m) = Min({room, size})
  BY <1>3, <1>4, <1>5 DEF ShireEnd
<1>8. PICK base \in Nat : base = ShireBase(m)
  BY <1>2
<1>9. PICK tiles \in Nat : tiles = NumTiles
  BY <1>1
<1>10. left = tiles - base
  BY <1>3, <1>8, <1>9
<1>11. PICK end \in Nat : end = ShireEnd(m) /\ end = IF room <= size THEN room ELSE size
  BY <1>6, <1>7
<1>12. \A i \in Nat : i < end <=> i < size /\ base + i < tiles
  BY <1>5, <1>10, <1>11
<1>13. end <= size
  BY <1>11
<1>14. QED
  BY <1>2, <1>4, <1>8, <1>9, <1>11, <1>12, <1>13

\* A Minion's tile is one of the grid and its own.
LEMMA TileOwned ==
  ASSUME args \in Problems, args.nShires > 0, NEW m \in Minions, local[m] \in Nat,
         local[m] % MinionsPerShire = m[2], local[m] < ShireEnd(m)
  PROVE  Tile(m) \in Tiles /\ Owns(m, Tile(m))
<1>1. /\ ShireBase(m) \in Nat /\ local[m] < ShireSize /\ ShireBase(m) + local[m] < NumTiles
      /\ ShireSize \in Nat
  BY BlockTyped, BlocksTyped
<1>2. Tile(m) - ShireBase(m) = local[m]
  BY <1>1 DEF Tile
<1>3. QED
  BY <1>1, <1>2, GridTyped DEF Tile, Owns

\* Two Minions never own the same tile.
LEMMA OwnersDisjoint ==
  ASSUME args \in Problems, args.nShires > 0, NEW m \in Minions, NEW o \in Minions,
         NEW t \in Int, Owns(m, t), Owns(o, t)
  PROVE  m = o
<1>1. /\ m = <<m[1], m[2]>> /\ m[1] \in Nat /\ o = <<o[1], o[2]>> /\ o[1] \in Nat
      /\ ShireSize \in Nat
      /\ ShireBase(m) = m[1] * ShireSize /\ ShireBase(o) = o[1] * ShireSize
  BY MinionTyped, BlocksTyped, BlockTyped
<1>2. /\ m[1] * ShireSize <= t /\ t < m[1] * ShireSize + ShireSize
      /\ o[1] * ShireSize <= t /\ t < o[1] * ShireSize + ShireSize
  BY <1>1 DEF Owns
<1>3. m[1] = o[1]
  <2>1. ASSUME NEW x \in Nat, NEW y \in Nat, NEW s \in Nat, x < y,
               y * s <= t, t < x * s + s
        PROVE  FALSE
    <3>1. (x + 1) * s <= y * s
      BY <2>1
    <3>2. (x + 1) * s = x * s + s
      OBVIOUS
    <3>3. x * s \in Nat /\ y * s \in Nat
      OBVIOUS
    <3>4. QED
      BY <2>1, <3>1, <3>2, <3>3
  <2>2. PICK x \in Nat, y \in Nat, s \in Nat : x = m[1] /\ y = o[1] /\ s = ShireSize
    BY <1>1
  <2>3. ~(x < y) /\ ~(y < x)
    BY <1>2, <2>1, <2>2
  <2>4. QED
    BY <2>2, <2>3
<1>4. ShireBase(m) = ShireBase(o)
  BY <1>1, <1>3
<1>5. m[2] = o[2]
  BY <1>4 DEF Owns
<1>6. QED
  BY <1>1, <1>3, <1>5

\* Every tile of the grid has an owner the launch starts.
LEMMA OwnerLaunched ==
  ASSUME args \in Problems, Valid(args), NEW t \in Tiles
  PROVE  \E m \in Launched : Owns(m, t) /\ t - ShireBase(m) \in Nat /\ t - ShireBase(m) < ShireEnd(m)
<1>1. args.nShires \in Nat /\ args.nShires > 0 /\ 0 .. args.nShires - 1 \subseteq Available
  BY ArgsTyped DEF Valid
<1>2. /\ ShireSize \in Nat /\ NumTiles <= ShireSize * args.nShires /\ t \in Nat /\ t < NumTiles
      /\ NumTiles \in Nat
  BY <1>1, BlocksTyped, GridTyped
<1>3. ShireSize # 0
  BY <1>1, <1>2
<1>4. PICK q \in Int, i \in 0 .. ShireSize - 1 : t = ShireSize * q + i
  <2>1. PICK s \in Nat \ {0} : s = ShireSize
    BY <1>2, <1>3
  <2>2. t \div s \in Int /\ t % s \in 0 .. s - 1 /\ t = s * (t \div s) + (t % s)
    BY <1>2, Quotient
  <2>3. QED
    BY <2>1, <2>2
<1>5. q \in Nat
  <2>1. PICK s \in Nat \ {0} : s = ShireSize
    BY <1>2, <1>3
  <2>2. ASSUME q < 0 PROVE FALSE
    <3>1. s * q <= s * (-1)
      BY <2>2
    <3>2. QED
      BY <1>2, <1>4, <2>1, <3>1
  <2>3. QED
    BY <2>2
<1> DEFINE r == i % MinionsPerShire
           m == <<q, r>>
<1>6. r \in 0 .. MinionsPerShire - 1
  <2>1. PICK n \in Nat \ {0} : n = MinionsPerShire
    BY ArgsTyped
  <2>2. i \in Int
    BY <1>2, <1>4
  <2>3. i % n \in 0 .. n - 1
    BY <2>2, Quotient
  <2>4. QED
    BY <2>1, <2>3
<1> HIDE DEF r
<1>7. q < args.nShires
  <2>1. ShireSize * q < ShireSize * args.nShires
    BY <1>1, <1>2, <1>4, <1>5
  <2>2. QED
    BY <1>1, <1>2, <1>5, <2>1
<1>8. m \in Launched
  <2>1. q \in Available
    BY <1>1, <1>5, <1>7
  <2>2. QED
    BY <1>6, <1>7, <2>1 DEF Launched, Minions
<1>9. m \in Minions /\ m[1] = q /\ m[2] = r
  BY <1>8 DEF Launched
<1> HIDE DEF m
<1>10. ShireBase(m) = q * ShireSize
  BY <1>1, <1>9, BlockTyped
<1>11. t - ShireBase(m) = i /\ i \in Nat /\ i < ShireSize
  BY <1>2, <1>4, <1>5, <1>10
<1>12. Owns(m, t)
  <2>1. i % MinionsPerShire = m[2]
    BY <1>9 DEF r
  <2>2. ShireBase(m) \in Nat
    BY <1>1, <1>9, BlockTyped
  <2>3. QED
    BY <1>2, <1>11, <2>1, <2>2 DEF Owns
<1>13. i < ShireEnd(m)
  <2>1. ShireBase(m) + i < NumTiles
    BY <1>2, <1>4, <1>5, <1>10
  <2>2. QED
    BY <1>1, <1>9, <1>11, <2>1, BlockTyped
<1>14. QED
  BY <1>8, <1>11, <1>12, <1>13
-----------------------------------------------------------------------------
(***************************************************************************)
(* What a step leaves alone.                                               *)
(***************************************************************************)

\* The problem is fixed once and for all, and with it the partition.
LEMMA GridKept ==
  ASSUME args' = args
  PROVE  /\ Tiles' = Tiles /\ KTiles' = KTiles /\ Launched' = Launched /\ ShireSize' = ShireSize
         /\ Valid(args)' = Valid(args)
         /\ \A m : ShireBase(m)' = ShireBase(m) /\ ShireEnd(m)' = ShireEnd(m)
         /\ \A m : local'[m] = local[m] => Tile(m)' = Tile(m)
         /\ \A t : Row(t)' = Row(t) /\ Col(t)' = Col(t) /\ Rows(t)' = Rows(t)
         /\ \A k : Depth(k)' = Depth(k)
         /\ \A t : Result(t)' = Result(t)
         /\ \A t, n : Partial(t, n)' = Partial(t, n)
         /\ \A m, t : Owns(m, t)' = Owns(m, t)
<1>1. TileRows' = TileRows /\ TileCols' = TileCols /\ NumTiles' = NumTiles
  BY DEF TileRows, TileCols, NumTiles
<1>2. Tiles' = Tiles /\ KTiles' = KTiles /\ Launched' = Launched /\ ShireSize' = ShireSize
  BY <1>1 DEF Tiles, KTiles, Launched, ShireSize
<1>3. Valid(args)' = Valid(args)
  BY DEF Valid
<1>4. \A m : ShireBase(m)' = ShireBase(m) /\ ShireEnd(m)' = ShireEnd(m)
  BY <1>1, <1>2 DEF ShireBase, ShireEnd
<1>5. \A m : local'[m] = local[m] => Tile(m)' = Tile(m)
  BY <1>4 DEF Tile
<1>6. \A t : Row(t)' = Row(t) /\ Col(t)' = Col(t)
  BY <1>1 DEF Row, Col
<1>7. \A t : Rows(t)' = Rows(t)
  BY <1>6 DEF Rows
<1>8. \A k : Depth(k)' = Depth(k)
  BY DEF Depth
<1>9. \A t : Result(t)' = Result(t)
  BY <1>2, <1>6, <1>7, <1>8 DEF Result
<1>10. \A t, n : Partial(t, n)' = Partial(t, n)
  BY <1>6, <1>7, <1>8 DEF Partial
<1>11. \A m, t : Owns(m, t)' = Owns(m, t)
  BY <1>2, <1>4 DEF Owns
<1>12. QED
  BY <1>2, <1>3, <1>4, <1>5, <1>6, <1>7, <1>8, <1>9, <1>10, <1>11

Unaffected(m) ==
  /\ pc'[m] = pc[m] /\ local'[m] = local[m] /\ ktile'[m] = ktile[m] /\ ops'[m] = ops[m]
  /\ scp'[m] = scp[m] /\ tenB'[m] = tenB[m] /\ acc'[m] = acc[m]

\* Results stay in memory.
ResultsKept == \A t \in Tiles : c[t] = Result(t) => c'[t] = Result(t)

LEMMA WorkingKept ==
  ASSUME Domains, Called, args' = args, NEW m \in Minions, Working(m), Unaffected(m), ResultsKept,
         call \in {"running", "returned"} => call' \in {"running", "returned"}
  PROVE  Working(m)'
<1>1. Tile(m)' = Tile(m)
  BY GridKept DEF Unaffected
<1>2. InBlock(m)'
  BY GridKept DEF Unaffected, Working, InBlock
<1>3. \A kind : Instruction(m, kind)' = Instruction(m, kind)
  BY <1>1 DEF Instruction, Unaffected
<1>4. Underway(m)'
  BY <1>3 DEF Unaffected, Working, Underway
<1>5. OperandsLoaded(m)'
  BY <1>1, <1>3, GridKept DEF Unaffected, Working, OperandsLoaded
<1>6. SumsUp(m)'
  BY <1>1, <1>3, GridKept DEF Unaffected, Working, SumsUp, Accumulating
<1>7. LeftBehind(m)'
  <2>1. pc[m] = "drain" => Tile(m) \in Tiles
    <3> SUFFICES ASSUME pc[m] = "drain" PROVE Tile(m) \in Tiles
      OBVIOUS
    <3>1. local[m] < ShireEnd(m) /\ local[m] % MinionsPerShire = m[2] /\ Valid(args)
      BY DEF Working, InBlock, Busy, Called
    <3>2. args.nShires > 0
      BY <3>1, ArgsTyped DEF Valid, Called
    <3>3. QED
      BY <3>1, <3>2, TileOwned DEF Called, Domains
  <2>2. QED
    BY <1>1, <2>1, GridKept DEF Unaffected, Working, LeftBehind, ResultsKept
<1>8. QED
  BY <1>2, <1>4, <1>5, <1>6, <1>7 DEF Working

\* A step of Minion n or its co-processor.
LEMMA StepOf ==
  ASSUME IInv, NEW n \in Minions, UNCHANGED hostVars,
         \A m \in Minions \ {n} : Unaffected(m), ResultsKept,
         Domains', Memory', Working(n)',
         pc[n] # "idle", pc'[n] # "idle", pc[n] # "done" \/ pc'[n] = "done"
  PROVE  IInv'
<1>1. args' = args /\ call' = call
  BY DEF hostVars
<1>2. \A m \in Minions : Working(m)'
  <2> SUFFICES ASSUME NEW m \in Minions, m # n PROVE Working(m)'
    OBVIOUS
  <2>1. Unaffected(m) /\ Working(m)
    BY DEF IInv
  <2>2. QED
    BY <1>1, <2>1, WorkingKept DEF IInv
<1>3. Called'
  <2>1. Launched' = Launched /\ Valid(args)' = Valid(args) /\ Launched \subseteq Minions
    BY <1>1, GridKept DEF Launched
  <2>2. \A m \in Launched : m # n => pc'[m] = pc[m]
    BY <2>1 DEF Unaffected
  <2>3. QED
    BY <1>1, <2>1, <2>2 DEF IInv, Called
<1>4. QED
  BY <1>2, <1>3 DEF IInv
-----------------------------------------------------------------------------
(***************************************************************************)
(* The steps of the kernel.                                                *)
(***************************************************************************)

LEMMA SameRemainder ==
  ASSUME NEW a \in Nat, NEW b \in Nat, NEW n \in Nat \ {0}, a % n = b % n, a < b
  PROVE  a + n <= b
<1>1. PICK p \in Int, q \in Int, r \in Int : a = n * p + r /\ b = n * q + r
  <2>1. a \div n \in Int /\ a % n \in 0 .. n - 1 /\ a = n * (a \div n) + (a % n)
    BY Quotient
  <2>2. b \div n \in Int /\ b % n \in 0 .. n - 1 /\ b = n * (b \div n) + (b % n)
    BY Quotient
  <2> DEFINE p == a \div n
             q == b \div n
             r == a % n
  <2>3. p \in Int /\ q \in Int /\ r \in Int /\ a = n * p + r /\ b = n * q + r
    BY <2>1, <2>2
  <2> HIDE DEF p, q, r
  <2>4. QED
    BY <2>3
<1>2. n * p < n * q
  BY <1>1
<1>3. p < q
  BY <1>1, <1>2
<1>4. n * (p + 1) <= n * q
  BY <1>3
<1>5. n * (p + 1) = n * p + n
  OBVIOUS
<1>6. QED
  BY <1>1, <1>4, <1>5

LEMMA RemainderKept ==
  ASSUME NEW a \in Nat, NEW n \in Nat \ {0}
  PROVE  (a + n) % n = a % n /\ (a < n => a % n = a)
<1>1. PICK q \in Int, r \in 0 .. n - 1 : a = n * q + r /\ r = a % n
  <2>1. a \div n \in Int /\ a % n \in 0 .. n - 1 /\ a = n * (a \div n) + (a % n)
    BY Quotient
  <2> DEFINE q == a \div n
             r == a % n
  <2>2. q \in Int /\ r \in 0 .. n - 1 /\ a = n * q + r /\ r = a % n
    BY <2>1
  <2> HIDE DEF q, r
  <2>3. QED
    BY <2>2
<1>2. (n * (q + 1) + r) % n = r
  <2>1. PICK p \in Int : p = q + 1
    OBVIOUS
  <2>2. (n * p + r) % n = r
    BY QuotientUnique
  <2>3. QED
    BY <2>1, <2>2
<1>3. n * (q + 1) + r = a + n
  BY <1>1
<1>4. a < n => (n * 0 + a) % n = a
  BY QuotientUnique
<1>5. n * 0 + a = a
  OBVIOUS
<1>6. QED
  BY <1>1, <1>2, <1>3, <1>4, <1>5

\* Where Minion n is while it works on a tile.
LEMMA AtWork ==
  ASSUME Domains, Called, NEW n \in Minions, Working(n), pc[n] # "idle"
  PROVE  /\ n \in Launched /\ Valid(args) /\ args.nShires > 0
         /\ local[n] \in Nat /\ ktile[n] \in Nat /\ KTiles \in Nat /\ KTiles >= 1
         /\ pc[n] \in Busy => Tile(n) \in Tiles /\ Owns(n, Tile(n))
<1>1. n \in Launched /\ Valid(args) /\ args \in Problems
  BY DEF Working, InBlock, Called
<1>2. args.nShires > 0
  BY <1>1, ArgsTyped DEF Valid
<1>3. local[n] \in Nat /\ ktile[n] \in Nat
  BY DEF Domains
<1>4. KTiles \in Nat /\ KTiles >= 1
  <2>1. args.k \in Nat \ {0} /\ TileK \in Nat \ {0}
    BY <1>1, ArgsTyped DEF Valid
  <2>2. QED
    BY <1>1, <2>1, CeilDivPositive, GridTyped DEF KTiles
<1>5. pc[n] \in Busy => Tile(n) \in Tiles /\ Owns(n, Tile(n))
  BY <1>1, <1>2, <1>3, TileOwned DEF Working, InBlock, Busy
<1>6. QED
  BY <1>1, <1>2, <1>3, <1>4, <1>5

\* Nothing is stored while a Minion's program runs.
LEMMA MemoryKept ==
  ASSUME Memory, args' = args, c' = c, writers' = writers
  PROVE  Memory' /\ ResultsKept
BY GridKept DEF Memory, ResultsKept

LEMMA StartStep ==
  ASSUME IInv, NEW n \in Minions, Start(n)
  PROVE  IInv'
<1>1. /\ pc[n] = "start" /\ pc'[n] = "tile" /\ local'[n] = n[2]
      /\ ktile' = ktile /\ ops' = ops /\ scp' = scp /\ tenB' = tenB /\ acc' = acc
      /\ c' = c /\ writers' = writers /\ args' = args /\ call' = call
  BY DEF Start, Goto, hostVars, tensorVars, IInv, Domains
<1>2. \A m \in Minions \ {n} : Unaffected(m)
  BY <1>1 DEF Start, Goto, Unaffected, IInv, Domains
<1>3. n \in Launched /\ args \in Problems /\ args.nShires > 0 /\ KTiles \in Nat /\ KTiles >= 1
  BY <1>1, AtWork DEF IInv, Called
<1>4. PICK first \in Nat, width \in Nat \ {0} :
        first = n[2] /\ width = MinionsPerShire /\ first < width
  BY <1>3, MinionTyped, ArgsTyped
<1>5. Domains'
  BY <1>1, <1>4, GridKept DEF Start, Goto, IInv, Domains
<1>6. first % width = first
  BY <1>4, RemainderKept
<1>7. InBlock(n)'
  BY <1>1, <1>3, <1>4, <1>6, GridKept DEF InBlock, Busy, IInv, Working
<1>8. Underway(n)' /\ OperandsLoaded(n)' /\ SumsUp(n)'
  BY <1>1, GridKept DEF Underway, OperandsLoaded, SumsUp, Accumulating, IInv, Working
<1>9. LeftBehind(n)'
  <2> SUFFICES ASSUME NEW t \in Tiles, Owns(n, t), t < Tile(n)' PROVE FALSE
    BY <1>1, GridKept DEF LeftBehind
  <2>1. Tile(n)' = ShireBase(n) + first /\ ShireBase(n) \in Nat
    BY <1>1, <1>3, <1>4, GridKept, BlockTyped DEF Tile
  <2>2. PICK i \in Nat : i = t - ShireBase(n) /\ i % width = first
    BY <1>3, <1>4, <2>1, GridTyped DEF Owns
  <2>3. i < first
    BY <1>3, <2>1, <2>2, GridTyped
  <2>4. i % width = i
    <3>1. i < width
      BY <1>4, <2>3
    <3>2. QED
      BY <3>1, RemainderKept
  <2>5. QED
    BY <2>2, <2>3, <2>4
<1>10. QED
  BY <1>1, <1>2, <1>5, <1>7, <1>8, <1>9, MemoryKept, StepOf DEF Working, IInv, hostVars

LEMMA BeginStep ==
  ASSUME IInv, NEW n \in Minions, Begin(n)
  PROVE  IInv'
<1>1. /\ pc[n] = "tile" /\ ktile'[n] = 0 /\ local' = local
      /\ pc'[n] = IF local[n] < ShireEnd(n) THEN "load A" ELSE "done"
      /\ ops' = ops /\ scp' = scp /\ tenB' = tenB /\ acc' = acc
      /\ c' = c /\ writers' = writers /\ args' = args /\ call' = call
  BY DEF Begin, Goto, hostVars, tensorVars, IInv, Domains
<1>2. \A m \in Minions \ {n} : Unaffected(m)
  BY <1>1 DEF Begin, Goto, Unaffected, IInv, Domains
<1>3. /\ n \in Launched /\ args \in Problems /\ args.nShires > 0 /\ KTiles \in Nat /\ KTiles >= 1
      /\ local[n] \in Nat
  BY <1>1, AtWork DEF IInv, Called
<1>4. Domains'
  BY <1>1, GridKept DEF Begin, Goto, IInv, Domains, Busy
<1>5. ShireEnd(n) \in Nat
  BY <1>3, BlockTyped
<1>6. InBlock(n)'
  <2>1. InBlock(n)
    BY DEF IInv, Working
  <2>2. ShireEnd(n)' = ShireEnd(n) /\ Launched' = Launched
    BY <1>1, GridKept
  <2>3. pc'[n] # "done" => local[n] < ShireEnd(n)
    BY <1>1
  <2>4. pc'[n] \in Busy => local[n] < ShireEnd(n)
    BY <2>3 DEF Busy
  <2>5. pc'[n] = "done" => local[n] >= ShireEnd(n)
    <3>1. PICK i \in Nat, e \in Nat : i = local[n] /\ e = ShireEnd(n)
      BY <1>3, <1>5
    <3>2. i < e \/ i >= e
      OBVIOUS
    <3>3. QED
      BY <1>1, <3>1, <3>2
  <2>6. pc'[n] \notin {"idle", "start"}
    BY <1>1
  <2>7. QED
    BY <1>1, <1>3, <2>1, <2>2, <2>4, <2>5, <2>6, Zenon DEF InBlock
<1>7. Underway(n)' /\ OperandsLoaded(n)'
  BY <1>1, GridKept DEF Underway, OperandsLoaded, IInv, Working
<1>8. SumsUp(n)'
  <2>1. KTiles' = KTiles
    BY <1>1, GridKept
  <2>2. ktile'[n] <= KTiles /\ ktile'[n] < KTiles
    <3>1. 0 <= KTiles /\ 0 < KTiles
      BY <1>3
    <3>2. QED
      BY <1>1, <3>1, Zenon
  <2>3. pc'[n] \notin {"wait", "store", "drain"}
    BY <1>1
  <2>4. QED
    BY <1>1, <2>1, <2>2, <2>3 DEF SumsUp
<1>9. LeftBehind(n)'
  BY <1>1, GridKept DEF LeftBehind, IInv, Working
<1>10. QED
  BY <1>1, <1>2, <1>4, <1>6, <1>7, <1>8, <1>9, MemoryKept, StepOf DEF Working, IInv, hostVars

\* The steps that issue an instruction or wait for one.
LEMMA LoopStep ==
  ASSUME IInv, NEW n \in Minions, pc[n] \in Busy, pc'[n] \in Busy, pc' = [pc EXCEPT ![n] = pc'[n]],
         UNCHANGED <<hostVars, local, scp, tenB, acc, c, writers>>,
         ktile' \in [Minions -> Nat], DOMAIN ops' = Minions,
         \A m \in Minions \ {n} : ops'[m] = ops[m] /\ ktile'[m] = ktile[m],
         Underway(n)', OperandsLoaded(n)', SumsUp(n)', pc'[n] = "drain" => ops'[n] # {}
  PROVE  IInv'
<1>1. /\ args' = args /\ call' = call /\ local' = local /\ scp' = scp /\ tenB' = tenB
      /\ acc' = acc /\ c' = c /\ writers' = writers
  BY DEF hostVars
<1>2. \A m \in Minions \ {n} : Unaffected(m)
  BY <1>1 DEF Unaffected, IInv, Domains
<1>3. Domains'
  BY <1>1, GridKept DEF IInv, Domains
<1>4. InBlock(n)'
  BY <1>1, GridKept DEF InBlock, Busy, IInv, Working
<1>5. LeftBehind(n)'
  BY ZenonT(30), <1>1, GridKept DEF LeftBehind, Busy, IInv, Working
<1>6. QED
  BY <1>1, <1>2, <1>3, <1>4, <1>5, MemoryKept, StepOf DEF Working, IInv, hostVars, Busy

LEMMA InstructionKept ==
  ASSUME args' = args, NEW n \in Minions, local'[n] = local[n], ktile'[n] = ktile[n]
  PROVE  \A kind : Instruction(n, kind)' = Instruction(n, kind)
BY GridKept DEF Instruction

LEMMA LoadAStep ==
  ASSUME IInv, NEW n \in Minions, LoadA(n)
  PROVE  IInv'
<1>1. /\ pc[n] = "load A" /\ pc' = [pc EXCEPT ![n] = "load B"] /\ pc'[n] = "load B"
      /\ ops' = [ops EXCEPT ![n] = @ \cup {Instruction(n, "load0")}]
      /\ ops'[n] = ops[n] \cup {Instruction(n, "load0")}
      /\ UNCHANGED <<hostVars, local, ktile, scp, tenB, acc, c, writers>>
  BY DEF LoadA, Goto, Issue, Instruction, IInv, Domains
<1>2. ops[n] = {}
  BY <1>1 DEF IInv, Working, Underway
<1>3. Tile(n)' = Tile(n) /\ \A kind : Instruction(n, kind)' = Instruction(n, kind)
  BY <1>1, GridKept, InstructionKept DEF hostVars
<1>4. Underway(n)'
  BY <1>1, <1>2, <1>3 DEF Underway
<1>5. OperandsLoaded(n)'
  BY <1>1, <1>2 DEF OperandsLoaded
<1>6. SumsUp(n)'
  BY ZenonT(30), <1>1, <1>3, GridKept DEF SumsUp, Accumulating, IInv, Working, hostVars
<1>7. QED
  BY <1>1, <1>4, <1>5, <1>6, LoopStep DEF Busy, IInv, Domains

LEMMA LoadBStep ==
  ASSUME IInv, NEW n \in Minions, LoadB(n)
  PROVE  IInv'
<1>1. /\ pc[n] = "load B" /\ pc' = [pc EXCEPT ![n] = "fma"] /\ pc'[n] = "fma"
      /\ ops' = [ops EXCEPT ![n] = @ \cup {Instruction(n, "load1")}]
      /\ ops'[n] = ops[n] \cup {Instruction(n, "load1")}
      /\ UNCHANGED <<hostVars, local, ktile, scp, tenB, acc, c, writers>>
  BY DEF LoadB, Goto, Issue, Instruction, IInv, Domains
<1>2. ops[n] = {}
  <2>1. ops[n] \subseteq {Instruction(n, "load0")}
    BY <1>1 DEF IInv, Working, Underway
  <2>2. Instruction(n, "load0") \notin ops[n]
    BY DEF LoadB, Waited, Instruction
  <2>3. QED
    BY <2>1, <2>2
<1>3. Tile(n)' = Tile(n) /\ \A kind : Instruction(n, kind)' = Instruction(n, kind)
  BY <1>1, GridKept, InstructionKept DEF hostVars
<1>4. Underway(n)'
  BY <1>1, <1>2, <1>3 DEF Underway
<1>5. OperandsLoaded(n)'
  <2>1. scp[n] = [row |-> Row(Tile(n)), k |-> ktile[n]]
    BY <1>1, <1>2 DEF OperandsLoaded, IInv, Working
  <2>2. Instruction(n, "load1")' \in ops'[n]
    BY <1>1, <1>3
  <2>3. scp'[n] = [row |-> Row(Tile(n)), k |-> ktile[n]]'
    BY <1>1, <1>3, <2>1, GridKept DEF hostVars
  <2>4. QED
    BY <2>2, <2>3 DEF OperandsLoaded
<1>6. SumsUp(n)'
  BY ZenonT(30), <1>1, <1>3, GridKept DEF SumsUp, Accumulating, IInv, Working, hostVars
<1>7. QED
  BY <1>1, <1>4, <1>5, <1>6, LoopStep DEF Busy, IInv, Domains

LEMMA FmaStep ==
  ASSUME IInv, NEW n \in Minions, Fma(n)
  PROVE  IInv'
<1>1. /\ pc[n] = "fma" /\ pc' = [pc EXCEPT ![n] = "wait"] /\ pc'[n] = "wait"
      /\ ops' = [ops EXCEPT ![n] = @ \cup {Instruction(n, "fma")}]
      /\ ops'[n] = ops[n] \cup {Instruction(n, "fma")}
      /\ UNCHANGED <<hostVars, local, ktile, scp, tenB, acc, c, writers>>
  BY DEF Fma, Goto, Issue, Instruction, IInv, Domains
<1>2. ops[n] \subseteq {Instruction(n, "load1")}
  BY <1>1 DEF IInv, Working, Underway
<1>3. Tile(n)' = Tile(n) /\ \A kind : Instruction(n, kind)' = Instruction(n, kind)
  BY <1>1, GridKept, InstructionKept DEF hostVars
<1>4. Underway(n)'
  BY <1>1, <1>2, <1>3 DEF Underway
<1>5. OperandsLoaded(n)'
  <2>1. scp[n] = [row |-> Row(Tile(n)), k |-> ktile[n]]
    BY <1>1 DEF OperandsLoaded, IInv, Working
  <2>2. Instruction(n, "load1") \notin ops[n] => tenB[n] = [col |-> Col(Tile(n)), k |-> ktile[n]]
    BY <1>1 DEF OperandsLoaded, IInv, Working
  <2>3. Instruction(n, "load1")' \notin ops'[n] => Instruction(n, "load1") \notin ops[n]
    BY <1>1, <1>3
  <2>4. /\ scp'[n] = scp[n] /\ tenB'[n] = tenB[n]
        /\ [row |-> Row(Tile(n)), k |-> ktile[n]]' = [row |-> Row(Tile(n)), k |-> ktile[n]]
        /\ [col |-> Col(Tile(n)), k |-> ktile[n]]' = [col |-> Col(Tile(n)), k |-> ktile[n]]
    BY <1>1, <1>3, GridKept DEF hostVars
  <2>5. QED
    BY <2>1, <2>2, <2>3, <2>4 DEF OperandsLoaded
<1>6. SumsUp(n)'
  <2>1. Accumulating(n) /\ Accumulating(n)'
    BY <1>1, <1>3 DEF Accumulating
  <2>2. QED
    BY ZenonT(30), <1>1, <1>3, <2>1, GridKept DEF SumsUp, IInv, Working, hostVars
<1>7. QED
  BY <1>1, <1>4, <1>5, <1>6, LoopStep DEF Busy, IInv, Domains

LEMMA AccumulatedStep ==
  ASSUME IInv, NEW n \in Minions, Accumulated(n)
  PROVE  IInv'
<1>1. PICK k \in Nat, s \in Nat : k = ktile[n] /\ s = KTiles
  BY AtWork, GridTyped DEF Accumulated, IInv, Called, Domains
<1>2. k + 1 \in Nat /\ (k < s => k + 1 <= s /\ (~(k + 1 < s) => k + 1 = s))
  OBVIOUS
<1>3. PICK place \in {"load A", "store"} :
        /\ place = IF ktile[n] + 1 < KTiles THEN "load A" ELSE "store"
        /\ place = "load A" => k + 1 < s
        /\ place = "store" => ~(k + 1 < s)
  <2>1. CASE k + 1 < s
    BY <1>1, <2>1
  <2>2. CASE ~(k + 1 < s)
    BY <1>1, <2>2
  <2>3. QED
    BY <2>1, <2>2
<1>4. /\ pc[n] = "wait" /\ pc' = [pc EXCEPT ![n] = place] /\ pc'[n] = place
      /\ UNCHANGED <<hostVars, local, ops, scp, tenB, acc, c, writers>>
  <2>1. pc' = [pc EXCEPT ![n] = place]
    BY <1>3, Zenon DEF Accumulated, Goto
  <2>2. QED
    BY <2>1 DEF Accumulated, tensorVars, IInv, Domains
<1>5. /\ ktile'[n] = k + 1 /\ ktile' \in [Minions -> Nat]
      /\ \A m \in Minions \ {n} : ktile'[m] = ktile[m]
  <2>1. ktile \in [Minions -> Nat] /\ ktile' = [ktile EXCEPT ![n] = @ + 1]
    BY DEF Accumulated, IInv, Domains
  <2>2. ktile' = [ktile EXCEPT ![n] = k + 1]
    BY <1>1, <2>1, Zenon
  <2>3. QED
    BY <1>2, <2>1, <2>2, Zenon
<1>6. Instruction(n, "fma") \notin ops[n] /\ ops[n] = {}
  <2>1. Instruction(n, "fma") \notin ops[n]
    BY DEF Accumulated, Waited, Instruction
  <2>2. QED
    BY <1>4, <2>1 DEF IInv, Working, Underway
<1>7. acc[n] = Partial(Tile(n), k + 1) /\ k < s
  <2>1. SumsUp(n) /\ ~Accumulating(n)
    BY <1>4, <1>6 DEF IInv, Working, Accumulating
  <2>2. acc[n] = Partial(Tile(n), ktile[n] + 1) /\ ktile[n] < KTiles
    BY <1>4, <2>1 DEF SumsUp
  <2>3. QED
    BY <1>1, <2>2, Zenon
<1>8. (place = "load A" => k + 1 < s) /\ (place = "store" => k + 1 = s) /\ k + 1 <= s
  BY <1>2, <1>3, <1>7, Zenon
<1>9. Underway(n)' /\ OperandsLoaded(n)'
  BY <1>3, <1>4, <1>6 DEF Underway, OperandsLoaded
<1>10. SumsUp(n)'
  <2>1. KTiles' = KTiles /\ Tile(n)' = Tile(n) /\ acc'[n] = acc[n]
    BY <1>4, GridKept DEF hostVars
  <2>2. acc'[n] = Partial(Tile(n), ktile[n])'
    BY <1>4, <1>5, <1>7, <2>1, GridKept DEF hostVars
  <2>3. ktile'[n] <= KTiles /\ (place = "load A" => ktile'[n] < KTiles)
        /\ (place = "store" => ktile'[n] = KTiles)
    BY <1>1, <1>5, <1>8
  <2>4. place = "store" => acc'[n] = Result(Tile(n))'
    BY <2>1, <2>2, <2>3 DEF Result, Partial
  <2>5. QED
    BY <1>3, <1>4, <2>1, <2>2, <2>3, <2>4 DEF SumsUp, Accumulating
<1>11. QED
  BY <1>3, <1>4, <1>5, <1>9, <1>10, LoopStep DEF Busy, IInv, Domains

LEMMA StoreCStep ==
  ASSUME IInv, NEW n \in Minions, StoreC(n)
  PROVE  IInv'
<1>1. /\ pc[n] = "store" /\ pc' = [pc EXCEPT ![n] = "drain"] /\ pc'[n] = "drain"
      /\ ops' = [ops EXCEPT ![n] = @ \cup {Instruction(n, "store")}]
      /\ ops'[n] = ops[n] \cup {Instruction(n, "store")}
      /\ UNCHANGED <<hostVars, local, ktile, scp, tenB, acc, c, writers>>
  BY DEF StoreC, Goto, Issue, Instruction, IInv, Domains
<1>2. ops[n] = {}
  BY <1>1 DEF IInv, Working, Underway
<1>3. Tile(n)' = Tile(n) /\ \A kind : Instruction(n, kind)' = Instruction(n, kind)
  BY <1>1, GridKept, InstructionKept DEF hostVars
<1>4. Underway(n)'
  BY <1>1, <1>2, <1>3 DEF Underway
<1>5. OperandsLoaded(n)'
  BY <1>1 DEF OperandsLoaded
<1>6. SumsUp(n)'
  BY <1>1, <1>3, GridKept DEF SumsUp, Accumulating, IInv, Working, hostVars
<1>7. QED
  BY <1>1, <1>4, <1>5, <1>6, LoopStep DEF Busy, IInv, Domains

LEMMA DrainStep ==
  ASSUME IInv, NEW n \in Minions, Drain(n)
  PROVE  IInv'
<1>1. /\ pc[n] = "drain" /\ pc'[n] = "tile" /\ local'[n] = local[n] + MinionsPerShire
      /\ ktile' = ktile /\ ops' = ops /\ scp' = scp /\ tenB' = tenB /\ acc' = acc
      /\ c' = c /\ writers' = writers /\ args' = args /\ call' = call
  BY DEF Drain, Goto, Advance, hostVars, tensorVars, IInv, Domains
<1>2. \A m \in Minions \ {n} : Unaffected(m)
  BY <1>1 DEF Drain, Goto, Unaffected, IInv, Domains
<1>3. n \in Launched /\ args \in Problems /\ args.nShires > 0 /\ local[n] \in Nat
  BY <1>1, AtWork DEF IInv, Called
<1>4. PICK i \in Nat, width \in Nat \ {0}, base \in Nat :
        i = local[n] /\ width = MinionsPerShire /\ base = ShireBase(n)
  BY <1>3, ArgsTyped, BlockTyped
<1>5. Domains'
  BY <1>1, <1>4, GridKept DEF Drain, Goto, Advance, IInv, Domains
<1>6. ops[n] = {}
  <2>1. Instruction(n, "store") \notin ops[n]
    BY DEF Drain, StoreDrained, Waited, Instruction
  <2>2. QED
    BY <1>1, <2>1 DEF IInv, Working, Underway
<1>7. (i + width) % width = i % width /\ i % width = n[2]
  <2>1. (i + width) % width = i % width
    BY RemainderKept
  <2>2. local[n] % MinionsPerShire = n[2]
    BY <1>1 DEF IInv, Working, InBlock
  <2>3. QED
    BY <1>4, <2>1, <2>2
<1>8. InBlock(n)'
  <2>1. local'[n] % MinionsPerShire = n[2]
    BY <1>1, <1>4, <1>7
  <2>2. QED
    BY <1>1, <2>1, GridKept DEF InBlock, Busy, IInv, Working
<1>9. Underway(n)' /\ OperandsLoaded(n)'
  BY <1>1, <1>6 DEF Underway, OperandsLoaded
<1>10. SumsUp(n)'
  BY <1>1, GridKept DEF SumsUp, Accumulating, IInv, Working
<1>11. LeftBehind(n)'
  <2>1. Tile(n) = base + i /\ Tile(n)' = base + (i + width)
    BY <1>1, <1>4, GridKept DEF Tile
  <2>2. c[Tile(n)] = Result(Tile(n)) /\ \A t \in Tiles : Owns(n, t) /\ t < Tile(n) => c[t] = Result(t)
    BY <1>1, <1>6 DEF LeftBehind, IInv, Working
  <2>3. ASSUME NEW t \in Tiles, Owns(n, t), t < Tile(n)' PROVE c[t] = Result(t)
    <3>1. t \in Nat /\ base <= t
      BY <1>3, <1>4, GridTyped, <2>3 DEF Owns
    <3>2. PICK j \in Nat : t = base + j
      <4>1. t - base \in Nat /\ t = base + (t - base)
        BY <3>1
      <4>2. QED
        BY <4>1
    <3>3. j % width = i % width
      <4>1. t - ShireBase(n) = j
        BY <1>4, <3>2
      <4>2. QED
        BY <1>4, <1>7, <2>3, <4>1 DEF Owns
    <3>4. j < i + width
      BY <2>1, <2>3, <3>2
    <3>5. ~(i < j)
      <4>1. i < j => i + width <= j
        BY <3>3, SameRemainder
      <4>2. QED
        BY <3>4, <4>1
    <3>6. t = Tile(n) \/ t < Tile(n)
      BY <2>1, <3>2, <3>5
    <3>7. QED
      BY <2>2, <2>3, <3>6
  <2>4. QED
    BY <1>1, <2>3, GridKept DEF LeftBehind
<1>12. QED
  BY <1>1, <1>2, <1>5, <1>8, <1>9, <1>10, <1>11, MemoryKept, StepOf DEF Working, IInv, hostVars

LEMMA KernelStep ==
  ASSUME IInv, NEW n \in Minions, Kernel(n)
  PROVE  IInv'
BY StartStep, BeginStep, LoadAStep, LoadBStep, FmaStep, AccumulatedStep, StoreCStep, DrainStep
   DEF Kernel
-----------------------------------------------------------------------------
(***************************************************************************)
(* The steps of the co-processor.                                          *)
(***************************************************************************)

\* What is under way says where its Minion is.
LEMMA InstructionAt ==
  ASSUME NEW n \in Minions, Domains, Underway(n), NEW op \in ops[n]
  PROVE  /\ pc[n] \in Busy
         /\ op = Instruction(n, op.kind)
         /\ op.kind = "load0" => pc[n] = "load B" /\ ops[n] = {op}
         /\ op.kind = "load1" => pc[n] \in {"fma", "wait"}
         /\ op.kind = "fma" => pc[n] = "wait"
         /\ op.kind = "store" => pc[n] = "drain" /\ ops[n] = {op}
<1>1. pc[n] \in {"load B", "fma", "wait", "drain"}
  BY DEF Underway
<1>2. \A kind : Instruction(n, kind).kind = kind
  BY DEF Instruction
<1>3. CASE pc[n] = "load B"
  BY <1>2, <1>3 DEF Underway, Busy
<1>4. CASE pc[n] = "fma"
  BY <1>2, <1>4 DEF Underway, Busy
<1>5. CASE pc[n] = "wait"
  BY <1>2, <1>5 DEF Underway, Busy
<1>6. CASE pc[n] = "drain"
  BY <1>2, <1>6 DEF Underway, Busy
<1>7. QED
  BY <1>1, <1>3, <1>4, <1>5, <1>6

\* What a completion leaves alone.
LEMMA CompletionFrame ==
  ASSUME Domains, NEW n \in Minions, NEW op \in ops[n], Done(n, op), UNCHANGED <<hostVars, loopVars>>
  PROVE  /\ args' = args /\ call' = call /\ pc' = pc /\ local' = local /\ ktile' = ktile
         /\ ops'[n] = ops[n] \ {op} /\ DOMAIN ops' = Minions
         /\ \A m \in Minions \ {n} : ops'[m] = ops[m]
         /\ \A kind : Instruction(n, kind)' = Instruction(n, kind)
         /\ Tile(n)' = Tile(n)
<1>1. args' = args /\ call' = call /\ pc' = pc /\ local' = local /\ ktile' = ktile
  BY DEF hostVars, loopVars
<1>2. /\ ops'[n] = ops[n] \ {op} /\ DOMAIN ops' = Minions
      /\ \A m \in Minions \ {n} : ops'[m] = ops[m]
  BY DEF Done, Domains
<1>3. QED
  BY <1>1, <1>2, InstructionKept, GridKept

\* The sums are what they were when neither the registers nor the turn changes.
LEMMA SumsUpKept ==
  ASSUME args' = args, NEW n, SumsUp(n), pc'[n] = pc[n], local'[n] = local[n], ktile'[n] = ktile[n],
         acc'[n] = acc[n], Accumulating(n)' <=> Accumulating(n)
  PROVE  SumsUp(n)'
<1>1. KTiles' = KTiles /\ Tile(n)' = Tile(n)
  BY GridKept
<1>2. Result(Tile(n))' = Result(Tile(n))
  BY <1>1, GridKept
<1>3. Partial(Tile(n), ktile[n])' = Partial(Tile(n), ktile[n])
  BY <1>1, GridKept
<1>4. Partial(Tile(n), ktile[n] + 1)' = Partial(Tile(n), ktile[n] + 1)
  BY <1>1, GridKept
<1>5. QED
  BY <1>1, <1>2, <1>3, <1>4, Zenon DEF SumsUp

LEMMA LoadACompletes ==
  ASSUME IInv, NEW n \in Minions, NEW op \in ops[n], CompleteLoadA(n, op), Done(n, op),
         UNCHANGED <<hostVars, loopVars>>
  PROVE  IInv'
<1>1. /\ args' = args /\ call' = call /\ pc' = pc /\ local' = local /\ ktile' = ktile
      /\ ops'[n] = ops[n] \ {op} /\ DOMAIN ops' = Minions
      /\ \A m \in Minions \ {n} : ops'[m] = ops[m]
      /\ \A kind : Instruction(n, kind)' = Instruction(n, kind)
      /\ Tile(n)' = Tile(n)
  BY CompletionFrame DEF IInv
<1>2. tenB' = tenB /\ acc' = acc /\ c' = c /\ writers' = writers /\ op.kind = "load0"
  BY DEF CompleteLoadA
<1>3. pc[n] = "load B" /\ ops[n] = {op} /\ op = Instruction(n, "load0")
  BY <1>2, InstructionAt DEF IInv, Working
<1>4. /\ scp'[n] = [row |-> Row(Tile(n)), k |-> ktile[n]] /\ DOMAIN scp' = Minions
      /\ \A m \in Minions \ {n} : scp'[m] = scp[m]
  BY <1>3 DEF CompleteLoadA, Instruction, IInv, Domains
<1>5. \A m \in Minions \ {n} : Unaffected(m)
  BY <1>1, <1>2, <1>4 DEF Unaffected
<1>6. Domains'
  BY <1>1, <1>2, <1>4, GridKept DEF IInv, Domains
<1>7. InBlock(n)' /\ SumsUp(n)'
  <2>1. Accumulating(n) /\ Accumulating(n)'
    BY <1>1, <1>3 DEF Accumulating
  <2>2. InBlock(n)'
    BY <1>1, GridKept DEF InBlock, IInv, Working
  <2>3. QED
    BY <1>1, <1>2, <2>1, <2>2, SumsUpKept DEF IInv, Working
<1>8. Underway(n)' /\ LeftBehind(n)'
  <2>1. Underway(n)'
    BY <1>1, <1>3 DEF Underway
  <2>2. LeftBehind(n)'
    BY ZenonT(30), <1>1, <1>2, <1>3, GridKept DEF LeftBehind, IInv, Working
  <2>3. QED
    BY <2>1, <2>2
<1>9. OperandsLoaded(n)'
  BY <1>1, <1>3, <1>4, GridKept DEF OperandsLoaded
<1>10. QED
  BY <1>1, <1>2, <1>3, <1>5, <1>6, <1>7, <1>8, <1>9, MemoryKept, StepOf
     DEF Working, IInv, hostVars

LEMMA LoadBCompletes ==
  ASSUME IInv, NEW n \in Minions, NEW op \in ops[n], CompleteLoadB(n, op), Done(n, op),
         UNCHANGED <<hostVars, loopVars>>
  PROVE  IInv'
<1>1. /\ args' = args /\ call' = call /\ pc' = pc /\ local' = local /\ ktile' = ktile
      /\ ops'[n] = ops[n] \ {op} /\ DOMAIN ops' = Minions
      /\ \A m \in Minions \ {n} : ops'[m] = ops[m]
      /\ \A kind : Instruction(n, kind)' = Instruction(n, kind)
      /\ Tile(n)' = Tile(n)
  BY CompletionFrame DEF IInv
<1>2. scp' = scp /\ acc' = acc /\ c' = c /\ writers' = writers /\ op.kind = "load1"
  BY DEF CompleteLoadB
<1>3. pc[n] \in {"fma", "wait"} /\ op = Instruction(n, "load1")
  BY <1>2, InstructionAt DEF IInv, Working
<1>4. /\ tenB'[n] = [col |-> Col(Tile(n)), k |-> ktile[n]] /\ DOMAIN tenB' = Minions
      /\ \A m \in Minions \ {n} : tenB'[m] = tenB[m]
  BY <1>3 DEF CompleteLoadB, Instruction, IInv, Domains
<1>5. \A m \in Minions \ {n} : Unaffected(m)
  BY <1>1, <1>2, <1>4 DEF Unaffected
<1>6. Domains'
  BY <1>1, <1>2, <1>4, GridKept DEF IInv, Domains
<1>7. Instruction(n, "load1") # Instruction(n, "fma")
  BY DEF Instruction
<1>8. Instruction(n, "fma")' \in ops'[n] <=> Instruction(n, "fma") \in ops[n]
  BY <1>1, <1>3, <1>7
<1>9. InBlock(n)'
  BY <1>1, GridKept DEF InBlock, IInv, Working
<1>10. SumsUp(n)'
  <2>1. Accumulating(n)' <=> Accumulating(n)
    BY <1>1, <1>8 DEF Accumulating
  <2>2. QED
    BY <1>1, <1>2, <2>1, SumsUpKept DEF IInv, Working
<1>11. Underway(n)'
  BY <1>1, <1>3, <1>8 DEF Underway, IInv, Working
<1>12. LeftBehind(n)'
  BY <1>1, <1>2, <1>3, GridKept DEF LeftBehind, IInv, Working
<1>13. OperandsLoaded(n)'
  BY ZenonT(30), <1>1, <1>2, <1>3, <1>4, GridKept DEF OperandsLoaded, IInv, Working
<1>14. QED
  BY <1>1, <1>2, <1>3, <1>5, <1>6, <1>9, <1>10, <1>11, <1>12, <1>13, MemoryKept, StepOf
     DEF Working, IInv, hostVars

\* One more turn is one more product.
LEMMA PartialExtended ==
  ASSUME NEW t, NEW k \in Nat
  PROVE  LET product == Product([row |-> Row(t), k |-> k], [col |-> Col(t), k |-> k], Rows(t), Depth(k)) IN
         /\ Append(Partial(t, k), product) = Partial(t, k + 1)
         /\ <<product>> = Partial(t, 1) \/ k # 0
<1> DEFINE p(i) == Product([row |-> Row(t), k |-> i], [col |-> Col(t), k |-> i], Rows(t), Depth(i))
           S == {p(i) : i \in Nat}
<1>1. \A i \in Nat : p(i) \in S
  OBVIOUS
<1>2. \A n \in Nat : Partial(t, n) = [i \in 1 .. n |-> p(i - 1)]
  BY DEF Partial
<1> HIDE DEF p, S
<1>3. ASSUME NEW n \in Nat PROVE Partial(t, n) \in Seq(S) /\ Len(Partial(t, n)) = n
  <2>1. \A i \in 1 .. n : p(i - 1) \in S
    BY <1>1
  <2>2. [i \in 1 .. n |-> p(i - 1)] \in [1 .. n -> S]
    BY <2>1
  <2>3. QED
    BY <1>2, <2>2
<1>4. Append(Partial(t, k), p(k)) = Partial(t, k + 1)
  <2>1. PICK sums \in Seq(S), more \in Seq(S) : sums = Partial(t, k) /\ more = Partial(t, k + 1)
    BY <1>3
  <2>2. /\ Len(sums) = k /\ Len(more) = k + 1
        /\ \A i \in 1 .. k : sums[i] = p(i - 1)
        /\ \A i \in 1 .. k + 1 : more[i] = p(i - 1)
    BY SMTT(30), <1>2, <1>3, <2>1
  <2>3. p(k) \in S /\ (k + 1) - 1 = k /\ k + 1 \in 1 .. k + 1
    BY <1>1
  <2>4. more[k + 1] = p(k)
    BY <2>2, <2>3
  <2>5. Append(sums, p(k)) \in Seq(S) /\ Len(Append(sums, p(k))) = k + 1
        /\ \A i \in 1 .. k + 1 : Append(sums, p(k))[i] = IF i = k + 1 THEN p(k) ELSE sums[i]
    BY <2>2, <2>3
  <2>6. \A i \in 1 .. k + 1 : Append(sums, p(k))[i] = more[i]
    BY <2>2, <2>4, <2>5
  <2>7. Append(sums, p(k)) = more
    BY <2>2, <2>5, <2>6
  <2>8. QED
    BY <2>1, <2>7
<1>5. <<p(0)>> = Partial(t, 1)
  <2>1. Partial(t, 1) = [i \in 1 .. 1 |-> p(i - 1)]
    BY <1>2
  <2>2. QED
    BY <2>1
<1>6. QED
  BY <1>4, <1>5 DEF p

LEMMA FmaCompletes ==
  ASSUME IInv, NEW n \in Minions, NEW op \in ops[n], CompleteFma(n, op), Done(n, op),
         UNCHANGED <<hostVars, loopVars>>
  PROVE  IInv'
<1>1. /\ args' = args /\ call' = call /\ pc' = pc /\ local' = local /\ ktile' = ktile
      /\ ops'[n] = ops[n] \ {op} /\ DOMAIN ops' = Minions
      /\ \A m \in Minions \ {n} : ops'[m] = ops[m]
      /\ \A kind : Instruction(n, kind)' = Instruction(n, kind)
      /\ Tile(n)' = Tile(n)
  BY CompletionFrame DEF IInv
<1>2. scp' = scp /\ tenB' = tenB /\ c' = c /\ writers' = writers /\ op.kind = "fma"
  BY DEF CompleteFma
<1>3. pc[n] = "wait" /\ op = Instruction(n, "fma")
  BY <1>2, InstructionAt DEF IInv, Working
<1>4. Instruction(n, "load1") \notin ops[n]
  BY DEF CompleteFma, Waited, Instruction
<1>5. ops[n] = {op} /\ ops'[n] = {}
  BY ZenonT(30), <1>1, <1>3, <1>4 DEF Underway, IInv, Working
<1>6. PICK k \in Nat : k = ktile[n]
  BY DEF IInv, Domains
<1>7. PICK product : product = Product([row |-> Row(Tile(n)), k |-> k], [col |-> Col(Tile(n)), k |-> k],
                                       Rows(Tile(n)), Depth(k))
  OBVIOUS
<1>8. /\ acc'[n] = (IF k = 0 THEN <<product>> ELSE Append(acc[n], product)) /\ DOMAIN acc' = Minions
      /\ \A m \in Minions \ {n} : acc'[m] = acc[m]
  <2>1. scp[n] = [row |-> Row(Tile(n)), k |-> k] /\ tenB[n] = [col |-> Col(Tile(n)), k |-> k]
    BY <1>3, <1>4, <1>6 DEF OperandsLoaded, IInv, Working
  <2>2. op.tile = Tile(n) /\ op.k = k
    BY <1>3, <1>6 DEF Instruction
  <2>3. Product(scp[n], tenB[n], Rows(op.tile), Depth(op.k)) = product
    BY <1>7, <2>1, <2>2
  <2>4. acc' = [acc EXCEPT ![n] = IF k = 0 THEN <<product>> ELSE Append(@, product)]
    BY <2>2, <2>3 DEF CompleteFma, MulOnly
  <2>5. QED
    BY <2>4 DEF IInv, Domains
<1>9. acc'[n] = Partial(Tile(n), ktile[n] + 1)
  <2>1. k # 0 => acc[n] = Partial(Tile(n), k)
    BY <1>3, <1>5, <1>6 DEF SumsUp, Accumulating, IInv, Working
  <2>2. /\ Append(Partial(Tile(n), k), product) = Partial(Tile(n), k + 1)
        /\ <<product>> = Partial(Tile(n), 1) \/ k # 0
    BY <1>7, PartialExtended
  <2>3. k = 0 => k + 1 = 1
    OBVIOUS
  <2>4. acc'[n] = Partial(Tile(n), k + 1)
    BY <1>8, <2>1, <2>2, <2>3
  <2>5. QED
    BY <1>6, <2>4
<1>10. \A m \in Minions \ {n} : Unaffected(m)
  BY <1>1, <1>2, <1>8 DEF Unaffected
<1>11. Domains'
  BY <1>1, <1>2, <1>8, GridKept DEF IInv, Domains
<1>12. InBlock(n)'
  BY <1>1, GridKept DEF InBlock, IInv, Working
<1>13. Underway(n)'
  BY <1>1, <1>3, <1>5 DEF Underway
<1>14. OperandsLoaded(n)'
  <2>1. /\ scp[n] = [row |-> Row(Tile(n)), k |-> ktile[n]]
        /\ tenB[n] = [col |-> Col(Tile(n)), k |-> ktile[n]]
    BY <1>3, <1>4 DEF OperandsLoaded, IInv, Working
  <2>2. /\ [row |-> Row(Tile(n)), k |-> ktile[n]]' = [row |-> Row(Tile(n)), k |-> ktile[n]]
        /\ [col |-> Col(Tile(n)), k |-> ktile[n]]' = [col |-> Col(Tile(n)), k |-> ktile[n]]
    BY <1>1, GridKept
  <2>3. QED
    BY <1>2, <2>1, <2>2 DEF OperandsLoaded
<1>15. SumsUp(n)'
  <2>1. ~Accumulating(n)'
    BY <1>1, <1>3, <1>5 DEF Accumulating
  <2>2. ktile[n] <= KTiles /\ ktile[n] < KTiles
    BY <1>3 DEF SumsUp, IInv, Working
  <2>3. KTiles' = KTiles
    BY <1>1, GridKept
  <2>4. Partial(Tile(n), ktile[n] + 1)' = Partial(Tile(n), ktile[n] + 1)
    BY <1>1, GridKept
  <2>5. pc'[n] = "wait" /\ ktile'[n] = ktile[n]
    BY <1>1, <1>3
  <2>6. pc'[n] \notin {"store", "drain"}
    BY <2>5
  <2>7. QED
    BY <1>9, <2>1, <2>2, <2>3, <2>4, <2>5, <2>6, Zenon DEF SumsUp
<1>16. LeftBehind(n)'
  BY <1>1, <1>2, <1>3, GridKept DEF LeftBehind, IInv, Working
<1>17. QED
  BY <1>1, <1>2, <1>3, <1>10, <1>11, <1>12, <1>13, <1>14, <1>15, <1>16, MemoryKept, StepOf
     DEF Working, IInv, hostVars

LEMMA StoreCompletes ==
  ASSUME IInv, NEW n \in Minions, NEW op \in ops[n], CompleteStore(n, op), Done(n, op),
         UNCHANGED <<hostVars, loopVars>>
  PROVE  IInv'
<1>1. /\ args' = args /\ call' = call /\ pc' = pc /\ local' = local /\ ktile' = ktile
      /\ ops'[n] = ops[n] \ {op} /\ DOMAIN ops' = Minions
      /\ \A m \in Minions \ {n} : ops'[m] = ops[m]
      /\ \A kind : Instruction(n, kind)' = Instruction(n, kind)
      /\ Tile(n)' = Tile(n)
  BY CompletionFrame DEF IInv
<1>2. scp' = scp /\ tenB' = tenB /\ acc' = acc /\ op.kind = "store"
  BY DEF CompleteStore
<1>3. pc[n] = "drain" /\ ops[n] = {op} /\ op.tile = Tile(n)
  <2>1. pc[n] = "drain" /\ ops[n] = {op} /\ op = Instruction(n, "store")
    BY <1>2, InstructionAt DEF IInv, Working
  <2>2. QED
    BY <2>1 DEF Instruction
<1>4. Tile(n) \in Tiles /\ Owns(n, Tile(n)) /\ n \in Launched
  BY <1>3, AtWork DEF IInv, Busy
<1>5. acc[n] = Result(Tile(n))
  BY <1>3 DEF SumsUp, IInv, Working
<1>6. /\ DOMAIN c' = Tiles /\ c'[Tile(n)] = Result(Tile(n))
      /\ \A t \in Tiles \ {Tile(n)} : c'[t] = c[t]
      /\ DOMAIN writers' = Tiles /\ writers'[Tile(n)] = writers[Tile(n)] \cup {n}
      /\ \A t \in Tiles \ {Tile(n)} : writers'[t] = writers[t]
  BY <1>3, <1>4, <1>5 DEF CompleteStore, IInv, Domains
<1>7. \A m \in Minions \ {n} : Unaffected(m)
  BY <1>1, <1>2 DEF Unaffected
<1>8. Domains'
  BY <1>1, <1>2, <1>6, GridKept DEF IInv, Domains
<1>9. ResultsKept
  BY <1>6 DEF ResultsKept
<1>10. Memory'
  <2>1. \A t \in Tiles : c'[t] \in {Unwritten, Result(t)} /\ \A m \in writers'[t] : m \in Launched /\ Owns(m, t)
    BY <1>4, <1>6 DEF Memory, IInv
  <2>2. QED
    BY <1>1, <2>1, GridKept DEF Memory
<1>11. InBlock(n)'
  BY <1>1, GridKept DEF InBlock, IInv, Working
<1>12. Underway(n)' /\ OperandsLoaded(n)'
  BY <1>1, <1>3 DEF Underway, OperandsLoaded
<1>13. SumsUp(n)'
  <2>1. Accumulating(n)' <=> Accumulating(n)
    BY <1>1, <1>3 DEF Accumulating
  <2>2. QED
    BY <1>1, <1>2, <2>1, SumsUpKept DEF IInv, Working
<1>14. LeftBehind(n)'
  <2>1. \A t \in Tiles : Owns(n, t) /\ t < Tile(n) => c'[t] = Result(t)
    BY <1>3, <1>9 DEF LeftBehind, IInv, Working, ResultsKept
  <2>2. QED
    BY <1>1, <1>6, <2>1, GridKept DEF LeftBehind
<1>15. QED
  BY <1>1, <1>3, <1>7, <1>8, <1>9, <1>10, <1>11, <1>12, <1>13, <1>14, StepOf
     DEF Working, IInv, hostVars

LEMMA CompleteStep ==
  ASSUME IInv, NEW n \in Minions, Complete(n)
  PROVE  IInv'
BY LoadACompletes, LoadBCompletes, FmaCompletes, StoreCompletes DEF Complete
-----------------------------------------------------------------------------
(***************************************************************************)
(* The steps of the host, and the invariant.                               *)
(***************************************************************************)

LEMMA CallStep ==
  ASSUME IInv, Call
  PROVE  IInv'
<1>1. /\ call = "none" /\ args' = args /\ call' = (IF Valid(args) THEN "running" ELSE "rejected")
      /\ pc' = [m \in Minions |-> IF Valid(args) /\ m \in Launched THEN "start" ELSE "idle"]
      /\ local' = local /\ ktile' = ktile /\ ops' = ops /\ scp' = scp /\ tenB' = tenB /\ acc' = acc
      /\ c' = c /\ writers' = writers
  BY DEF Call, tensorVars
<1>2. Memory'
  BY <1>1, MemoryKept DEF IInv
<1>3. Domains'
  BY <1>1, GridKept DEF IInv, Domains
<1>4. Called'
  <2>1. Valid(args) => \A m \in Launched : pc'[m] = "start"
    BY <1>1 DEF Launched
  <2>2. QED
    BY <1>1, <2>1, GridKept DEF IInv, Called
<1>5. ASSUME NEW m \in Minions PROVE Working(m)'
  <2>1. pc[m] = "idle"
    BY <1>1 DEF IInv, Working, InBlock
  <2>2. pc'[m] = "idle" \/ (pc'[m] = "start" /\ Valid(args) /\ m \in Launched)
    BY <1>1
  <2>3. InBlock(m)' /\ Underway(m)' /\ OperandsLoaded(m)'
    BY <1>1, <2>1, <2>2, GridKept DEF IInv, Working, InBlock, Underway, OperandsLoaded, Busy
  <2>4. SumsUp(m)'
    BY <1>1, <2>1, <2>2, GridKept DEF IInv, Working, SumsUp, Accumulating
  <2>5. LeftBehind(m)'
    BY <2>2 DEF LeftBehind
  <2>6. QED
    BY <2>3, <2>4, <2>5 DEF Working
<1>6. QED
  BY <1>2, <1>3, <1>4, <1>5, <1>1, GridKept DEF IInv

LEMMA ReturnStep ==
  ASSUME IInv, Return
  PROVE  IInv'
<1>1. /\ call = "running" /\ call' = "returned" /\ \A m \in Launched : pc[m] = "done"
      /\ args' = args /\ pc' = pc /\ local' = local /\ ktile' = ktile
      /\ ops' = ops /\ scp' = scp /\ tenB' = tenB /\ acc' = acc /\ c' = c /\ writers' = writers
  BY DEF Return, loopVars, tensorVars
<1>2. Memory' /\ ResultsKept
  BY <1>1, MemoryKept DEF IInv
<1>3. Domains'
  BY <1>1, GridKept DEF IInv, Domains
<1>4. Called'
  BY <1>1, GridKept DEF IInv, Called
<1>5. \A m \in Minions : Working(m)'
  BY <1>1, <1>2, WorkingKept DEF IInv, Unaffected
<1>6. QED
  BY <1>2, <1>3, <1>4, <1>5 DEF IInv

LEMMA InitIInv == Init => IInv
<1> SUFFICES ASSUME Init PROVE IInv
  OBVIOUS
<1>1. args \in Problems /\ call = "none"
  BY DEF Init
<1>2. Domains
  BY DEF Init, Domains
<1>3. Called
  BY <1>1 DEF Called
<1>4. Memory
  BY DEF Init, Memory
<1>5. ASSUME NEW m \in Minions PROVE Working(m)
  <2>1. pc[m] = "idle" /\ ktile[m] = 0 /\ ops[m] = {}
    BY DEF Init
  <2>2. 0 <= KTiles
    BY <1>1, GridTyped
  <2>3. QED
    BY <2>1, <2>2 DEF Working, InBlock, Underway, OperandsLoaded, SumsUp, Accumulating, LeftBehind, Busy
<1>6. QED
  BY <1>2, <1>3, <1>4, <1>5 DEF IInv

\* An accepted call divides the tiles of C between the Minions of its shires,
\* whose registers hold the products of the turns that are over: the inductive
\* invariant of the kernel, the co-processors and the host that waits for them.
THEOREM Inductive == Spec => []IInv
<1>1. IInv /\ [Next]_vars => IInv'
  <2> SUFFICES ASSUME IInv, [Next]_vars PROVE IInv'
    OBVIOUS
  <2>1. CASE Call
    BY <2>1, CallStep
  <2>2. CASE Return
    BY <2>2, ReturnStep
  <2>3. ASSUME NEW m \in Minions, Kernel(m) PROVE IInv'
    BY <2>3, KernelStep
  <2>4. ASSUME NEW m \in Minions, Complete(m) PROVE IInv'
    BY <2>4, CompleteStep
  <2>5. CASE UNCHANGED vars
    <3>1. /\ call' = call /\ args' = args /\ pc' = pc /\ local' = local /\ ktile' = ktile
          /\ ops' = ops /\ scp' = scp /\ tenB' = tenB /\ acc' = acc /\ c' = c /\ writers' = writers
      BY <2>5 DEF vars, hostVars, loopVars, tensorVars
    <3>2. Memory' /\ ResultsKept
      BY <3>1, MemoryKept DEF IInv
    <3>3. Domains' /\ Called'
      BY <3>1, GridKept DEF IInv, Domains, Called
    <3>4. \A m \in Minions : Working(m)'
      BY <3>1, <3>2, WorkingKept DEF IInv, Unaffected
    <3>5. QED
      BY <3>1, <3>2, <3>3, <3>4 DEF IInv
  <2>6. QED
    BY <2>1, <2>2, <2>3, <2>4, <2>5 DEF Next
<1>2. QED
  BY InitIInv, <1>1, PTL DEF Spec
-----------------------------------------------------------------------------
(***************************************************************************)
(* What the invariant says of C.                                           *)
(***************************************************************************)

\* Memory never holds anything but whole results.
THEOREM StoredWholeAlways == Spec => []StoredWhole
<1>1. IInv => StoredWhole
  BY DEF IInv, Memory, StoredWhole
<1>2. QED
  BY <1>1, Inductive, PTL

LEMMA OneWriterHolds == IInv => OneWriter
<1> SUFFICES ASSUME IInv, NEW m \in Launched, NEW o \in Launched, m # o,
                    {pc[m], pc[o]} \cap {"idle", "start", "tile", "done"} = {}
             PROVE  Tile(m) # Tile(o) /\ m \notin writers[Tile(o)]
  BY DEF OneWriter
<1>1. m \in Minions /\ o \in Minions
  BY DEF Launched
<1>2. pc[m] \in Busy /\ pc[o] \in Busy
  BY <1>1 DEF IInv, Domains
<1>3. /\ args \in Problems /\ args.nShires > 0
      /\ Tile(m) \in Tiles /\ Owns(m, Tile(m)) /\ Tile(o) \in Tiles /\ Owns(o, Tile(o))
  BY <1>1, <1>2, AtWork DEF IInv, Called, Busy
<1>4. Tile(o) \in Int
  BY <1>3, GridTyped
<1>5. ~Owns(m, Tile(o))
  BY <1>1, <1>3, <1>4, OwnersDisjoint
<1>6. QED
  BY <1>3, <1>5 DEF IInv, Memory

\* No tile of C has two writers, now or later.
THEOREM OneWriterAlways == Spec => []OneWriter
BY OneWriterHolds, Inductive, PTL

LEMMA ResultCompleteHolds == IInv => ResultComplete
<1> SUFFICES ASSUME IInv, call = "returned"
             PROVE  (\A t \in Tiles : c[t] = Result(t)) /\ (\A m \in Minions : ops[m] = {})
  BY DEF ResultComplete
<1>1. Valid(args) /\ args \in Problems /\ args.nShires > 0 /\ \A m \in Launched : pc[m] = "done"
  BY ArgsTyped DEF IInv, Called, Valid
<1>2. ASSUME NEW t \in Tiles PROVE c[t] = Result(t)
  <2>1. PICK m \in Launched :
          Owns(m, t) /\ t - ShireBase(m) \in Nat /\ t - ShireBase(m) < ShireEnd(m)
    BY <1>1, OwnerLaunched
  <2>2. m \in Minions /\ pc[m] = "done" /\ local[m] >= ShireEnd(m)
    BY <1>1 DEF Launched, IInv, Working, InBlock
  <2>3. PICK i \in Nat, base \in Nat, end \in Nat, tile \in Nat :
          i = local[m] /\ base = ShireBase(m) /\ end = ShireEnd(m) /\ tile = t
    BY <1>1, <2>2, BlockTyped, GridTyped DEF IInv, Domains
  <2>4. tile - base < end /\ i >= end
    BY <2>1, <2>2, <2>3
  <2>5. tile < base + i
    BY <2>4
  <2>6. t < Tile(m)
    BY <2>3, <2>5 DEF Tile
  <2>7. QED
    BY <2>1, <2>2, <2>6 DEF LeftBehind, IInv, Working
<1>3. ASSUME NEW m \in Minions PROVE ops[m] = {}
  <2>1. pc[m] \in {"idle", "done"}
    BY <1>1 DEF IInv, Working, InBlock
  <2>2. QED
    BY <2>1 DEF IInv, Working, Underway
<1>4. QED
  BY <1>2, <1>3

\* When the call has returned, all of C is in memory and no store is to come.
THEOREM ResultCompleteAlways == Spec => []ResultComplete
BY ResultCompleteHolds, Inductive, PTL

LEMMA Typed == IInv => TypeOK
<1> SUFFICES ASSUME IInv PROVE TypeOK
  OBVIOUS
<1>1. args \in Problems /\ call \in {"none", "rejected", "running", "returned"}
  BY DEF IInv, Called
<1>2. pc \in [Minions -> {"idle", "start", "tile", "load A", "load B", "fma", "wait",
                          "store", "drain", "done"}]
  BY DEF IInv, Domains, Busy
<1>3. ASSUME NEW m \in Minions
      PROVE  /\ local[m] \in Nat /\ ktile[m] \in 0 .. KTiles /\ ops[m] \subseteq TensorOps
             /\ \A o, p \in ops[m] : o.kind = p.kind => o = p
  <2>1. local[m] \in Nat /\ ktile[m] \in Nat /\ ktile[m] <= KTiles
    BY DEF IInv, Domains, Working, SumsUp
  <2>2. KTiles \in Nat
    BY <1>1, GridTyped
  <2>3. ktile[m] \in 0 .. KTiles
    BY <2>1, <2>2
  <2>4. \A op \in ops[m] : op = Instruction(m, op.kind) /\ pc[m] \in Busy
    BY InstructionAt DEF IInv, Working
  <2>5. ASSUME NEW op \in ops[m] PROVE op \in TensorOps
    <3>1. Tile(m) \in Tiles
      BY <2>4, AtWork DEF IInv, Busy
    <3>2. op \in {Instruction(m, kind) : kind \in {"load0", "load1", "fma", "store"}}
      BY DEF IInv, Working, Underway
    <3>3. QED
      BY <2>3, <3>1, <3>2 DEF TensorOps, Instruction
  <2>6. QED
    BY <2>1, <2>3, <2>4, <2>5
<1>4. \A t \in Tiles : writers[t] \subseteq Launched
  BY DEF IInv, Memory
<1>5. QED
  BY <1>1, <1>2, <1>3, <1>4 DEF TypeOK

LEMMA ColumnsInside ==
  ASSUME args \in Problems, Valid(args), NEW t \in Tiles
  PROVE  (Col(t) + 1) * TileN <= args.ldc
<1>1. PICK n \in Nat \ {0}, ldc \in Nat, width \in Nat \ {0} :
        n = args.n /\ ldc = args.ldc /\ width = TileN
  BY ArgsTyped DEF Valid
<1>2. ldc >= n /\ ldc % width = 0
  BY <1>1 DEF Valid
<1>3. PICK cols \in Nat : cols = TileCols /\ cols >= 1 /\ cols * width < n + width
  BY <1>1, CeilDivCovers, CeilDivPositive DEF TileCols
<1>4. PICK col \in Int : col = Col(t) /\ col < cols
  <2>1. t \in Int /\ cols \in Nat \ {0}
    BY <1>3, GridTyped
  <2>2. t % cols \in 0 .. cols - 1
    BY <2>1, Quotient
  <2>3. QED
    BY <1>3, <2>2 DEF Col
<1>5. PICK q \in Int : ldc = width * q
  <2>1. ldc \div width \in Int /\ ldc = width * (ldc \div width) + (ldc % width)
    BY Quotient
  <2>2. QED
    BY <1>2, <2>1
<1>6. cols <= q
  <2>1. width * cols < width * (q + 1)
    <3>1. width * (q + 1) = width * q + width /\ width * cols = cols * width
      OBVIOUS
    <3>2. QED
      BY <1>2, <1>3, <1>5, <3>1
  <2>2. ASSUME NEW a \in Int, NEW b \in Int, width * a < width * b PROVE a < b
    BY <2>2
  <2>3. cols < q + 1
    BY <2>1, <2>2
  <2>4. QED
    BY <2>3
<1>7. (col + 1) * width <= ldc
  <2>1. col + 1 <= q
    BY <1>4, <1>6
  <2>2. ASSUME NEW a \in Int, a <= q PROVE a * width <= width * q
    BY <2>2
  <2>3. QED
    BY <1>5, <2>1, <2>2
<1>8. QED
  BY <1>1, <1>4, <1>7

LEMMA RowsInside ==
  ASSUME args \in Problems, NEW t \in Tiles, TileCols >= 1
  PROVE  Row(t) * TileM + Rows(t) <= args.m
<1>1. PICK row \in Int : row = Row(t)
  <2>1. PICK cols \in Nat \ {0} : cols = TileCols
    BY GridTyped
  <2>2. t \div cols \in Int
    BY <2>1, GridTyped, Quotient
  <2>3. QED
    BY <2>1, <2>2 DEF Row
<1>2. PICK height \in Nat, rest \in Int, start \in Int :
        height = TileM /\ start = row * TileM /\ rest = args.m - start
  BY ArgsTyped
<1>3. Min({height, rest}) <= rest
  BY MinOfTwo
<1>4. Rows(t) = Min({height, rest}) /\ Min({height, rest}) \in Int
  BY <1>1, <1>2, MinOfTwo DEF Rows
<1>5. PICK rows \in Int : rows = Rows(t) /\ rows <= rest
  BY <1>3, <1>4
<1>6. QED
  BY <1>1, <1>2, <1>5, ArgsTyped

LEMMA StoresInsideHolds == IInv => StoresInside
<1> SUFFICES ASSUME IInv, NEW m \in Minions, NEW op \in ops[m], op.kind = "store"
             PROVE  /\ (Col(op.tile) + 1) * TileN <= args.ldc
                    /\ Row(op.tile) * TileM + Rows(op.tile) <= args.m
  BY Typed DEF StoresInside
<1>1. op.tile = Tile(m) /\ pc[m] = "drain"
  <2>1. op = Instruction(m, "store") /\ pc[m] = "drain"
    BY InstructionAt DEF IInv, Working
  <2>2. QED
    BY <2>1 DEF Instruction
<1>2. args \in Problems /\ Valid(args) /\ op.tile \in Tiles
  BY <1>1, AtWork DEF IInv, Called, Busy
<1>3. TileCols >= 1
  <2>1. args.n \in Nat \ {0} /\ TileN \in Nat \ {0}
    BY <1>2, ArgsTyped DEF Valid
  <2>2. QED
    BY <2>1, CeilDivPositive DEF TileCols
<1>4. QED
  BY <1>2, <1>3, ColumnsInside, RowsInside

\* Every element stored lies in a row of C and in the rows the caller has
\* allocated, and a Minion works on tiles of the grid only.
THEOREM StoresInsideAlways == Spec => []StoresInside
BY StoresInsideHolds, Inductive, PTL
-----------------------------------------------------------------------------
(***************************************************************************)
(* Sums over finite sets.  Induction over a finite set is used here in     *)
(* the form of SmallestSet: a statement that is false of some subset is    *)
(* false of a smallest one.                                                *)
(***************************************************************************)
\* Every family of subsets of a finite set has a smallest member: this is what
\* induction over finite sets comes to for one family.
LEMMA SmallestSet ==
  ASSUME NEW S, IsFiniteSet(S), NEW Family \in SUBSET SUBSET S, Family # {}
  PROVE  \E T \in Family : \A U \in SUBSET T : U \in Family => U = T
<1>1. IsWellFoundedOn(StrictSubsetOrdering(S), FiniteSubsetsOf(S))
  BY FS_StrictSubsetOrderingWellFounded
<1>2. Family \subseteq FiniteSubsetsOf(S)
  BY FS_Subset DEF FiniteSubsetsOf
<1>3. PICK T \in Family : \A U \in Family : ~ (<<U, T>> \in StrictSubsetOrdering(S))
  BY <1>1, <1>2, WFMin
<1>4. ASSUME NEW U \in SUBSET T, U \in Family, U # T PROVE FALSE
  BY <1>3, <1>4 DEF StrictSubsetOrdering
<1>5. QED
  BY <1>4

\* `SumFunctionOnSet` unfolded: g is the sum of f over every subset of S, taken
\* element by element.
Pick(s) == CHOOSE x \in s : TRUE
SumsUpTo(f, S, g) ==
  g = [s \in SUBSET S |-> IF s = {} THEN 0 ELSE f[Pick(s)] + g[s \ {Pick(s)}]]

LEMMA SumUnfolded ==
  ASSUME NEW f, NEW S
  PROVE  SumFunctionOnSet(f, S) = (CHOOSE g : SumsUpTo(f, S, g))[S]
BY DEF SumFunctionOnSet, FoldFunctionOnSet, MapThenFoldSet, SumsUpTo, Pick

LEMMA SumsAgree ==
  ASSUME NEW f, NEW S, NEW T, NEW g, NEW h, SumsUpTo(f, S, g), SumsUpTo(f, T, h),
         NEW s, IsFiniteSet(s), s \subseteq S, s \subseteq T
  PROVE  g[s] = h[s]
<1> DEFINE Family == {u \in SUBSET s : g[u] # h[u]}
<1>1. SUFFICES ASSUME Family # {} PROVE FALSE
  OBVIOUS
<1>2. PICK u \in Family : \A v \in SUBSET u : v \in Family => v = u
  <2>1. Family \in SUBSET SUBSET s
    OBVIOUS
  <2> HIDE DEF Family
  <2>2. QED
    BY <1>1, <2>1, SmallestSet
<1>3. u \in SUBSET S /\ u \in SUBSET T /\ g[u] # h[u]
  OBVIOUS
<1>4. u # {}
  BY <1>3 DEF SumsUpTo
<1>5. Pick(u) \in u
  BY <1>4 DEF Pick
<1>6. g[u \ {Pick(u)}] = h[u \ {Pick(u)}]
  BY <1>2, <1>5
<1>7. /\ g[u] = f[Pick(u)] + g[u \ {Pick(u)}]
      /\ h[u] = f[Pick(u)] + h[u \ {Pick(u)}]
  BY <1>3, <1>4 DEF SumsUpTo
<1>8. QED
  BY <1>3, <1>6, <1>7

LEMMA SumsExist ==
  ASSUME NEW f, NEW S, IsFiniteSet(S)
  PROVE  \E g : SumsUpTo(f, S, g)
<1> DEFINE Family == {T \in SUBSET S : ~ \E g : SumsUpTo(f, T, g)}
           Sum(T) == (CHOOSE g : SumsUpTo(f, T, g))
<1>1. SUFFICES ASSUME Family # {} PROVE FALSE
  OBVIOUS
<1>2. PICK T \in Family : \A U \in SUBSET T : U \in Family => U = T
  <2>1. Family \in SUBSET SUBSET S
    OBVIOUS
  <2> HIDE DEF Family
  <2>2. QED
    BY <1>1, <2>1, SmallestSet
<1>3. \A U \in SUBSET T : U # T => SumsUpTo(f, U, Sum(U))
  BY <1>2
<1> HIDE DEF Sum
<1> DEFINE g == [s \in SUBSET T |-> IF s = {} THEN 0
                                    ELSE f[Pick(s)] + Sum(s \ {Pick(s)})[s \ {Pick(s)}]]
<1>4. ASSUME NEW u \in SUBSET T, u # T PROVE g[u] = Sum(u)[u]
  <2>1. CASE u = {}
    BY <1>3, <1>4, <2>1 DEF SumsUpTo
  <2>2. CASE u # {}
    <3>1. Pick(u) \in u
      BY <2>2 DEF Pick
    <3> DEFINE v == u \ {Pick(u)}
    <3>2. v \in SUBSET T /\ v # T /\ v \subseteq u
      BY <3>1
    <3>3. SumsUpTo(f, u, Sum(u)) /\ SumsUpTo(f, v, Sum(v))
      BY <1>3, <1>4, <3>2
    <3>4. IsFiniteSet(v)
      BY <3>2, FS_Subset
    <3>5. Sum(u)[v] = Sum(v)[v]
      BY <3>2, <3>3, <3>4, SumsAgree
    <3>6. Sum(u)[u] = f[Pick(u)] + Sum(u)[v]
      BY <2>2, <3>3 DEF SumsUpTo
    <3>7. g[u] = f[Pick(u)] + Sum(v)[v]
      BY <2>2
    <3>8. QED
      BY <3>5, <3>6, <3>7
  <2>3. QED
    BY <2>1, <2>2
<1>5. ASSUME NEW s \in SUBSET T, s # {} PROVE g[s] = f[Pick(s)] + g[s \ {Pick(s)}]
  <2>1. Pick(s) \in s
    BY <1>5 DEF Pick
  <2>2. g[s \ {Pick(s)}] = Sum(s \ {Pick(s)})[s \ {Pick(s)}]
    BY <1>4, <2>1
  <2>3. QED
    BY <1>5, <2>2
<1>6. SumsUpTo(f, T, g)
  <2>1. \A s \in SUBSET T : g[s] = IF s = {} THEN 0 ELSE f[Pick(s)] + g[s \ {Pick(s)}]
    BY <1>5
  <2>2. g = [s \in SUBSET T |-> g[s]]
    OBVIOUS
  <2> HIDE DEF g
  <2>3. g = [s \in SUBSET T |-> IF s = {} THEN 0 ELSE f[Pick(s)] + g[s \ {Pick(s)}]]
    BY <2>1, <2>2
  <2>4. QED
    BY <2>3 DEF SumsUpTo
<1>7. QED
  BY <1>2, <1>6

LEMMA FiniteImage ==
  ASSUME NEW I, NEW P, IsFiniteSet(I)
  PROVE  IsFiniteSet({P[i] : i \in I})
<1> DEFINE T == {P[i] : i \in I}
           g == [i \in I |-> P[i]]
<1>1. g \in Surjection(I, T)
  BY DEF Surjection
<1>2. QED
  BY <1>1, FS_Surjection

LEMMA SumOfNone ==
  ASSUME NEW f
  PROVE  SumFunctionOnSet(f, {}) = 0
<1>1. SumsUpTo(f, {}, CHOOSE g : SumsUpTo(f, {}, g))
  BY SumsExist, FS_EmptySet
<1>2. QED
  BY <1>1, SumUnfolded DEF SumsUpTo

LEMMA SumStep ==
  ASSUME NEW f, NEW S, IsFiniteSet(S), S # {}
  PROVE  SumFunctionOnSet(f, S) = f[Pick(S)] + SumFunctionOnSet(f, S \ {Pick(S)})
<1> DEFINE T == S \ {Pick(S)}
           Sum(U) == CHOOSE g : SumsUpTo(f, U, g)
<1>1. IsFiniteSet(T) /\ T \subseteq S
  BY FS_Subset
<1>2. SumsUpTo(f, S, Sum(S)) /\ SumsUpTo(f, T, Sum(T))
  BY <1>1, SumsExist
<1> HIDE DEF Sum
<1>3. Sum(S)[T] = Sum(T)[T]
  BY <1>1, <1>2, SumsAgree
<1>4. Sum(S)[S] = f[Pick(S)] + Sum(S)[T]
  BY <1>2 DEF SumsUpTo
<1>5. SumFunctionOnSet(f, S) = Sum(S)[S] /\ SumFunctionOnSet(f, T) = Sum(T)[T]
  BY SumUnfolded DEF Sum
<1>6. QED
  BY <1>3, <1>4, <1>5

\* Sums of the same numbers are the same.
LEMMA SumSame ==
  ASSUME NEW f, NEW g, NEW S, IsFiniteSet(S), \A x \in S : f[x] = g[x]
  PROVE  SumFunctionOnSet(f, S) = SumFunctionOnSet(g, S)
<1> DEFINE Family == {T \in SUBSET S : SumFunctionOnSet(f, T) # SumFunctionOnSet(g, T)}
<1>1. SUFFICES ASSUME Family # {} PROVE FALSE
  OBVIOUS
<1>2. PICK T \in Family : \A U \in SUBSET T : U \in Family => U = T
  <2>1. Family \in SUBSET SUBSET S
    OBVIOUS
  <2> HIDE DEF Family
  <2>2. QED
    BY <1>1, <2>1, SmallestSet
<1>3. T # {} /\ IsFiniteSet(T) /\ T \subseteq S
  BY SumOfNone, FS_Subset
<1>4. Pick(T) \in T
  BY <1>3 DEF Pick
<1>5. SumFunctionOnSet(f, T \ {Pick(T)}) = SumFunctionOnSet(g, T \ {Pick(T)})
  BY <1>2, <1>3, <1>4
<1>6. f[Pick(T)] = g[Pick(T)]
  BY <1>3, <1>4
<1>7. QED
  BY <1>3, <1>5, <1>6, SumStep

LEMMA SumTyped ==
  ASSUME NEW f, NEW S, IsFiniteSet(S), \A x \in S : f[x] \in Int
  PROVE  SumFunctionOnSet(f, S) \in Int
<1> DEFINE Family == {T \in SUBSET S : SumFunctionOnSet(f, T) \notin Int}
<1>1. SUFFICES ASSUME Family # {} PROVE FALSE
  OBVIOUS
<1>2. PICK T \in Family : \A U \in SUBSET T : U \in Family => U = T
  <2>1. Family \in SUBSET SUBSET S
    OBVIOUS
  <2> HIDE DEF Family
  <2>2. QED
    BY <1>1, <2>1, SmallestSet
<1>3. T # {} /\ IsFiniteSet(T) /\ T \subseteq S
  <2>1. SumFunctionOnSet(f, T) \notin Int /\ T \subseteq S
    OBVIOUS
  <2>2. SumFunctionOnSet(f, {}) \in Int
    BY SumOfNone
  <2>3. QED
    BY <2>1, <2>2, FS_Subset
<1>4. Pick(T) \in T
  BY <1>3 DEF Pick
<1>5. SumFunctionOnSet(f, T \ {Pick(T)}) \in Int
  BY <1>2, <1>3, <1>4
<1>6. f[Pick(T)] \in Int
  BY <1>3, <1>4
<1>7. SumFunctionOnSet(f, T) \in Int
  BY <1>3, <1>5, <1>6, SumStep
<1>8. QED
  BY <1>7

\* The order in which a sum is taken does not matter.
LEMMA SumWithout ==
  ASSUME NEW f, NEW S, IsFiniteSet(S), \A x \in S : f[x] \in Int, NEW y \in S
  PROVE  SumFunctionOnSet(f, S) = f[y] + SumFunctionOnSet(f, S \ {y})
<1> DEFINE Sum(T) == SumFunctionOnSet(f, T)
           Family == {T \in SUBSET S : \E z \in T : Sum(T) # f[z] + Sum(T \ {z})}
<1> HIDE DEF Sum
<1>1. SUFFICES ASSUME Family # {} PROVE FALSE
  BY DEF Sum
<1>2. PICK T \in Family : \A U \in SUBSET T : U \in Family => U = T
  <2>1. Family \in SUBSET SUBSET S
    OBVIOUS
  <2> HIDE DEF Family
  <2>2. QED
    BY <1>1, <2>1, SmallestSet
<1>3. PICK z \in T : Sum(T) # f[z] + Sum(T \ {z})
  OBVIOUS
<1>4. T # {} /\ IsFiniteSet(T) /\ T \subseteq S
  BY FS_Subset
<1>5. PICK x : x = Pick(T)
  OBVIOUS
<1>6. x \in T
  BY <1>4, <1>5 DEF Pick
<1>7. Sum(T) = f[x] + Sum(T \ {x})
  BY <1>4, <1>5, SumStep DEF Sum
<1>8. x # z
  BY <1>3, <1>7
<1>9. Sum(T \ {x}) = f[z] + Sum((T \ {x}) \ {z})
  <2>1. T \ {x} \in SUBSET T /\ T \ {x} # T /\ z \in T \ {x} /\ T \ {x} \in SUBSET S
    BY <1>4, <1>6, <1>8
  <2>2. QED
    BY <1>2, <2>1
<1>10. Sum(T \ {z}) = f[x] + Sum((T \ {z}) \ {x})
  <2>1. T \ {z} \in SUBSET T /\ T \ {z} # T /\ x \in T \ {z} /\ T \ {z} \in SUBSET S
    BY <1>4, <1>6, <1>8
  <2>2. QED
    BY <1>2, <2>1
<1>11. PICK R : R = (T \ {x}) \ {z} /\ R = (T \ {z}) \ {x}
  OBVIOUS
<1>12. Sum(R) \in Int /\ f[x] \in Int /\ f[z] \in Int
  <2>1. IsFiniteSet(R) /\ R \subseteq S
    BY <1>4, <1>11, FS_Subset
  <2>2. QED
    BY <1>4, <1>6, <2>1, SumTyped DEF Sum
<1>13. Sum(T) = f[x] + (f[z] + Sum(R)) /\ Sum(T \ {z}) = f[x] + Sum(R)
  BY <1>7, <1>9, <1>10, <1>11
<1>14. Sum(T) = f[z] + Sum(T \ {z})
  BY <1>12, <1>13
<1>15. QED
  BY <1>3, <1>14

LEMMA SumApart ==
  ASSUME NEW f, NEW S, NEW A, IsFiniteSet(S), IsFiniteSet(A), S \cap A = {},
         \A x \in S \cup A : f[x] \in Int
  PROVE  SumFunctionOnSet(f, S \cup A) = SumFunctionOnSet(f, S) + SumFunctionOnSet(f, A)
<1> DEFINE Sum(T) == SumFunctionOnSet(f, T)
           Family == {T \in SUBSET A : Sum(S \cup T) # Sum(S) + Sum(T)}
<1> HIDE DEF Sum
<1>1. SUFFICES ASSUME Family # {} PROVE FALSE
  BY DEF Sum
<1>2. PICK T \in Family : \A U \in SUBSET T : U \in Family => U = T
  <2>1. Family \in SUBSET SUBSET A
    OBVIOUS
  <2> HIDE DEF Family
  <2>2. QED
    BY <1>1, <2>1, SmallestSet
<1>3. T \subseteq A /\ IsFiniteSet(T) /\ IsFiniteSet(S \cup T) /\ Sum(S \cup T) # Sum(S) + Sum(T)
  BY FS_Subset, FS_Union
<1>4. T # {}
  <2>1. Sum(S) \in Int /\ Sum({}) = 0
    BY SumTyped, SumOfNone DEF Sum
  <2>2. S \cup {} = S /\ Sum(S) = Sum(S) + 0
    BY <2>1
  <2>3. ASSUME T = {} PROVE FALSE
    <3>1. Sum(S \cup T) = Sum(S) /\ Sum(T) = 0
      BY <2>1, <2>2, <2>3
    <3>2. QED
      BY <1>3, <2>2, <3>1
  <2>4. QED
    BY <2>3
<1>5. PICK y : y \in T
  BY <1>4
<1>6. Sum(T) = f[y] + Sum(T \ {y})
  BY <1>3, <1>5, SumWithout DEF Sum
<1>7. Sum(S \cup T) = f[y] + Sum((S \cup T) \ {y})
  <2>1. y \in S \cup T /\ \A x \in S \cup T : f[x] \in Int
    BY <1>3, <1>5
  <2>2. QED
    BY <1>3, <2>1, SumWithout DEF Sum
<1>8. (S \cup T) \ {y} = S \cup (T \ {y})
  BY <1>3, <1>5
<1>9. Sum(S \cup (T \ {y})) = Sum(S) + Sum(T \ {y})
  <2>1. T \ {y} \in SUBSET T /\ T \ {y} # T /\ T \ {y} \in SUBSET A
    BY <1>3, <1>5
  <2>2. QED
    BY <1>2, <2>1
<1>10. Sum(S) \in Int /\ Sum(T \ {y}) \in Int /\ f[y] \in Int
  <2>1. IsFiniteSet(T \ {y}) /\ T \ {y} \subseteq A
    BY <1>3, FS_Subset
  <2>2. QED
    BY <1>3, <1>5, <2>1, SumTyped DEF Sum
<1>11. Sum(S \cup T) = f[y] + (Sum(S) + Sum(T \ {y}))
  BY <1>7, <1>8, <1>9
<1>12. Sum(S \cup T) = Sum(S) + Sum(T)
  BY <1>6, <1>10, <1>11
<1>13. QED
  BY <1>3, <1>12

Joined(P, I) == UNION {P[i] : i \in I}

\* The parts of a set add up to the whole.
LEMMA SumOfParts ==
  ASSUME NEW f, NEW I, IsFiniteSet(I), NEW P, NEW partial,
         \A i \in I : IsFiniteSet(P[i]) /\ \A x \in P[i] : f[x] \in Int,
         \A i, j \in I : i # j => P[i] \cap P[j] = {},
         \A i \in I : partial[i] = SumFunctionOnSet(f, P[i])
  PROVE  SumFunctionOnSet(partial, I) = SumFunctionOnSet(f, Joined(P, I))
<1> DEFINE Sum(T) == SumFunctionOnSet(f, T)
           Parts(J) == UNION {P[i] : i \in J}
           Family == {J \in SUBSET I : SumFunctionOnSet(partial, J) # Sum(Parts(J))}
<1> HIDE DEF Sum
<1>1. SUFFICES ASSUME Family # {} PROVE FALSE
  BY DEF Sum, Joined
<1>2. PICK J \in Family : \A U \in SUBSET J : U \in Family => U = J
  <2>1. Family \in SUBSET SUBSET I
    OBVIOUS
  <2> HIDE DEF Family
  <2>2. QED
    BY <1>1, <2>1, SmallestSet
<1>3. J \subseteq I /\ IsFiniteSet(J) /\ SumFunctionOnSet(partial, J) # Sum(Parts(J))
  BY FS_Subset
<1>4. J # {}
  <2>1. Parts({}) = {}
    OBVIOUS
  <2>2. QED
    BY <1>3, <2>1, SumOfNone DEF Sum
<1>5. PICK i : i \in J
  BY <1>4
<1> DEFINE K == J \ {i}
<1>6. K \in SUBSET J /\ K # J /\ K \in SUBSET I /\ IsFiniteSet(K)
  BY <1>3, <1>5, FS_Subset
<1>7. SumFunctionOnSet(partial, K) = Sum(Parts(K))
  BY <1>2, <1>6
<1>8. SumFunctionOnSet(partial, J) = partial[i] + SumFunctionOnSet(partial, K)
  <2>1. \A j \in J : partial[j] \in Int
    BY <1>3, SumTyped
  <2>2. QED
    BY <1>3, <1>5, <2>1, SumWithout
<1>9. /\ IsFiniteSet(Parts(K)) /\ IsFiniteSet(P[i])
      /\ \A x \in Parts(K) \cup P[i] : f[x] \in Int
  <2>1. IsFiniteSet({P[j] : j \in K})
    BY <1>6, FiniteImage
  <2>2. \A T \in {P[j] : j \in K} : IsFiniteSet(T)
    BY <1>6
  <2>3. IsFiniteSet(Parts(K))
    BY <2>1, <2>2, FS_UNION
  <2>4. QED
    BY <1>3, <1>5, <1>6, <2>3
<1>10. Parts(J) = Parts(K) \cup P[i] /\ Parts(K) \cap P[i] = {}
  BY <1>3, <1>5
<1>11. Sum(Parts(J)) = Sum(Parts(K)) + Sum(P[i])
  <2>1. PICK A, B : A = Parts(K) /\ B = P[i]
    OBVIOUS
  <2>2. /\ IsFiniteSet(A) /\ IsFiniteSet(B) /\ A \cap B = {} /\ \A x \in A \cup B : f[x] \in Int
        /\ Parts(J) = A \cup B
    BY <1>9, <1>10, <2>1
  <2>3. Sum(A \cup B) = Sum(A) + Sum(B)
    BY <2>2, SumApart DEF Sum
  <2>4. QED
    BY <2>1, <2>2, <2>3
<1>12. partial[i] = Sum(P[i]) /\ Sum(P[i]) \in Int /\ Sum(Parts(K)) \in Int
  <2> HIDE DEF Parts
  <2>1. QED
    BY <1>3, <1>5, <1>9, SumTyped DEF Sum
<1>13. QED
  BY <1>3, <1>7, <1>8, <1>11, <1>12

LEMMA SumPositive ==
  ASSUME NEW f, NEW S, IsFiniteSet(S), S # {}, \A x \in S : f[x] \in Int /\ f[x] > 0
  PROVE  SumFunctionOnSet(f, S) > 0
<1> DEFINE Sum(T) == SumFunctionOnSet(f, T)
           Family == {T \in SUBSET S : T # {} /\ ~ (Sum(T) > 0)}
<1> HIDE DEF Sum
<1>1. SUFFICES ASSUME Family # {} PROVE FALSE
  BY DEF Sum
<1>2. PICK T \in Family : \A U \in SUBSET T : U \in Family => U = T
  <2>1. Family \in SUBSET SUBSET S
    OBVIOUS
  <2> HIDE DEF Family
  <2>2. QED
    BY <1>1, <2>1, SmallestSet
<1>3. PICK y \in T : TRUE
  OBVIOUS
<1>4. T \subseteq S /\ IsFiniteSet(T) /\ IsFiniteSet(T \ {y})
  BY FS_Subset
<1>5. Sum(T) = f[y] + Sum(T \ {y})
  BY <1>4, SumWithout DEF Sum
<1>6. f[y] \in Int /\ f[y] > 0 /\ Sum(T \ {y}) \in Int
  BY <1>3, <1>4, SumTyped DEF Sum
<1>7. Sum(T \ {y}) = 0 \/ Sum(T \ {y}) > 0
  <2>1. CASE T \ {y} = {}
    BY <2>1, SumOfNone DEF Sum
  <2>2. CASE T \ {y} # {}
    BY <1>2, <1>4, <2>2
  <2>3. QED
    BY <2>1, <2>2
<1>8. QED
  BY <1>5, <1>6, <1>7

-----------------------------------------------------------------------------
(***************************************************************************)
(* The programs of SpmdOutput: the inductive invariant.  Once the kernel   *)
(* has been launched, a cell has been stored to by its hart and is on its  *)
(* way or in DDR, or it has not and holds what the host has put there.     *)
(***************************************************************************)
\* Hart h has stored to its cell x, and is done with it.
Put(h, x) == hart[h] = "idle" \/ x < next[h] \/ (x = next[h] /\ hart[h] = "publish")
Through(h, x) == hart[h] = "idle" \/ x < next[h]

Blank == [value |-> Prefill, by |-> 0]
Computed(h, x) == [value |-> Stored(h, x), by |-> round]

\* A cell that no hart has stored to holds what the host has put there.
Bare(x) == level[x] = "none" /\ (Prefilled /\ x \in Cells => ddr[x] = Blank)

\* One that hart h has stored to is on its way, or there; if the program writes
\* back to memory it is there once the hart is done with it.
Written(h, x) ==
  /\ above[x] = Computed(h, x)
  /\ level[x] = "none" => ddr[x] = above[x]
  /\ level[x] # "none" /\ Prefilled => ddr[x] = Blank
  /\ Through(h, x) /\ dest = 3 => level[x] = "none"

Owned(h, x) == x \in Mine(h) /\ Put(h, x) /\ Written(h, x)
Fresh(x) == \A h \in Harts : x \in Mine(h) => ~Put(h, x)

Contents ==
  host \in {"waiting", "passed", "failed"} =>
    \A x \in AllCells : (\E h \in Harts : Owned(h, x)) \/ (Fresh(x) /\ Bare(x))

ProgramFrame ==
  /\ <<program, present>> \in Setups
  /\ launched \subseteq present /\ launched # {}
  /\ program = "reduce" => launched = FirstShire
  /\ program = "reset_test" => launched = present
  /\ dest \in 1 .. 3 /\ (program # "cache_test" => dest = 3)
  /\ leftover \in {"right", "wrong"}

HostFrame ==
  /\ host \in {"start", "waiting", "refused", "passed", "failed", "error"}
  /\ round \in 1 .. Rounds
  /\ host \in {"waiting", "passed", "failed", "error"} => ~Refused
  /\ host \in {"start", "refused", "passed", "failed"} => \A h \in Harts : hart[h] = "idle"
  /\ host \in {"start", "refused", "passed"} => \A x \in AllCells : level[x] = "none"
  /\ host = "failed" => dest # 3

DeviceFrame ==
  /\ {ddr, above} \subseteq [AllCells -> [value : Int, by : 0 .. round]]
  /\ level \in [AllCells -> IF Tensor THEN {"none", "tensor"} ELSE {"none", "l1", "l2", "l3"}]
  /\ hart \in [Harts -> {"idle", "store", "publish"}]
  /\ next \in [Harts -> Nat]
  /\ \A h \in Harts : hart[h] # "idle" => next[h] \in Mine(h)
  /\ storers \in [AllCells -> SUBSET Harts]
  /\ \A x \in AllCells : \A h \in storers[x] : ~Refused /\ x \in Mine(h)

SpmdIInv == ProgramFrame /\ HostFrame /\ DeviceFrame /\ Contents /\ PassMeansWritten

-----------------------------------------------------------------------------
(***************************************************************************)
(* Products.                                                               *)
(***************************************************************************)
LEMMA ProductMonotone ==
  ASSUME NEW a \in Int, NEW b \in Int, NEW d \in Nat, a <= b
  PROVE  d * a <= d * b
OBVIOUS

LEMMA ProductRegrouped ==
  ASSUME NEW a \in Int, NEW b \in Int
  PROVE  (2 * a) * b = 2 * (a * b)
OBVIOUS

-----------------------------------------------------------------------------
(***************************************************************************)
(* The harts and their numbers.                                            *)
(***************************************************************************)
LEMMA Sizes ==
  /\ ShireMinions \in Nat \ {0} /\ MaskBits \in Nat \ {0} /\ HartsPerShire \in Nat \ {0}
  /\ HartsPerShire = 2 * ShireMinions /\ Elements \in Nat /\ Units \in Nat
BY SpmdAssumption DEF HartsPerShire

\* A hart's number is twice its Minion's, plus its place in the Minion.
LEMMA HartNumbers ==
  ASSUME NEW h \in Harts
  PROVE  /\ h \in Nat /\ ShireOf(h) \in 0 .. MaskBits - 1
         /\ MinionInShire(h) \in 0 .. ShireMinions - 1
         /\ Minion(h) \in Nat /\ Minion(h) = ShireMinions * ShireOf(h) + MinionInShire(h)
         /\ Minion(h) \div ShireMinions = ShireOf(h)
         /\ Primary(h) => h = 2 * Minion(h)
<1>1. PICK M \in Nat \ {0}, S \in Nat \ {0}, B \in Nat \ {0} :
        M = ShireMinions /\ S = HartsPerShire /\ B = MaskBits /\ S = 2 * M
  BY Sizes
<1>2. h \in Nat /\ h < B * S
  BY <1>1 DEF Harts
<1>3. PICK s \in Int, r \in 0 .. S - 1 : s = h \div S /\ r = h % S /\ h = S * s + r
  <2>1. h \div S \in Int /\ h % S \in 0 .. S - 1 /\ h = S * (h \div S) + (h % S)
    BY <1>2, Quotient
  <2>2. QED
    BY <2>1
<1>4. PICK b \in Int, p \in 0 .. 1 : b = r \div 2 /\ p = r % 2 /\ r = 2 * b + p
  <2>1. r \div 2 \in Int /\ r % 2 \in 0 .. 2 - 1 /\ r = 2 * (r \div 2) + (r % 2)
    BY Quotient
  <2>2. QED
    BY <2>1
<1>5. s >= 0 /\ s < B
  <2>1. ASSUME s < 0 PROVE FALSE
    <3>1. S * s <= S * (0 - 1)
      BY <2>1, ProductMonotone
    <3>2. QED
      BY <1>2, <1>3, <3>1
  <2>2. ASSUME s >= B PROVE FALSE
    <3>1. S * B <= S * s
      BY <2>2, ProductMonotone
    <3>2. QED
      BY <1>2, <1>3, <3>1
  <2>3. QED
    BY <1>1, <1>3, <2>1, <2>2
<1>6. b \in 0 .. M - 1
  BY <1>1, <1>3, <1>4
<1>7. ShireOf(h) = s /\ MinionInShire(h) = b
  BY <1>1, <1>3, <1>4 DEF ShireOf, MinionInShire
<1>8. s * M = M * s /\ M * s \in Nat
  BY <1>1, <1>3, <1>5
<1>9. Minion(h) = M * s + b /\ M * s + b \in Nat
  BY <1>1, <1>6, <1>7, <1>8 DEF Minion
<1>10. (M * s + b) \div M = s
  BY <1>1, <1>3, <1>6, QuotientUnique
<1>11. h = 2 * (M * s + b) + p
  <2>1. S * s = 2 * (M * s)
    BY <1>1, ProductRegrouped
  <2>2. QED
    BY <1>3, <1>4, <1>6, <1>8, <2>1
<1>12. h % 2 = p
  BY <1>4, <1>9, <1>11, QuotientUnique
<1>13. Primary(h) => h = 2 * Minion(h)
  BY <1>4, <1>9, <1>11, <1>12 DEF Primary
<1>14. ShireOf(h) \in 0 .. MaskBits - 1 /\ MinionInShire(h) \in 0 .. ShireMinions - 1
  BY <1>1, <1>3, <1>5, <1>6, <1>7
<1>15. QED
  BY <1>1, <1>2, <1>7, <1>9, <1>10, <1>13, <1>14

LEMMA HartOfMinion ==
  ASSUME NEW s \in 0 .. MaskBits - 1, NEW b \in 0 .. ShireMinions - 1
  PROVE  LET m == ShireMinions * s + b
         IN  m \in Nat /\ 2 * m \in Harts /\ Primary(2 * m) /\ Minion(2 * m) = m
             /\ ShireOf(2 * m) = s /\ MinionInShire(2 * m) = b
<1>1. PICK M \in Nat \ {0}, S \in Nat \ {0}, B \in Nat \ {0} :
        M = ShireMinions /\ S = HartsPerShire /\ B = MaskBits /\ S = 2 * M
  BY Sizes
<1>2. PICK m \in Nat : m = M * s + b
  <2>1. M * s \in Nat
    BY <1>1
  <2>2. QED
    BY <1>1, <2>1
<1>3. 2 * m = S * s + 2 * b /\ 2 * b \in 0 .. S - 1
  <2>1. S * s = 2 * (M * s)
    BY <1>1, ProductRegrouped
  <2>2. QED
    BY <1>1, <1>2, <2>1
<1>4. (2 * m) \div S = s /\ (2 * m) % S = 2 * b
  <2>1. PICK e \in 0 .. S - 1 : e = 2 * b
    BY <1>3
  <2>2. s \in Int
    BY <1>1
  <2>3. (S * s + e) \div S = s /\ (S * s + e) % S = e
    BY <2>2, QuotientUnique
  <2>4. QED
    BY <1>3, <2>1, <2>3
<1>5. (2 * b + 0) \div 2 = b /\ (2 * m + 0) % 2 = 0
  BY QuotientUnique
<1>6. ShireOf(2 * m) = s /\ MinionInShire(2 * m) = b /\ Primary(2 * m)
  BY <1>1, <1>4, <1>5 DEF ShireOf, MinionInShire, Primary
<1>7. s * M = M * s
  BY <1>1
<1>8. Minion(2 * m) = m
  BY <1>1, <1>2, <1>6, <1>7 DEF Minion
<1>9. 2 * m < B * S
  <2>1. S * s <= S * (B - 1)
    BY <1>1
  <2>2. S * (B - 1) = B * S - S
    BY <1>1
  <2>3. QED
    BY <1>1, <1>3, <2>1, <2>2
<1>10. 2 * m \in Harts
  BY <1>1, <1>2, <1>9 DEF Harts
<1>11. QED
  BY <1>1, <1>2, <1>6, <1>8, <1>10

\* The Minion of a shire with a given number.
LEMMA MinionNumbers ==
  ASSUME NEW m \in Nat, m \div ShireMinions \in 0 .. MaskBits - 1
  PROVE  2 * m \in Harts /\ Primary(2 * m) /\ Minion(2 * m) = m /\ ShireOf(2 * m) = m \div ShireMinions
<1>1. PICK s \in 0 .. MaskBits - 1, b \in 0 .. ShireMinions - 1 :
        s = m \div ShireMinions /\ m = ShireMinions * s + b
  <2>1. /\ m % ShireMinions \in 0 .. ShireMinions - 1
        /\ m = ShireMinions * (m \div ShireMinions) + (m % ShireMinions)
    BY Sizes, Quotient
  <2>2. QED
    BY <2>1
<1>2. QED
  BY <1>1, HartOfMinion

\* The smallest number of a set, and the largest.
LEMMA MinIsLeast ==
  ASSUME NEW S \in SUBSET Nat, S # {}
  PROVE  Min(S) \in S /\ \A x \in S : Min(S) <= x
<1>1. PICK k \in S : TRUE
  OBVIOUS
<1> DEFINE Family == {0 .. n : n \in {x \in S : x <= k}}
           All == 0 .. k
<1>2. IsFiniteSet(All) /\ Family \in SUBSET SUBSET All /\ Family # {}
  <2>1. IsFiniteSet(0 .. k)
    BY FS_Interval
  <2>2. \A T \in Family : T \subseteq All
    OBVIOUS
  <2>3. QED
    BY <2>1, <2>2
<1>3. PICK T \in Family : \A U \in SUBSET T : U \in Family => U = T
  <2> HIDE DEF Family, All
  <2>1. QED
    BY <1>2, SmallestSet
<1>4. PICK n \in S : n <= k /\ T = 0 .. n
  OBVIOUS
<1>5. ASSUME NEW x \in S, x < n PROVE FALSE
  <2>1. 0 .. x \in Family /\ 0 .. x \in SUBSET T
    BY <1>4, <1>5
  <2>2. 0 .. x = 0 .. n
    BY <1>3, <1>4, <2>1
  <2>3. n \in 0 .. n /\ n \notin 0 .. x
    BY <1>5
  <2>4. QED
    BY <2>2, <2>3
<1>6. \A x \in S : n <= x
  BY <1>5
<1>7. QED
  BY <1>6 DEF Min

LEMMA MaxIsGreatest ==
  ASSUME NEW k \in Nat, NEW S \in SUBSET (0 .. k), S # {}
  PROVE  Max(S) \in S /\ \A x \in S : x <= Max(S)
<1> DEFINE Family == {x .. k : x \in S}
           All == 0 .. k
<1>2. IsFiniteSet(All) /\ Family \in SUBSET SUBSET All /\ Family # {}
  <2>1. IsFiniteSet(0 .. k)
    BY FS_Interval
  <2>2. \A T \in Family : T \subseteq All
    OBVIOUS
  <2>3. QED
    BY <2>1, <2>2
<1>3. PICK T \in Family : \A U \in SUBSET T : U \in Family => U = T
  <2> HIDE DEF Family, All
  <2>1. QED
    BY <1>2, SmallestSet
<1>4. PICK n \in S : T = n .. k
  OBVIOUS
<1>5. ASSUME NEW x \in S, x > n PROVE FALSE
  <2>1. x .. k \in Family /\ x .. k \in SUBSET T
    BY <1>4, <1>5
  <2>2. x .. k = n .. k
    BY <1>3, <1>4, <2>1
  <2>3. n \in n .. k /\ n \notin x .. k
    BY <1>5
  <2>4. QED
    BY <2>2, <2>3
<1>6. \A x \in S : x <= n
  BY <1>5
<1>7. QED
  BY <1>6 DEF Max

-----------------------------------------------------------------------------
(***************************************************************************)
(* The cells: each has one hart that stores to it.                         *)
(***************************************************************************)
\* A cell is stored to by one hart, inside of the array, with what the host
\* expects; and every cell it expects something in is stored to.
Partitioned ==
  /\ NumCells \in Nat /\ NumCells <= MaxCells
  /\ \A g, h \in Harts : \A x : x \in Mine(g) /\ x \in Mine(h) => g = h
  /\ \A h \in Harts : \A x \in Mine(h) : x \in Cells /\ LaunchedCell(x) /\ Stored(h, x) = Right(x)
  /\ \A x \in Cells : LaunchedCell(x) => \E h \in Harts : x \in Mine(h)

LEMMA LaunchedShires ==
  ASSUME ProgramFrame
  PROVE  /\ program \in Programs /\ launched # {} /\ IsFiniteSet(launched)
         /\ \A s \in launched : s \in 0 .. MaskBits - 1 /\ s < Extent(launched)
         /\ Extent(launched) \in 1 .. MaskBits
         /\ \E s \in launched : Extent(launched) = s + 1
         /\ NumShires(launched) \in 1 .. MaskBits
<1>1. PICK k \in Nat : k = MaskBits - 1
  BY Sizes
<1>2. program \in Programs /\ present \in SUBSET (0 .. k)
  BY <1>1, SpmdAssumption DEF ProgramFrame
<1>3. launched \in SUBSET (0 .. k) /\ launched # {}
  BY <1>2 DEF ProgramFrame
<1>4. Max(launched) \in launched /\ \A s \in launched : s <= Max(launched)
  BY <1>3, MaxIsGreatest
<1>5. PICK top \in launched : top = Max(launched)
  BY <1>4
<1>6. IsFiniteSet(0 .. k) /\ Cardinality(0 .. k) = k + 1
  BY FS_Interval
<1>7. IsFiniteSet(launched) /\ Cardinality(launched) <= k + 1
  BY <1>3, <1>6, FS_Subset
<1>8. Cardinality(launched) \in Nat /\ Cardinality(launched) # 0
  BY <1>3, <1>7, FS_CardinalityType, FS_EmptySet
<1>9. MaskBits = k + 1
  BY <1>1, Sizes
<1>10. Extent(launched) = top + 1
  BY <1>5 DEF Extent
<1>11. Extent(launched) \in 1 .. MaskBits /\ \A s \in launched : s < Extent(launched)
  BY <1>3, <1>4, <1>5, <1>9, <1>10
<1>12. NumShires(launched) \in 1 .. MaskBits
  BY <1>7, <1>8, <1>9 DEF NumShires
<1>13. QED
  BY <1>1, <1>2, <1>3, <1>7, <1>10, <1>11, <1>12

LEMMA CellsOfBound ==
  ASSUME ProgramFrame
  PROVE  /\ MinionCount \in Nat /\ MinionCount = ShireMinions * Extent(launched)
         /\ MinionCount <= ShireMinions * MaskBits
         /\ MaxCells \in Nat /\ 3 * (ShireMinions * MaskBits) <= MaxCells /\ Units <= MaxCells
<1>1. PICK M \in Nat \ {0}, B \in Nat \ {0}, E \in Nat :
        M = ShireMinions /\ B = MaskBits /\ E = Extent(launched) /\ E <= B
  BY Sizes, LaunchedShires
<1>2. M * E <= M * B
  BY <1>1, ProductMonotone
<1>3. E * M = M * E /\ M * E \in Nat /\ M * B \in Nat /\ 3 * B * M = 3 * (M * B)
  BY <1>1
<1>4. MinionCount = M * E
  BY <1>1, <1>3 DEF MinionCount
<1>5. PICK n \in Nat : n = 3 * (M * B) /\ n = 3 * MaskBits * ShireMinions
  BY <1>1, <1>3
<1>6. MaxCells = Max({n, Units}) /\ Units \in Nat
  BY <1>5, Sizes DEF MaxCells
<1>7. Max({n, Units}) \in Nat /\ n <= Max({n, Units}) /\ Units <= Max({n, Units})
  BY <1>6, MaxOfTwo
<1>8. QED
  BY <1>1, <1>2, <1>3, <1>4, <1>5, <1>6, <1>7

\* A Minion of a launched shire has a number below the count of Minions.
LEMMA MinionCounted ==
  ASSUME ProgramFrame, NEW h \in Harts, ShireOf(h) \in launched
  PROVE  Minion(h) \in 0 .. MinionCount - 1 /\ Minion(h) \div ShireMinions \in launched
<1>1. PICK M \in Nat \ {0}, E \in Nat, s \in Nat :
        M = ShireMinions /\ E = Extent(launched) /\ s = ShireOf(h) /\ s < E
  <2>1. ShireOf(h) \in Nat /\ ShireOf(h) < Extent(launched) /\ Extent(launched) \in Nat
    BY LaunchedShires
  <2>2. QED
    BY <2>1, Sizes
<1>2. PICK b \in 0 .. M - 1 : Minion(h) = M * s + b /\ Minion(h) \in Nat
  BY <1>1, HartNumbers
<1>3. M * (s + 1) <= M * E
  BY <1>1, ProductMonotone
<1>4. M * (s + 1) = M * s + M
  OBVIOUS
<1>5. M * s \in Nat /\ M * E \in Nat
  OBVIOUS
<1>6. Minion(h) < M * E
  BY <1>2, <1>3, <1>4, <1>5
<1>7. QED
  BY <1>1, <1>2, <1>6, CellsOfBound, HartNumbers

LEMMA MinionFound ==
  ASSUME ProgramFrame, NEW m \in Nat, m \div ShireMinions \in launched
  PROVE  /\ 2 * m \in Harts /\ Primary(2 * m) /\ Minion(2 * m) = m
         /\ ShireOf(2 * m) \in launched
BY LaunchedShires, MinionNumbers

LEMMA OneHartOfMinion ==
  ASSUME NEW g \in Harts, NEW h \in Harts, Primary(g), Primary(h), Minion(g) = Minion(h)
  PROVE  g = h
BY HartNumbers

\* simd_test, cache_test and double_buffer: a cell for every Minion.
LEMMA MinionsPartition ==
  ASSUME ProgramFrame, program \in {"simd_test", "cache_test", "double_buffer"}
  PROVE  Partitioned
<1>1. /\ ~Reduces /\ NumCells = MinionCount
      /\ \A x : Right(x) = x /\ (LaunchedCell(x) <=> x \div ShireMinions \in launched)
      /\ \A h, x : Stored(h, x) = Minion(h)
  BY DEF Reduces, NumCells, Right, LaunchedCell, Stored
<1>2. ASSUME NEW h \in Harts
      PROVE  Mine(h) = IF Primary(h) /\ ShireOf(h) \in launched THEN {Minion(h)} ELSE {}
  <2>1. CASE ShireOf(h) \notin launched
    BY <2>1 DEF Mine
  <2>2. CASE ShireOf(h) \in launched /\ ~Primary(h)
    BY <1>1, <2>2 DEF Mine, CellsOf
  <2>3. CASE ShireOf(h) \in launched /\ Primary(h)
    <3>1. Minion(h) < MinionCount /\ ShireOf(h) < Extent(launched)
      BY <2>3, MinionCounted, LaunchedShires, CellsOfBound
    <3>2. RowCells(h) = {Minion(h)} /\ MinionCells(h) = {Minion(h)}
      BY <3>1 DEF RowCells, MinionCells
    <3>3. CellsOf(h) = {Minion(h)}
      BY <1>1, <2>3, <3>2 DEF CellsOf
    <3>4. QED
      BY <2>3, <3>3 DEF Mine
  <2>4. QED
    BY <2>1, <2>2, <2>3
<1>3. NumCells \in Nat /\ NumCells <= MaxCells
  <2>1. PICK n \in Nat : n = ShireMinions * MaskBits
    BY Sizes
  <2>2. QED
    BY <1>1, <2>1, CellsOfBound
<1>4. \A g, h \in Harts : \A x : x \in Mine(g) /\ x \in Mine(h) => g = h
  BY <1>2, OneHartOfMinion
<1>5. ASSUME NEW h \in Harts, NEW x \in Mine(h)
      PROVE  x \in Cells /\ LaunchedCell(x) /\ Stored(h, x) = Right(x)
  <2>1. Primary(h) /\ ShireOf(h) \in launched /\ x = Minion(h)
    BY <1>2, <1>5
  <2>2. QED
    BY <1>1, <2>1, MinionCounted DEF Cells
<1>6. ASSUME NEW x \in Cells, LaunchedCell(x) PROVE \E h \in Harts : x \in Mine(h)
  <2>1. x \in Nat /\ x \div ShireMinions \in launched
    BY <1>1, <1>6 DEF Cells
  <2>2. 2 * x \in Harts /\ Primary(2 * x) /\ Minion(2 * x) = x /\ ShireOf(2 * x) \in launched
    BY <2>1, MinionFound
  <2>3. Mine(2 * x) = {x}
    BY <1>2, <2>2
  <2>4. QED
    BY <2>2, <2>3
<1>7. QED
  BY <1>3, <1>4, <1>5, <1>6 DEF Partitioned

\* tensor_ext_test: three cells for every Minion.
LEMMA SubtestsPartition ==
  ASSUME ProgramFrame, program = "tensor_ext_test"
  PROVE  Partitioned
<1>1. /\ ~Reduces /\ NumCells = 3 * MinionCount
      /\ \A x : Right(x) = x % 3
      /\ \A x : LaunchedCell(x) <=> (x \div 3) \div ShireMinions \in launched
      /\ \A h, x : Stored(h, x) = x % 3
  BY DEF Reduces, NumCells, Right, LaunchedCell, Stored
<1>2. ASSUME NEW h \in Harts
      PROVE  Mine(h) = IF Primary(h) /\ ShireOf(h) \in launched
                       THEN {3 * Minion(h) + t : t \in 0 .. 2} ELSE {}
  <2>1. CASE ShireOf(h) \notin launched
    BY <2>1 DEF Mine
  <2>2. CASE ShireOf(h) \in launched /\ ~Primary(h)
    BY <1>1, <2>2 DEF Mine, CellsOf
  <2>3. CASE ShireOf(h) \in launched /\ Primary(h)
    <3>1. Minion(h) < MinionCount
      BY <2>3, MinionCounted, CellsOfBound
    <3>2. SubtestCells(h) = {3 * Minion(h) + t : t \in 0 .. 2}
      BY <3>1 DEF SubtestCells
    <3>3. CellsOf(h) = SubtestCells(h)
      BY <1>1, <2>3 DEF CellsOf
    <3>4. QED
      BY <2>3, <3>2, <3>3 DEF Mine
  <2>4. QED
    BY <2>1, <2>2, <2>3
<1>3. NumCells \in Nat /\ NumCells <= MaxCells
  <2>1. PICK n \in Nat : n = ShireMinions * MaskBits
    BY Sizes
  <2>2. QED
    BY <1>1, <2>1, CellsOfBound
<1>4. ASSUME NEW h \in Harts, NEW x \in Mine(h)
      PROVE  /\ Primary(h) /\ ShireOf(h) \in launched
             /\ x \in Nat /\ x < 3 * MinionCount /\ x \div 3 = Minion(h)
  <2>1. Primary(h) /\ ShireOf(h) \in launched /\ x \in {3 * Minion(h) + t : t \in 0 .. 2}
    BY <1>2, <1>4
  <2>2. PICK m \in Nat, n \in Nat : m = Minion(h) /\ n = MinionCount /\ m < n
    BY <2>1, MinionCounted, CellsOfBound
  <2>3. PICK t \in 0 .. 2 : x = 3 * m + t
    BY <2>1, <2>2
  <2>4. (3 * m + t) \div 3 = m
    BY QuotientUnique
  <2>5. x \in Nat /\ x < 3 * n
    BY <2>2, <2>3
  <2>6. QED
    BY <2>1, <2>2, <2>3, <2>4, <2>5
<1>5. \A g, h \in Harts : \A x : x \in Mine(g) /\ x \in Mine(h) => g = h
  BY <1>4, OneHartOfMinion
<1>6. ASSUME NEW h \in Harts, NEW x \in Mine(h)
      PROVE  x \in Cells /\ LaunchedCell(x) /\ Stored(h, x) = Right(x)
  <2>1. x \in Cells
    BY <1>1, <1>3, <1>4 DEF Cells
  <2>2. (x \div 3) \div ShireMinions \in launched
    BY <1>4, MinionCounted
  <2>3. QED
    BY <1>1, <2>1, <2>2
<1>7. ASSUME NEW x \in Cells, LaunchedCell(x) PROVE \E h \in Harts : x \in Mine(h)
  <2>1. x \in Nat /\ (x \div 3) \div ShireMinions \in launched
    BY <1>1, <1>3, <1>7 DEF Cells
  <2>2. x \div 3 \in Int /\ x % 3 \in 0 .. 3 - 1 /\ x = 3 * (x \div 3) + (x % 3)
    BY <2>1, Quotient
  <2>3. PICK m \in Nat, t \in 0 .. 2 : m = x \div 3 /\ t = x % 3 /\ x = 3 * m + t
    BY <2>1, <2>2
  <2>4. 2 * m \in Harts /\ Primary(2 * m) /\ Minion(2 * m) = m /\ ShireOf(2 * m) \in launched
    BY <2>1, <2>3, MinionFound
  <2>5. Mine(2 * m) = {3 * m + r : r \in 0 .. 2}
    BY <1>2, <2>4
  <2>6. QED
    BY <2>3, <2>4, <2>5
<1>8. QED
  BY <1>3, <1>5, <1>6, <1>7 DEF Partitioned

\* The launched shires below shire s.
Below(s) == Cardinality({t \in launched : t < s})

\* Counting them numbers the launched shires without gaps.
LEMMA Ranks ==
  ASSUME ProgramFrame
  PROVE  /\ \A s \in launched : Below(s) \in 0 .. NumShires(launched) - 1
         /\ \A s, t \in launched : Below(s) = Below(t) => s = t
         /\ \A k \in 0 .. NumShires(launched) - 1 : \E s \in launched : Below(s) = k
<1>1. IsFiniteSet(launched) /\ \A s \in launched : s \in Nat
  BY LaunchedShires
<1>2. PICK n \in Nat \ {0} : n = NumShires(launched) /\ n = Cardinality(launched)
  BY LaunchedShires DEF NumShires
<1>3. ASSUME NEW s \in launched
      PROVE  /\ IsFiniteSet({t \in launched : t < s}) /\ Below(s) \in 0 .. n - 1
  <2>1. IsFiniteSet(launched \ {s}) /\ Cardinality(launched \ {s}) = n - 1
    BY <1>1, <1>2, FS_RemoveElement
  <2>2. {t \in launched : t < s} \in SUBSET (launched \ {s})
    BY <1>1
  <2>3. IsFiniteSet({t \in launched : t < s}) /\ Below(s) <= n - 1
    BY <2>1, <2>2, FS_Subset DEF Below
  <2>4. Below(s) \in Nat
    BY <2>3, FS_CardinalityType DEF Below
  <2>5. QED
    BY <2>3, <2>4
<1>4. ASSUME NEW s \in launched, NEW t \in launched, s < t PROVE Below(s) < Below(t)
  <2> DEFINE S == {u \in launched : u < s}
             T == {u \in launched : u < t}
  <2>1. IsFiniteSet(S) /\ IsFiniteSet(T) /\ Cardinality(S) \in Nat /\ Cardinality(T) \in Nat
    BY <1>3, FS_CardinalityType
  <2>2. S \cup {s} \in SUBSET T /\ s \notin S
    BY <1>1, <1>4
  <2> HIDE DEF S, T
  <2>3. Cardinality(S \cup {s}) = Cardinality(S) + 1
    BY <2>1, <2>2, FS_AddElement
  <2>4. Cardinality(S \cup {s}) <= Cardinality(T)
    BY <2>1, <2>2, FS_Subset
  <2>5. Cardinality(S) < Cardinality(T)
    BY <2>1, <2>3, <2>4
  <2>6. QED
    BY <2>5 DEF Below, S, T
<1>5. ASSUME NEW s \in launched, NEW t \in launched, Below(s) = Below(t) PROVE s = t
  <2>1. s \in Nat /\ t \in Nat
    BY <1>1
  <2>2. Below(s) \in 0 .. n - 1
    BY <1>3
  <2>3. ~ (s < t) /\ ~ (t < s)
    BY <1>4, <1>5, <2>2
  <2>4. QED
    BY <2>1, <2>3
<1>6. ASSUME NEW k \in 0 .. n - 1 PROVE \E s \in launched : Below(s) = k
  <2> DEFINE f == [s \in launched |-> Below(s)]
             T == 0 .. n - 1
  <2>1. f \in Injection(launched, T)
    BY <1>3, <1>5 DEF Injection, IsInjective
  <2>2. IsFiniteSet(T) /\ Cardinality(T) = n
    BY FS_Interval
  <2>3. f \in Surjection(launched, T)
    <3> HIDE DEF f, T
    <3>1. QED
      BY <1>2, <2>1, <2>2, FS_Injection
  <2>4. QED
    BY <2>3 DEF Surjection
<1>7. QED
  BY <1>2, <1>3, <1>5, <1>6

\* A unit belongs to the Minion whose rank is the remainder.
LEMMA UnitOfRank ==
  ASSUME NEW T \in Nat \ {0}, NEW r \in 0 .. T - 1, NEW u \in Nat
  PROVE  u >= r /\ (u - r) % T = 0 <=> u % T = r
<1>1. PICK q \in Int, e \in 0 .. T - 1 : q = u \div T /\ e = u % T /\ u = T * q + e
  <2>1. u \div T \in Int /\ u % T \in 0 .. T - 1 /\ u = T * (u \div T) + (u % T)
    BY Quotient
  <2>2. QED
    BY <2>1
<1>2. T * q >= 0
  <2>1. ASSUME q < 0 PROVE FALSE
    <3>1. T * q <= T * (0 - 1)
      BY <2>1, ProductMonotone
    <3>2. QED
      BY <1>1, <3>1
  <2>2. T * 0 <= T * q
    BY <2>1, ProductMonotone
  <2>3. QED
    BY <2>2
<1>3. ASSUME e = r PROVE u >= r /\ (u - r) % T = 0
  <2>1. (T * q + 0) % T = 0
    BY QuotientUnique
  <2>2. u - r = T * q + 0 /\ u >= r
    BY <1>1, <1>2, <1>3
  <2>3. QED
    BY <2>1, <2>2
<1>4. ASSUME u >= r, (u - r) % T = 0 PROVE e = r
  <2>1. PICK d \in Nat : d = u - r
    BY <1>4
  <2>2. d \div T \in Int /\ d = T * (d \div T) + (d % T)
    BY <2>1, Quotient
  <2>3. PICK p \in Int : d = T * p
    BY <1>4, <2>1, <2>2
  <2>4. (T * p + r) % T = r
    BY QuotientUnique
  <2>5. u = T * p + r
    BY <2>1, <2>3
  <2>6. QED
    BY <1>1, <2>4, <2>5
<1>5. QED
  BY <1>1, <1>3, <1>4

LEMMA RankTyped ==
  ASSUME ProgramFrame, NEW h \in Harts, ShireOf(h) \in launched
  PROVE  /\ NumShires(launched) * ShireMinions \in Nat \ {0}
         /\ Rank(h) \in 0 .. NumShires(launched) * ShireMinions - 1
         /\ Rank(h) = ShireMinions * Below(ShireOf(h)) + MinionInShire(h)
<1>1. PICK M \in Nat \ {0}, n \in Nat \ {0} : M = ShireMinions /\ n = NumShires(launched)
  BY Sizes, LaunchedShires
<1>2. PICK k \in Nat, b \in Nat :
        k = Below(ShireOf(h)) /\ b = MinionInShire(h) /\ k <= n - 1 /\ b < M
  <2>1. Below(ShireOf(h)) \in 0 .. n - 1 /\ MinionInShire(h) \in 0 .. M - 1
    BY <1>1, Ranks, HartNumbers
  <2>2. QED
    BY <2>1
<1>3. M * k <= M * (n - 1)
  BY <1>2, ProductMonotone
<1>4. M * (n - 1) = n * M - M /\ k * M = M * k /\ M * k \in Nat /\ n * M \in Nat \ {0}
  OBVIOUS
<1>5. Rank(h) = M * k + b
  BY <1>1, <1>2, <1>4 DEF Rank, Below
<1>6. M * k + b \in 0 .. n * M - 1
  BY <1>2, <1>3, <1>4
<1>7. QED
  BY <1>1, <1>2, <1>4, <1>5, <1>6

\* ps_math_test: the units dealt out to the launched Minions.
LEMMA UnitsPartition ==
  ASSUME ProgramFrame, program = "ps_math_test"
  PROVE  Partitioned
<1> DEFINE T == NumShires(launched) * ShireMinions
<1>1. /\ ~Reduces /\ NumCells = Units
      /\ \A x : Right(x) = x /\ LaunchedCell(x)
      /\ \A h, x : Stored(h, x) = x
  BY DEF Reduces, NumCells, Right, LaunchedCell, Stored
<1>2. Cells = 0 .. Units - 1 /\ Units \in Nat /\ Units <= MaxCells
  BY <1>1, Sizes, CellsOfBound DEF Cells
<1>3. ASSUME NEW h \in Harts, Primary(h), ShireOf(h) \in launched
      PROVE  \A u : u \in Mine(h) <=> u \in Cells /\ u % T = Rank(h)
  <2>1. T \in Nat \ {0} /\ Rank(h) \in 0 .. T - 1
    BY <1>3, RankTyped
  <2>2. Mine(h) = UnitCells(h)
    BY <1>1, <1>3 DEF Mine, CellsOf
  <2>3. \A u \in Nat : u >= Rank(h) /\ (u - Rank(h)) % T = 0 <=> u % T = Rank(h)
    <3> HIDE DEF T
    <3>1. QED
      BY <2>1, UnitOfRank
  <2>4. UnitCells(h) = {u \in Cells : u >= Rank(h) /\ (u - Rank(h)) % T = 0}
    BY <1>2 DEF UnitCells
  <2>5. \A u \in Cells : u \in Nat
    BY <1>2
  <2> HIDE DEF T
  <2>6. QED
    BY <2>2, <2>3, <2>4, <2>5
<1>4. ASSUME NEW h \in Harts, ~ (Primary(h) /\ ShireOf(h) \in launched)
      PROVE  Mine(h) = {}
  BY <1>1, <1>4 DEF Mine, CellsOf
<1>5. ASSUME NEW g \in Harts, NEW h \in Harts, NEW x, x \in Mine(g), x \in Mine(h)
      PROVE  g = h
  <2>1. /\ Primary(g) /\ ShireOf(g) \in launched
        /\ Primary(h) /\ ShireOf(h) \in launched
    BY <1>4, <1>5
  <2>2. Rank(g) = Rank(h)
    BY <1>3, <1>5, <2>1
  <2>3. PICK M \in Nat \ {0}, j \in Int, k \in Int, a \in 0 .. ShireMinions - 1, b \in 0 .. ShireMinions - 1 :
          /\ M = ShireMinions /\ j = Below(ShireOf(g)) /\ k = Below(ShireOf(h))
          /\ a = MinionInShire(g) /\ b = MinionInShire(h)
    <3>1. Below(ShireOf(g)) \in Int /\ Below(ShireOf(h)) \in Int
      BY <2>1, Ranks
    <3>2. QED
      BY <3>1, Sizes, HartNumbers
  <2>4. M * j + a = M * k + b
    BY <2>1, <2>2, <2>3, RankTyped
  <2>5. a \in 0 .. M - 1 /\ b \in 0 .. M - 1
    BY <2>3
  <2>6. (M * j + a) \div M = j /\ (M * k + b) \div M = k
    BY <2>5, QuotientUnique
  <2>7. (M * j + a) % M = a /\ (M * k + b) % M = b
    BY <2>5, QuotientUnique
  <2>8. j = k /\ a = b
    BY <2>4, <2>6, <2>7
  <2>9. ShireOf(g) = ShireOf(h)
    BY <2>1, <2>3, <2>8, Ranks
  <2>10. Minion(g) = Minion(h)
    BY <2>3, <2>8, <2>9, HartNumbers
  <2>11. QED
    BY <2>1, <2>10, OneHartOfMinion
<1>6. ASSUME NEW h \in Harts, NEW x \in Mine(h)
      PROVE  x \in Cells /\ LaunchedCell(x) /\ Stored(h, x) = Right(x)
  <2>1. Primary(h) /\ ShireOf(h) \in launched
    BY <1>4, <1>6
  <2>2. QED
    BY <1>1, <1>3, <1>6, <2>1
<1>7. ASSUME NEW x \in Cells PROVE \E h \in Harts : x \in Mine(h)
  <2>1. PICK M \in Nat \ {0}, n \in Nat \ {0} :
          M = ShireMinions /\ n = NumShires(launched) /\ n * M \in Nat \ {0} /\ T = n * M
    <3>1. PICK M \in Nat \ {0}, n \in Nat \ {0} : M = ShireMinions /\ n = NumShires(launched)
      BY Sizes, LaunchedShires
    <3>2. n * M \in Nat \ {0}
      OBVIOUS
    <3>3. QED
      BY <3>1, <3>2
  <2>2. PICK r \in 0 .. n * M - 1 : r = x % T
    <3>1. PICK N \in Nat \ {0} : N = n * M /\ N = T
      BY <2>1
    <3>2. x \in Int
      BY <1>2
    <3>3. x % N \in 0 .. N - 1
      BY <3>2, Quotient
    <3>4. QED
      BY <3>1, <3>3
  <2>3. PICK k \in Int, b \in 0 .. M - 1 : r = M * k + b
    <3>1. r \in Int
      BY <2>1
    <3>2. r \div M \in Int /\ r % M \in 0 .. M - 1 /\ r = M * (r \div M) + (r % M)
      BY <3>1, Quotient
    <3>3. QED
      BY <3>2
  <2>4. k \in 0 .. n - 1
    <3>1. ASSUME k < 0 PROVE FALSE
      <4>1. M * k <= M * (0 - 1)
        BY <3>1, ProductMonotone
      <4>2. QED
        BY <2>2, <2>3, <4>1
    <3>2. ASSUME k >= n PROVE FALSE
      <4>1. M * n <= M * k
        BY <3>2, ProductMonotone
      <4>2. M * n = n * M
        OBVIOUS
      <4>3. QED
        BY <2>2, <2>3, <4>1, <4>2
    <3>3. QED
      BY <3>1, <3>2
  <2>5. PICK s \in launched : Below(s) = k
    BY <2>1, <2>4, Ranks
  <2>6. s \in 0 .. MaskBits - 1 /\ b \in 0 .. ShireMinions - 1
    BY <2>1, LaunchedShires
  <2>7. PICK h \in Harts : Primary(h) /\ ShireOf(h) = s /\ MinionInShire(h) = b
    BY <2>6, HartOfMinion
  <2>8. Rank(h) = r
    BY <2>1, <2>3, <2>5, <2>7, RankTyped
  <2>9. QED
    BY <1>3, <1>7, <2>2, <2>7, <2>8
<1>8. QED
  BY <1>1, <1>2, <1>5, <1>6, <1>7 DEF Partitioned

\* The reductions are launched on the first shires, and on all of their harts.
LEMMA ReductionLaunched ==
  ASSUME ProgramFrame, Reduces, ~Refused
  PROVE  /\ launched = 0 .. NumShires(launched) - 1
         /\ GridHarts = NumShires(launched) * HartsPerShire
<1>1. CASE program = "reduce"
  <2>1. launched = {0} /\ GridHarts = HartsPerShire
    BY <1>1 DEF Refused, GridHarts
  <2>2. NumShires(launched) = 1
    BY <2>1, FS_Singleton DEF NumShires
  <2>3. {0} = 0 .. 1 - 1 /\ HartsPerShire = 1 * HartsPerShire
    BY Sizes
  <2>4. QED
    BY <2>1, <2>2, <2>3
<1>2. CASE program = "reset_test"
  <2>1. <<program, present>> \in Setups /\ launched = present
    BY <1>2 DEF ProgramFrame
  <2>2. present = 0 .. Cardinality(present) - 1
    BY <1>2, <2>1, NoGapInResetTest
  <2>3. GridHarts = NumHarts(launched)
    BY <1>2 DEF GridHarts
  <2>4. QED
    BY <2>1, <2>2, <2>3 DEF NumShires, NumHarts
<1>3. QED
  BY <1>1, <1>2 DEF Reduces

LEMMA ReductionGrid ==
  ASSUME ProgramFrame, Reduces, ~Refused
  PROVE  /\ GridHarts \in Nat \ {0} /\ GridHarts <= MaxCells
         /\ \A x \in 0 .. GridHarts - 1 : x \in Harts /\ ShireOf(x) \in launched
<1>1. PICK M \in Nat \ {0}, S \in Nat \ {0}, B \in Nat \ {0}, n \in Nat \ {0} :
        /\ M = ShireMinions /\ S = HartsPerShire /\ B = MaskBits /\ n = NumShires(launched)
        /\ S = 2 * M /\ n <= B
  <2>1. NumShires(launched) \in Nat \ {0} /\ NumShires(launched) <= MaskBits
    BY LaunchedShires, Sizes
  <2>2. QED
    BY <2>1, Sizes
<1>2. GridHarts = n * S /\ launched = 0 .. n - 1
  BY <1>1, ReductionLaunched
<1>3. S * n <= S * B /\ S * n = n * S /\ S * B = B * S /\ S * n \in Nat \ {0} /\ S * B \in Nat
  BY <1>1, ProductMonotone
<1>4. S * B = 2 * (M * B) /\ M * B \in Nat
  BY <1>1, ProductRegrouped
<1>5. MaxCells \in Nat /\ 3 * (M * B) <= MaxCells
  BY <1>1, CellsOfBound
<1>6. n * S <= MaxCells
  BY <1>3, <1>4, <1>5
<1>7. ASSUME NEW x \in 0 .. n * S - 1 PROVE x \in Harts /\ ShireOf(x) \in launched
  <2>1. x \in Nat /\ x < n * S /\ x < B * S
    BY <1>3, <1>7
  <2>2. x \in Harts
    BY <1>1, <1>3, <2>1 DEF Harts
  <2>3. PICK q \in Int, r \in 0 .. S - 1 : q = x \div S /\ x = S * q + r
    <3>1. x \div S \in Int /\ x % S \in 0 .. S - 1 /\ x = S * (x \div S) + (x % S)
      BY <2>1, Quotient
    <3>2. QED
      BY <3>1
  <2>4. q >= 0
    <3>1. ShireOf(x) \in 0 .. MaskBits - 1
      BY <2>2, HartNumbers
    <3>2. ShireOf(x) = q
      BY <1>1, <2>3 DEF ShireOf
    <3>3. QED
      BY <3>1, <3>2
  <2>5. ASSUME q >= n PROVE FALSE
    <3>1. S * n <= S * q
      BY <2>5, ProductMonotone
    <3>2. QED
      BY <1>3, <2>1, <2>3, <3>1
  <2>6. q \in 0 .. n - 1
    BY <2>4, <2>5
  <2>7. QED
    BY <1>1, <1>2, <2>2, <2>3, <2>6 DEF ShireOf
<1>8. QED
  BY <1>2, <1>3, <1>6, <1>7

\* reduce and reset_test: a cell for every hart.
LEMMA ReductionsPartition ==
  ASSUME ProgramFrame, Reduces, ~Refused
  PROVE  Partitioned
<1>1. /\ NumCells = GridHarts
      /\ \A x : Right(x) = SumOf(Slice(x)) /\ LaunchedCell(x)
      /\ \A h, x : Stored(h, x) = SumOf(Slice(h))
  BY DEF Reduces, NumCells, Right, LaunchedCell, Stored
<1>2. GridHarts \in Nat \ {0} /\ GridHarts <= MaxCells /\ Cells = 0 .. GridHarts - 1
  BY <1>1, ReductionGrid DEF Cells
<1>3. \A h, x : x \in Mine(h) => x = h /\ ShireOf(h) \in launched /\ h < GridHarts
  BY DEF Mine, CellsOf, ReduceCells, Active
<1>4. \A h : ShireOf(h) \in launched /\ h < GridHarts => h \in Mine(h)
  BY DEF Mine, CellsOf, ReduceCells, Active
<1>5. ASSUME NEW h \in Harts, NEW x \in Mine(h)
      PROVE  x \in Cells /\ LaunchedCell(x) /\ Stored(h, x) = Right(x)
  <2>1. x = h /\ h < GridHarts /\ h \in Nat
    BY <1>3, <1>5, HartNumbers
  <2>2. h \in Cells
    BY <1>2, <2>1
  <2>3. QED
    BY <1>1, <2>1, <2>2
<1>6. ASSUME NEW x \in Cells PROVE \E h \in Harts : x \in Mine(h)
  <2>1. x \in Harts /\ ShireOf(x) \in launched
    BY <1>2, <1>6, ReductionGrid
  <2>2. x < GridHarts
    BY <1>2, <1>6
  <2>3. QED
    BY <1>4, <2>1, <2>2
<1>7. \A g, h \in Harts : \A x : x \in Mine(g) /\ x \in Mine(h) => g = h
  BY <1>3
<1>8. QED
  BY <1>1, <1>2, <1>5, <1>6, <1>7 DEF Partitioned

LEMMA AlwaysPartitioned ==
  ASSUME ProgramFrame, ~Refused
  PROVE  Partitioned
<1>1. program \in Programs
  BY LaunchedShires
<1>2. CASE Reduces
  BY <1>2, ReductionsPartition
<1>3. CASE program = "tensor_ext_test"
  BY <1>3, SubtestsPartition
<1>4. CASE program = "ps_math_test"
  BY <1>4, UnitsPartition
<1>5. CASE program \in {"simd_test", "cache_test", "double_buffer"}
  BY <1>5, MinionsPartition
<1>6. QED
  BY <1>1, <1>2, <1>3, <1>4, <1>5 DEF Programs, Reduces

-----------------------------------------------------------------------------
(***************************************************************************)
(* The sums.                                                               *)
(***************************************************************************)
LEMMA SumOfRange ==
  ASSUME NEW S, IsFiniteSet(S)
  PROVE  SumOf(S) = SumFunctionOnSet([i \in S |-> Element(i)], S)
BY DEF SumOf, SumFunction

\* Where a slice starts: after h whole ones, and an element of the remainder
\* for each of the first.
StartOf(base, rem, h) == h * base + (IF h <= rem THEN h ELSE rem)

LEMMA SliceBounds ==
  ASSUME NEW G \in Nat \ {0}, GridHarts = G, NEW h \in Nat
  PROVE  /\ Elements \div G \in Nat /\ Elements % G \in 0 .. G - 1
         /\ Elements = G * (Elements \div G) + (Elements % G)
         /\ Slice(h) = StartOf(Elements \div G, Elements % G, h) ..
                         StartOf(Elements \div G, Elements % G, h + 1) - 1
<1>1. Elements \in Nat
  BY Sizes
<1>2. Elements \div G \in Int /\ Elements % G \in 0 .. G - 1 /\ Elements = G * (Elements \div G) + (Elements % G)
  BY <1>1, Quotient
<1>3. PICK base \in Int, rem \in 0 .. G - 1 :
        base = Elements \div G /\ rem = Elements % G /\ Elements = G * base + rem
  BY <1>2
<1>4. base >= 0
  <2>1. ASSUME base < 0 PROVE FALSE
    <3>1. G * base <= G * (0 - 1)
      BY <2>1, ProductMonotone
    <3>2. QED
      BY <1>1, <1>3, <3>1
  <2>2. QED
    BY <2>1
<1>5. Min({h, rem}) = IF h <= rem THEN h ELSE rem
  BY MinOfTwo
<1>6. h * base \in Int /\ (h + 1) * base = h * base + base
  OBVIOUS
<1>7. StartOf(base, rem, h + 1) = h * base + Min({h, rem}) + base + (IF h < rem THEN 1 ELSE 0)
  BY <1>5, <1>6 DEF StartOf
<1>8. Slice(h) = StartOf(base, rem, h) .. StartOf(base, rem, h + 1) - 1
  <2>1. Slice(h) = h * base + Min({h, rem}) ..
                     h * base + Min({h, rem}) + base + (IF h < rem THEN 1 ELSE 0) - 1
    BY <1>3 DEF Slice
  <2>2. StartOf(base, rem, h) = h * base + Min({h, rem})
    BY <1>5 DEF StartOf
  <2>3. PICK p \in Int, m \in Int, i \in Int :
          p = h * base /\ m = Min({h, rem}) /\ i = IF h < rem THEN 1 ELSE 0
    BY <1>5, <1>6
  <2>4. Slice(h) = p + m .. p + m + base + i - 1
    BY <2>1, <2>3
  <2>5. StartOf(base, rem, h) = p + m /\ StartOf(base, rem, h + 1) = p + m + base + i
    BY <1>7, <2>2, <2>3
  <2>6. QED
    BY <2>4, <2>5
<1>9. QED
  BY <1>2, <1>3, <1>4, <1>8

\* The slices follow each other, from the first element to the last.
LEMMA StartsInOrder ==
  ASSUME NEW base \in Nat, NEW rem \in Nat, NEW g \in Nat, NEW h \in Nat, g <= h
  PROVE  /\ StartOf(base, rem, g) \in Nat /\ StartOf(base, rem, h) \in Nat
         /\ StartOf(base, rem, g) <= StartOf(base, rem, h)
<1>1. base * g <= base * h
  BY ProductMonotone
<1>2. base * g = g * base /\ base * h = h * base /\ g * base \in Nat /\ h * base \in Nat
  OBVIOUS
<1>3. QED
  BY <1>1, <1>2 DEF StartOf

LEMMA SlicesPartition ==
  ASSUME NEW G \in Nat \ {0}, GridHarts = G
  PROVE  /\ \A h \in 0 .. G - 1 : Slice(h) \subseteq 0 .. Elements - 1 /\ IsFiniteSet(Slice(h))
         /\ \A g, h \in 0 .. G - 1 : g # h => Slice(g) \cap Slice(h) = {}
         /\ UNION {Slice(h) : h \in 0 .. G - 1} = 0 .. Elements - 1
<1>1. PICK base \in Nat, rem \in 0 .. G - 1 :
        base = Elements \div G /\ rem = Elements % G /\ Elements = G * base + rem
  BY SliceBounds
<1> DEFINE At(h) == StartOf(base, rem, h)
<1>2. \A h \in Nat : Slice(h) = At(h) .. At(h + 1) - 1
  BY <1>1, SliceBounds
<1>3. \A g, h \in Nat : g <= h => At(g) \in Nat /\ At(h) \in Nat /\ At(g) <= At(h)
  BY StartsInOrder
<1>4. At(0) = 0 /\ At(G) = Elements
  <2>1. 0 * base = 0
    OBVIOUS
  <2>2. QED
    BY <1>1, <2>1 DEF StartOf
<1> HIDE DEF At
<1>5. \A h \in Nat : At(h) \in Nat
  BY <1>3
<1>6. ASSUME NEW h \in 0 .. G - 1
      PROVE  Slice(h) \subseteq 0 .. Elements - 1 /\ IsFiniteSet(Slice(h))
  <2>1. h \in Nat /\ h + 1 \in Nat /\ h + 1 <= G
    OBVIOUS
  <2>2. At(h) \in Nat /\ At(h + 1) \in Nat /\ At(h + 1) <= Elements
    BY <1>3, <1>4, <1>5, <2>1
  <2>3. Slice(h) = At(h) .. At(h + 1) - 1
    BY <1>2, <2>1
  <2>4. IsFiniteSet(At(h) .. At(h + 1) - 1)
    BY <2>2, FS_Interval
  <2>5. QED
    BY <2>2, <2>3, <2>4, Sizes
<1>7. ASSUME NEW g \in Nat, NEW h \in Nat, g < h PROVE Slice(g) \cap Slice(h) = {}
  <2>1. At(g + 1) <= At(h) /\ At(g + 1) \in Nat /\ At(h) \in Nat /\ At(g) \in Nat /\ At(h + 1) \in Nat
    BY <1>3, <1>5, <1>7
  <2>2. Slice(g) = At(g) .. At(g + 1) - 1 /\ Slice(h) = At(h) .. At(h + 1) - 1
    BY <1>2
  <2>3. QED
    BY <2>1, <2>2
<1>8. ASSUME NEW g \in 0 .. G - 1, NEW h \in 0 .. G - 1, g # h PROVE Slice(g) \cap Slice(h) = {}
  <2>1. g \in Nat /\ h \in Nat /\ (g < h \/ h < g)
    BY <1>8
  <2>2. QED
    BY <1>7, <2>1
<1>9. ASSUME NEW i \in 0 .. Elements - 1 PROVE \E h \in 0 .. G - 1 : i \in Slice(h)
  <2> DEFINE S == {h \in Nat : At(h) > i}
  <2>1. i \in Nat /\ i < Elements
    BY Sizes
  <2>2. S \in SUBSET Nat /\ G \in S
    BY <1>4, <2>1
  <2> HIDE DEF S
  <2>3. S # {}
    BY <2>2
  <2>4. PICK m \in S : \A x \in S : m <= x
    BY <2>2, <2>3, MinIsLeast
  <2>5. m \in Nat /\ At(m) > i /\ m <= G
    BY <2>2, <2>4 DEF S
  <2>6. m # 0
    BY <1>4, <2>1, <2>5
  <2>7. PICK h \in 0 .. G - 1 : h = m - 1
    BY <2>5, <2>6
  <2>8. h \in Nat /\ h + 1 = m
    BY <2>5, <2>7
  <2>9. At(h) <= i
    <3>1. h \notin S
      BY <2>4, <2>5, <2>7
    <3>2. ~ (At(h) > i)
      BY <2>8, <3>1 DEF S
    <3>3. QED
      BY <1>5, <2>1, <2>8, <3>2
  <2>10. Slice(h) = At(h) .. At(m) - 1
    BY <1>2, <2>8
  <2>11. i \in Slice(h)
    BY <1>5, <2>1, <2>5, <2>8, <2>9, <2>10
  <2>12. QED
    BY <2>11
<1>10. QED
  BY <1>6, <1>8, <1>9

LEMMA ElementTyped ==
  ASSUME NEW i \in Nat
  PROVE  Element(i) \in Nat /\ (program = "reduce" => Element(i) > 0)
BY DEF Element

LEMMA SliceSum ==
  ASSUME NEW S \in SUBSET (0 .. Elements - 1), IsFiniteSet(S)
  PROVE  /\ SumOf(S) \in Int
         /\ SumOf(S) = SumFunctionOnSet([i \in 0 .. Elements - 1 |-> Element(i)], S)
         /\ program = "reduce" /\ S # {} => SumOf(S) > 0
<1> DEFINE f == [i \in S |-> Element(i)]
           e == [i \in 0 .. Elements - 1 |-> Element(i)]
<1>1. \A i \in S : i \in Nat
  BY Sizes
<1>2. \A i \in S : f[i] \in Int /\ f[i] = e[i] /\ (program = "reduce" => f[i] > 0)
  BY <1>1, ElementTyped
<1>3. SumOf(S) = SumFunctionOnSet(f, S)
  BY SumOfRange
<1> HIDE DEF f, e
<1>4. SumFunctionOnSet(f, S) \in Int
  BY <1>2, SumTyped
<1>5. SumFunctionOnSet(f, S) = SumFunctionOnSet(e, S)
  BY <1>2, SumSame
<1>6. program = "reduce" /\ S # {} => SumFunctionOnSet(f, S) > 0
  BY <1>2, SumPositive
<1>7. QED
  BY <1>3, <1>4, <1>5, <1>6 DEF e

\* The harts' sums add up to the host's.
LEMMA SlicesSumUp ==
  ASSUME NEW G \in Nat \ {0}, GridHarts = G
  PROVE  SumFunction([x \in 0 .. G - 1 |-> SumOf(Slice(x))]) = Total
<1> DEFINE I == 0 .. G - 1
           P == [x \in I |-> Slice(x)]
           partial == [x \in I |-> SumOf(Slice(x))]
           e == [i \in 0 .. Elements - 1 |-> Element(i)]
<1>1. IsFiniteSet(I)
  BY FS_Interval
<1>2. \A i \in 0 .. Elements - 1 : e[i] \in Int
  <2>1. \A i \in 0 .. Elements - 1 : i \in Nat
    BY Sizes
  <2>2. QED
    BY <2>1, ElementTyped
<1>3. \A x \in I : IsFiniteSet(P[x]) /\ \A i \in P[x] : e[i] \in Int
  BY <1>2, SlicesPartition
<1>4. \A g, h \in I : g # h => P[g] \cap P[h] = {}
  BY SlicesPartition
<1>5. \A x \in I : partial[x] = SumFunctionOnSet(e, P[x])
  <2>1. \A x \in I : SumOf(Slice(x)) = SumFunctionOnSet(e, Slice(x))
    BY SlicesPartition, SliceSum
  <2> HIDE DEF e
  <2>2. QED
    BY <2>1
<1>6. Joined(P, I) = 0 .. Elements - 1
  <2>1. {P[x] : x \in I} = {Slice(x) : x \in I}
    OBVIOUS
  <2>2. QED
    BY <2>1, SlicesPartition DEF Joined
<1>7. SumFunction(partial) = SumFunctionOnSet(partial, I)
  BY DEF SumFunction
<1>8. Total = SumFunctionOnSet(e, 0 .. Elements - 1)
  <2>1. IsFiniteSet(0 .. Elements - 1)
    BY Sizes, FS_Interval
  <2>2. QED
    BY <2>1, SumOfRange DEF Total
<1> HIDE DEF I, P, partial, e
<1>9. SumFunctionOnSet(partial, I) = SumFunctionOnSet(e, Joined(P, I))
  BY <1>1, <1>3, <1>4, <1>5, SumOfParts
<1>10. SumFunction(partial) = Total
  BY <1>6, <1>7, <1>8, <1>9
<1>11. QED
  BY <1>10 DEF partial, I

-----------------------------------------------------------------------------
(***************************************************************************)
(* What the host expects, and when it finds it.                            *)
(***************************************************************************)
LEMMA ReductionSized ==
  ASSUME ProgramFrame, Reduces
  PROVE  GridHarts \in Nat \ {0} /\ NumCells = GridHarts /\ Cells = 0 .. GridHarts - 1
<1>1. NumCells = GridHarts
  BY DEF Reduces, NumCells
<1>2. PICK n \in Nat \ {0}, S \in Nat \ {0} : n = NumShires(launched) /\ S = HartsPerShire
  <2>1. NumShires(launched) \in Nat \ {0}
    BY LaunchedShires, Sizes
  <2>2. QED
    BY <2>1, Sizes
<1>3. n * S \in Nat \ {0}
  OBVIOUS
<1>4. GridHarts \in Nat \ {0}
  BY <1>2, <1>3 DEF GridHarts, NumHarts
<1>5. QED
  BY <1>1, <1>4 DEF Cells

\* Every hart of reduce has an element to sum.
LEMMA SliceNotEmpty ==
  ASSUME ProgramFrame, program = "reduce", NEW h \in 0 .. GridHarts - 1
  PROVE  Slice(h) # {}
<1>1. Reduces
  BY DEF Reduces
<1>2. PICK G \in Nat \ {0} : G = GridHarts /\ G <= Elements /\ Elements \in Nat
  <2>1. GridHarts = 2 * ShireMinions /\ GridHarts \in Nat \ {0}
    BY <1>1, ReductionSized, Sizes DEF GridHarts
  <2>2. QED
    BY <2>1, EnoughElements, Sizes
<1>3. h \in Nat
  BY <1>2
<1>4. PICK base \in Nat, rem \in 0 .. G - 1 :
        /\ base = Elements \div G /\ rem = Elements % G /\ Elements = G * base + rem
        /\ Slice(h) = StartOf(base, rem, h) .. StartOf(base, rem, h + 1) - 1
  <2>1. /\ Elements \div G \in Nat /\ Elements % G \in 0 .. G - 1
        /\ Elements = G * (Elements \div G) + (Elements % G)
        /\ Slice(h) = StartOf(Elements \div G, Elements % G, h) ..
                        StartOf(Elements \div G, Elements % G, h + 1) - 1
    BY <1>2, <1>3, SliceBounds
  <2>2. QED
    BY <2>1
<1>5. base # 0
  <2>1. G * 0 = 0
    OBVIOUS
  <2>2. QED
    BY <1>2, <1>4, <2>1
<1>6. PICK p \in Nat : p = h * base /\ (h + 1) * base = p + base
  <2>1. h * base \in Nat /\ (h + 1) * base = h * base + base
    BY <1>3
  <2>2. QED
    BY <2>1
<1>7. /\ StartOf(base, rem, h) \in Nat /\ StartOf(base, rem, h + 1) \in Nat
      /\ StartOf(base, rem, h) < StartOf(base, rem, h + 1)
  BY <1>3, <1>5, <1>6 DEF StartOf
<1>8. PICK a \in Nat, b \in Nat : a = StartOf(base, rem, h) /\ b = StartOf(base, rem, h + 1) /\ a < b
  BY <1>7
<1>9. a \in a .. b - 1
  BY <1>8
<1>10. QED
  BY <1>4, <1>8, <1>9

\* What the host expects is a number: positive in reduce, and never the
\* sentinel in the programs that compare every cell.
LEMMA RightTyped ==
  ASSUME ProgramFrame, NEW x \in Cells
  PROVE  /\ Right(x) \in Int
         /\ program = "reduce" => Right(x) > 0
         /\ ~Reduces => Right(x) # Sentinel
<1>1. CASE Reduces
  <2>1. PICK G \in Nat \ {0} : G = GridHarts
    BY <1>1, ReductionSized
  <2>2. x \in 0 .. G - 1
    BY <1>1, <2>1, ReductionSized
  <2>3. Slice(x) \in SUBSET (0 .. Elements - 1) /\ IsFiniteSet(Slice(x))
    BY <2>1, <2>2, SlicesPartition
  <2>4. program = "reduce" => Slice(x) # {}
    BY <2>1, <2>2, SliceNotEmpty
  <2>5. SumOf(Slice(x)) \in Int /\ (program = "reduce" => SumOf(Slice(x)) > 0)
    BY <2>3, <2>4, SliceSum
  <2>6. Right(x) = SumOf(Slice(x))
    BY <1>1 DEF Right, Reduces
  <2>7. QED
    BY <1>1, <2>5, <2>6
<1>2. CASE ~Reduces
  <2>1. NumCells \in Int => x \in Nat
    BY DEF Cells
  <2>2. NumCells \in Int
    <3>1. program \in Programs
      BY LaunchedShires
    <3>2. MinionCount \in Nat /\ Units \in Nat
      BY CellsOfBound, Sizes
    <3>3. QED
      BY <1>2, <3>1, <3>2 DEF NumCells, Programs
  <2>3. Right(x) = x \/ Right(x) = x % 3
    BY <1>2 DEF Right
  <2>4. x \in Nat /\ x % 3 \in Nat
    BY <2>1, <2>2
  <2>5. QED
    BY <1>2, <2>3, <2>4 DEF Sentinel, Reduces
<1>3. QED
  BY <1>1, <1>2

LEMMA CellsInArray ==
  ASSUME ProgramFrame, ~Refused
  PROVE  Cells \subseteq AllCells
<1>1. PICK n \in Nat, m \in Nat : n = NumCells /\ m = MaxCells /\ n <= m
  <2>1. NumCells \in Nat /\ NumCells <= MaxCells
    BY AlwaysPartitioned DEF Partitioned
  <2>2. MaxCells \in Nat
    BY CellsOfBound
  <2>3. QED
    BY <2>1, <2>2
<1>2. QED
  BY <1>1 DEF Cells, AllCells

\* What the harts store, and where.
LEMMA MineTyped ==
  ASSUME ProgramFrame, ~Refused, NEW h \in Harts, NEW x \in Mine(h)
  PROVE  /\ x \in Nat /\ x \in Cells /\ x \in AllCells /\ LaunchedCell(x)
         /\ Stored(h, x) = Right(x) /\ Stored(h, x) \in Int
<1>1. x \in Cells /\ LaunchedCell(x) /\ Stored(h, x) = Right(x) /\ NumCells \in Nat
  BY AlwaysPartitioned DEF Partitioned
<1>2. x \in Nat
  BY <1>1 DEF Cells
<1>3. Right(x) \in Int /\ x \in AllCells
  BY <1>1, RightTyped, CellsInArray
<1>4. QED
  BY <1>1, <1>2, <1>3

LEMMA OneOwner ==
  ASSUME ProgramFrame, ~Refused, NEW g \in Harts, NEW h \in Harts, NEW x \in Mine(g), x \in Mine(h)
  PROVE  g = h
BY AlwaysPartitioned DEF Partitioned

\* An array that holds what the host expects is verified.
LEMMA VerifiedWhenRight ==
  ASSUME ProgramFrame, ~Refused, NEW value,
         value = [x \in Cells |-> IF LaunchedCell(x) THEN Right(x) ELSE Sentinel]
  PROVE  Verified(value)
<1>1. CASE Reduces
  <2>1. PICK G \in Nat \ {0} : G = GridHarts /\ Cells = 0 .. G - 1
    BY <1>1, ReductionSized
  <2>2. \A x : LaunchedCell(x) /\ Right(x) = SumOf(Slice(x))
    BY <1>1 DEF Reduces, LaunchedCell, Right
  <2>3. value = [x \in 0 .. G - 1 |-> SumOf(Slice(x))]
    BY <2>1, <2>2
  <2>4. TotalRight(value)
    BY <2>1, <2>3, SlicesSumUp DEF TotalRight
  <2>5. ASSUME program = "reduce" PROVE AllContributed(value)
    <3>1. \A x \in Cells : Right(x) > 0 /\ value[x] = Right(x)
      BY <2>2, <2>5, RightTyped
    <3>2. \A x \in Cells : Right(x) \in Int
      BY RightTyped
    <3>3. QED
      BY <3>1, <3>2 DEF AllContributed
  <2>6. QED
    BY <1>1, <2>4, <2>5 DEF Verified, Reduces
<1>2. CASE ~Reduces
  <2>1. CellsRight(value)
    BY DEF CellsRight
  <2>2. program # "reduce" /\ program # "reset_test"
    BY <1>2 DEF Reduces
  <2>3. QED
    BY <2>1, <2>2 DEF Verified
<1>3. QED
  BY <1>1, <1>2

-----------------------------------------------------------------------------
(***************************************************************************)
(* What a step leaves alone.                                               *)
(***************************************************************************)
\* What only depends on the program and its setup stays what it is.
LEMMA Kept ==
  ASSUME UNCHANGED programVars
  PROVE  /\ program' = program /\ present' = present /\ launched' = launched
         /\ dest' = dest /\ leftover' = leftover
         /\ Cells' = Cells /\ (Refused <=> Refused') /\ (Prefilled <=> Prefilled')
         /\ Prefill' = Prefill /\ (Tensor <=> Tensor') /\ Rounds' = Rounds
         /\ \A h : Mine(h)' = Mine(h) /\ CellsOf(h)' = CellsOf(h)
         /\ \A x : Right(x)' = Right(x) /\ (LaunchedCell(x) <=> LaunchedCell(x)')
         /\ \A h, x : Stored(h, x)' = Stored(h, x)
<1>1. /\ program' = program /\ present' = present /\ launched' = launched
      /\ dest' = dest /\ leftover' = leftover
  BY DEF programVars
<1>2. GridHarts' = GridHarts /\ MinionCount' = MinionCount /\ (Reduces <=> Reduces')
  BY <1>1 DEF GridHarts, NumHarts, NumShires, MinionCount, Extent, Reduces
<1>3. NumCells' = NumCells
  BY <1>1, <1>2 DEF NumCells
<1>4. /\ Cells' = Cells /\ (Refused <=> Refused') /\ (Prefilled <=> Prefilled')
      /\ Prefill' = Prefill /\ (Tensor <=> Tensor') /\ Rounds' = Rounds
  BY <1>1, <1>3 DEF Cells, Refused, Prefilled, Prefill, Tensor, Rounds
<1>5. ASSUME NEW h PROVE Mine(h)' = Mine(h) /\ CellsOf(h)' = CellsOf(h)
  <2>1. Rank(h)' = Rank(h)
    BY <1>1 DEF Rank
  <2>2. UnitCells(h)' = UnitCells(h)
    BY <1>1, <2>1 DEF UnitCells, NumShires
  <2>3. /\ ReduceCells(h)' = ReduceCells(h) /\ MinionCells(h)' = MinionCells(h)
        /\ RowCells(h)' = RowCells(h)
    BY <1>1, <1>2 DEF ReduceCells, Active, MinionCells, RowCells, Extent
  <2>4. SubtestCells(h)' = SubtestCells(h)
    BY <1>2 DEF SubtestCells
  <2>5. CellsOf(h)' = CellsOf(h)
    BY <1>1, <1>2, <2>2, <2>3, <2>4 DEF CellsOf
  <2>6. Mine(h)' = Mine(h)
    BY <1>1, <2>5 DEF Mine
  <2>7. QED
    BY <2>5, <2>6
<1>6. ASSUME NEW h PROVE SumOf(Slice(h))' = SumOf(Slice(h))
  <2>1. Slice(h)' = Slice(h)
    BY <1>2 DEF Slice
  <2>2. [i \in Slice(h)' |-> Element(i)'] = [i \in Slice(h) |-> Element(i)]
    BY <1>1, <2>1 DEF Element
  <2>3. QED
    BY <2>2 DEF SumOf
<1>7. ASSUME NEW x PROVE Right(x)' = Right(x) /\ (LaunchedCell(x) <=> LaunchedCell(x)')
  BY <1>1, <1>2, <1>6 DEF Right, LaunchedCell
<1>8. ASSUME NEW h, NEW x PROVE Stored(h, x)' = Stored(h, x)
  BY <1>1, <1>2, <1>6 DEF Stored
<1>9. QED
  BY <1>1, <1>4, <1>5, <1>7, <1>8

LEMMA FrameKept ==
  ASSUME UNCHANGED programVars, ProgramFrame
  PROVE  ProgramFrame'
BY DEF programVars, ProgramFrame, FirstShire

\* A cell stays owned if nothing about it changes, and stays bare the same way.
LEMMA CellKept ==
  ASSUME UNCHANGED programVars, round' = round, NEW x,
         ddr'[x] = ddr[x], above'[x] = above[x], level'[x] = level[x]
  PROVE  /\ Bare(x) => Bare(x)'
         /\ \A h : Owned(h, x) /\ Put(h, x)' /\ (Through(h, x)' => Through(h, x)) => Owned(h, x)'
<1>1. Blank' = Blank /\ Cells' = Cells /\ (Prefilled <=> Prefilled') /\ dest' = dest
  BY Kept DEF Blank
<1>2. \A h : Mine(h)' = Mine(h) /\ Computed(h, x)' = Computed(h, x)
  BY Kept DEF Computed
<1>3. Bare(x) => Bare(x)'
  BY <1>1 DEF Bare
<1>4. ASSUME NEW h, Owned(h, x), Put(h, x)', Through(h, x)' => Through(h, x) PROVE Owned(h, x)'
  <2>1. Written(h, x)'
    BY <1>1, <1>2, <1>4 DEF Owned, Written
  <2>2. QED
    BY <1>2, <1>4, <2>1 DEF Owned
<1>5. QED
  BY <1>3, <1>4

\* Nothing changes but what the host knows.
LEMMA DeviceKept ==
  ASSUME UNCHANGED <<programVars, deviceVars, round>>, DeviceFrame
  PROVE  DeviceFrame'
<1>1. UNCHANGED programVars /\ UNCHANGED deviceVars /\ round' = round
  OBVIOUS
<1>2. (Tensor <=> Tensor') /\ (Refused <=> Refused') /\ \A h : Mine(h)' = Mine(h)
  BY <1>1, Kept
<1>3. UNCHANGED <<ddr, above, level, hart, next, storers>>
  BY <1>1 DEF deviceVars
<1>4. QED
  BY <1>1, <1>2, <1>3 DEF DeviceFrame

LEMMA ContentsKept ==
  ASSUME UNCHANGED <<programVars, deviceVars, round>>, Contents,
         host \in {"waiting", "passed", "failed"}
  PROVE  Contents'
<1>1. UNCHANGED programVars /\ UNCHANGED deviceVars /\ round' = round
  OBVIOUS
<1>2. UNCHANGED <<ddr, above, level, hart, next>>
  BY <1>1 DEF deviceVars
<1>3. \A h, x : (Put(h, x) <=> Put(h, x)') /\ (Through(h, x) <=> Through(h, x)')
  BY <1>2 DEF Put, Through
<1>4. \A h : Mine(h)' = Mine(h)
  BY <1>1, Kept
<1>5. ASSUME NEW x \in AllCells
      PROVE  (\E h \in Harts : Owned(h, x)') \/ (Fresh(x)' /\ Bare(x)')
  <2>1. CASE Fresh(x) /\ Bare(x)
    BY <1>1, <1>2, <1>3, <1>4, <2>1, CellKept DEF Fresh
  <2>2. ASSUME NEW h \in Harts, Owned(h, x) PROVE Owned(h, x)'
    <3>1. Put(h, x)'
      BY <1>3, <2>2 DEF Owned
    <3>2. QED
      BY <1>1, <1>2, <1>3, <2>2, <3>1, CellKept
  <2>3. QED
    BY <2>1, <2>2 DEF Contents
<1>6. QED
  BY <1>5 DEF Contents

-----------------------------------------------------------------------------
(***************************************************************************)
(* The steps of the host.                                                  *)
(***************************************************************************)
LEMMA TypedShires ==
  ASSUME NEW P \in SUBSET (0 .. MaskBits - 1), P # {}
  PROVE  Min(P) \in P /\ \A s \in P : Min(P) <= s
<1>1. PICK k \in Nat : k = MaskBits - 1
  BY Sizes
<1>2. P \in SUBSET Nat
  BY <1>1
<1>3. QED
  BY <1>2, MinIsLeast

LEMMA SpmdStart ==
  ASSUME SpmdInit
  PROVE  SpmdIInv
<1>1. <<program, present>> \in Setups /\ program \in Programs
      /\ present \in SUBSET (0 .. MaskBits - 1) /\ present # {}
  <2>1. PICK setup \in Setups : program = setup[1] /\ present = setup[2]
    BY DEF SpmdInit
  <2>2. setup \in Programs \X ((SUBSET (0 .. MaskBits - 1)) \ {{}})
    BY SpmdAssumption
  <2>3. setup = <<program, present>>
    BY <2>1, <2>2
  <2>4. QED
    BY <2>2, <2>3
<1>2. Min(present) \in present /\ \A s \in present : Min(present) <= s
  BY <1>1, TypedShires
<1>3. ASSUME NEW k \in 1 .. NumShires(present)
      PROVE  Lowest(k) \subseteq present /\ Lowest(k) # {}
  <2> DEFINE m == Min(present)
  <2>1. \A t \in present : t \in Int
    BY <1>1, Sizes
  <2>2. {t \in present : t < m} = {}
    BY <1>2, <2>1
  <2>3. k > 0
    <3>1. k \in Int /\ 1 <= k
      BY <1>3
    <3>2. QED
      BY <3>1
  <2>4. Cardinality({t \in present : t < m}) < k
    BY <2>2, <2>3, FS_EmptySet
  <2>5. m \in Lowest(k)
    BY <1>2, <2>4 DEF Lowest
  <2>6. QED
    BY <2>5 DEF Lowest
<1>4. launched \subseteq present /\ launched # {}
      /\ (program = "reduce" => launched = FirstShire)
      /\ (program = "reset_test" => launched = present)
  <2>1. CASE program = "reduce"
    <3>1. launched = FirstShire
      BY <2>1 DEF SpmdInit
    <3>2. QED
      BY <1>2, <2>1, <3>1 DEF FirstShire
  <2>2. CASE program \in {"cache_test", "simd_test", "ps_math_test"}
    <3>1. launched \in {Lowest(k) : k \in 1 .. NumShires(present)}
      BY <2>2 DEF SpmdInit
    <3>2. QED
      BY <1>3, <2>2, <3>1
  <2>3. CASE program \notin {"reduce", "cache_test", "simd_test", "ps_math_test"}
    <3>1. launched = present
      BY <2>3 DEF SpmdInit
    <3>2. QED
      BY <1>1, <2>3, <3>1
  <2>4. QED
    BY <2>1, <2>2, <2>3
<1>5. dest \in 1 .. 3 /\ (program # "cache_test" => dest = 3) /\ leftover \in {"right", "wrong"}
  BY DEF SpmdInit
<1>6. ProgramFrame
  BY <1>1, <1>4, <1>5 DEF ProgramFrame
<1>7. /\ host = "start" /\ round = 1 /\ above = ddr
      /\ ddr = [x \in AllCells |->
              [value |-> IF leftover = "right" /\ x \in Cells THEN Right(x) ELSE 100, by |-> 0]]
      /\ level = [x \in AllCells |-> "none"] /\ hart = [h \in Harts |-> "idle"]
      /\ next = [h \in Harts |-> 0] /\ storers = [x \in AllCells |-> {}]
  BY DEF SpmdInit
<1>8. Rounds \in 1 .. 4
  BY <1>1 DEF Rounds, Programs
<1>9. HostFrame
  BY <1>7, <1>8 DEF HostFrame
<1>10. ddr \in [AllCells -> [value : Int, by : 0 .. round]]
  <2>1. \A x \in Cells : Right(x) \in Int
    BY <1>6, RightTyped
  <2>2. 0 \in 0 .. round
    BY <1>7
  <2>3. ASSUME NEW x \in AllCells
        PROVE  (IF leftover = "right" /\ x \in Cells THEN Right(x) ELSE 100) \in Int
    BY <2>1
  <2>4. QED
    BY <1>7, <2>2, <2>3
<1>11. DeviceFrame
  BY <1>7, <1>10 DEF DeviceFrame
<1>12. Contents /\ PassMeansWritten
  BY <1>7 DEF Contents, PassMeansWritten
<1>13. QED
  BY <1>6, <1>9, <1>11, <1>12 DEF SpmdIInv

LEMMA SpmdStutter ==
  ASSUME SpmdIInv, UNCHANGED spmdVars
  PROVE  SpmdIInv'
<1>1. UNCHANGED programVars /\ UNCHANGED deviceVars /\ host' = host /\ round' = round
  BY DEF spmdVars
<1>2. UNCHANGED <<ddr, above, level, hart, next, storers>>
  BY <1>1 DEF deviceVars
<1>3. ProgramFrame' /\ DeviceFrame'
  BY <1>1, FrameKept, DeviceKept DEF SpmdIInv
<1>4. Contents'
  <2>1. CASE host \in {"waiting", "passed", "failed"}
    BY <1>1, <2>1, ContentsKept DEF SpmdIInv
  <2>2. CASE host \notin {"waiting", "passed", "failed"}
    BY <1>1, <2>2 DEF Contents
  <2>3. QED
    BY <2>1, <2>2
<1>5. HostFrame'
  BY <1>1, <1>2, Kept DEF HostFrame, SpmdIInv
<1>6. PassMeansWritten'
  BY <1>1, <1>2, Kept DEF PassMeansWritten, SpmdIInv
<1>7. QED
  BY <1>3, <1>4, <1>5, <1>6 DEF SpmdIInv

LEMMA SpmdRefuse ==
  ASSUME SpmdIInv, Refuse
  PROVE  SpmdIInv'
<1>1. /\ host = "start" /\ Refused /\ host' = "refused" /\ round' = round
      /\ UNCHANGED programVars /\ UNCHANGED deviceVars
  BY DEF Refuse
<1>2. UNCHANGED <<hart, level>>
  BY <1>1 DEF deviceVars
<1>3. ProgramFrame' /\ DeviceFrame'
  BY <1>1, FrameKept, DeviceKept DEF SpmdIInv
<1>4. HostFrame'
  BY <1>1, <1>2, Kept DEF HostFrame, SpmdIInv
<1>5. QED
  BY <1>1, <1>3, <1>4 DEF SpmdIInv, Contents, PassMeansWritten

LEMMA SpmdLaunchFails ==
  ASSUME SpmdIInv, LaunchFails
  PROVE  SpmdIInv'
<1>1. /\ host = "waiting" /\ host' = "error" /\ round' = round
      /\ UNCHANGED programVars /\ UNCHANGED deviceVars
  BY DEF LaunchFails
<1>2. ProgramFrame' /\ DeviceFrame'
  BY <1>1, FrameKept, DeviceKept DEF SpmdIInv
<1>3. HostFrame'
  BY <1>1, Kept DEF HostFrame, SpmdIInv
<1>4. QED
  BY <1>1, <1>2, <1>3 DEF SpmdIInv, Contents, PassMeansWritten

LEMMA SpmdNextRound ==
  ASSUME SpmdIInv, NextRound
  PROVE  SpmdIInv'
<1>1. /\ host = "passed" /\ round < Rounds /\ round' = round + 1 /\ host' = "start"
      /\ UNCHANGED programVars /\ UNCHANGED deviceVars
  BY DEF NextRound
<1>2. UNCHANGED <<ddr, above, level, hart, next, storers>>
  BY <1>1 DEF deviceVars
<1>3. ProgramFrame'
  BY <1>1, FrameKept DEF SpmdIInv
<1>4. (Tensor <=> Tensor') /\ (Refused <=> Refused') /\ Rounds' = Rounds
      /\ \A h : Mine(h)' = Mine(h)
  BY <1>1, Kept
<1>5. program \in Programs
  BY LaunchedShires DEF SpmdIInv
<1>6. Rounds \in 1 .. 4 /\ round \in 1 .. Rounds
  BY <1>5 DEF Rounds, Programs, SpmdIInv, HostFrame
<1>7. round' \in 1 .. Rounds /\ 0 .. round \subseteq 0 .. round'
  BY <1>1, <1>6
<1>8. HostFrame'
  BY <1>1, <1>2, <1>4, <1>7 DEF HostFrame, SpmdIInv
<1>9. {ddr, above}' \subseteq [AllCells -> [value : Int, by : 0 .. round']]
  <2>1. [value : Int, by : 0 .. round] \subseteq [value : Int, by : 0 .. round']
    BY <1>7
  <2>2. \A f \in [AllCells -> [value : Int, by : 0 .. round]] :
           f \in [AllCells -> [value : Int, by : 0 .. round']]
    BY <2>1
  <2>3. QED
    BY <1>2, <2>2 DEF SpmdIInv, DeviceFrame
<1>10. DeviceFrame'
  BY <1>2, <1>4, <1>9 DEF DeviceFrame, SpmdIInv
<1>11. QED
  BY <1>1, <1>3, <1>8, <1>10 DEF SpmdIInv, Contents, PassMeansWritten

LEMMA SpmdLaunch ==
  ASSUME SpmdIInv, Launch
  PROVE  SpmdIInv'
<1>1. /\ host = "start" /\ ~Refused /\ host' = "waiting" /\ round' = round
      /\ UNCHANGED programVars /\ above' = above /\ level' = level
      /\ ddr' = [x \in AllCells |-> IF x \in Cells /\ Prefilled
                                    THEN [value |-> Prefill, by |-> 0] ELSE ddr[x]]
      /\ storers' = [x \in AllCells |-> {}]
      /\ hart' = [h \in Harts |-> IF Mine(h) # {} THEN "store" ELSE "idle"]
      /\ next' = [h \in Harts |-> IF Mine(h) # {} THEN Min(Mine(h)) ELSE 0]
  BY DEF Launch
<1>2. ProgramFrame /\ ProgramFrame'
  BY <1>1, FrameKept DEF SpmdIInv
<1>3. /\ Cells' = Cells /\ (Refused <=> Refused') /\ (Prefilled <=> Prefilled')
      /\ Prefill' = Prefill /\ (Tensor <=> Tensor') /\ Rounds' = Rounds
      /\ \A h : Mine(h)' = Mine(h)
  BY <1>1, Kept
<1>4. \A x \in AllCells : level[x] = "none"
  BY <1>1 DEF SpmdIInv, HostFrame
<1>5. \A h \in Harts : Mine(h) \in SUBSET Nat
  BY <1>1, <1>2, MineTyped
<1>6. \A h \in Harts : Mine(h) # {} => /\ Min(Mine(h)) \in Mine(h)
                                       /\ \A x \in Mine(h) : Min(Mine(h)) <= x
  BY <1>5, MinIsLeast
<1>7. HostFrame'
  BY <1>1, <1>3 DEF SpmdIInv, HostFrame
<1>8. ddr' \in [AllCells -> [value : Int, by : 0 .. round']]
  <2>1. round \in 1 .. Rounds /\ ddr \in [AllCells -> [value : Int, by : 0 .. round]]
    BY DEF SpmdIInv, HostFrame, DeviceFrame
  <2>2. Prefill \in Int /\ 0 \in 0 .. round
    <3>1. program \in Programs
      BY <1>2, LaunchedShires
    <3>2. Rounds \in Int
      BY <3>1 DEF Programs, Rounds
    <3>3. QED
      BY <2>1, <3>2 DEF Prefill, Sentinel
  <2>3. QED
    BY <1>1, <2>1, <2>2
<1>9. next' \in [Harts -> Nat] /\ \A h \in Harts : hart'[h] # "idle" => next'[h] \in Mine(h)
  BY <1>1, <1>5, <1>6
<1>10. DeviceFrame'
  <2>1. hart' \in [Harts -> {"idle", "store", "publish"}] /\ storers' \in [AllCells -> SUBSET Harts]
        /\ \A x \in AllCells : storers'[x] = {}
    BY <1>1
  <2>2. /\ above' \in [AllCells -> [value : Int, by : 0 .. round']]
        /\ level' \in [AllCells -> IF Tensor' THEN {"none", "tensor"} ELSE {"none", "l1", "l2", "l3"}]
    BY <1>1, <1>3 DEF SpmdIInv, DeviceFrame
  <2>3. QED
    BY <1>3, <1>8, <1>9, <2>1, <2>2 DEF DeviceFrame
<1>11. ASSUME NEW x \in AllCells PROVE Fresh(x)' /\ Bare(x)'
  <2>1. ASSUME NEW h \in Harts, x \in Mine(h) PROVE ~Put(h, x)'
    <3>1. hart'[h] = "store" /\ next'[h] = Min(Mine(h))
      BY <1>1, <2>1
    <3>2. next'[h] <= x /\ next'[h] \in Nat /\ x \in Nat
      BY <1>5, <1>6, <2>1, <3>1
    <3>3. QED
      BY <3>1, <3>2 DEF Put
  <2>2. Fresh(x)'
    BY <1>3, <2>1 DEF Fresh
  <2>3. Bare(x)'
    BY <1>1, <1>3, <1>4 DEF Bare, Blank
  <2>4. QED
    BY <2>2, <2>3
<1>12. QED
  BY <1>1, <1>2, <1>7, <1>10, <1>11 DEF SpmdIInv, Contents, PassMeansWritten

\* Once all harts have returned, every cell of a launched shire has been stored
\* to, and is in DDR or, after writing back to a cache, perhaps above it.
LEMMA AllReturned ==
  ASSUME SpmdIInv, host = "waiting", \A h \in Harts : hart[h] = "idle", NEW x \in AllCells
  PROVE  /\ x \in Cells /\ ~LaunchedCell(x) => Bare(x)
         /\ level[x] # "none" => x \in Cells /\ LaunchedCell(x)
         /\ x \in Cells /\ LaunchedCell(x) =>
              /\ level[x] = "none" => ddr[x] = [value |-> Right(x), by |-> round]
              /\ level[x] # "none" => dest # 3 /\ (Prefilled => ddr[x] = Blank)
<1>1. ProgramFrame /\ ~Refused
  BY DEF SpmdIInv, HostFrame
<1>2. \A h \in Harts : Put(h, x) /\ Through(h, x)
  BY DEF Put, Through
<1>3. (\E h \in Harts : Owned(h, x)) \/ (Fresh(x) /\ Bare(x))
  BY DEF SpmdIInv, Contents
<1>4. CASE Fresh(x) /\ Bare(x)
  <2>1. \A h \in Harts : x \notin Mine(h)
    BY <1>2, <1>4 DEF Fresh
  <2>2. ~ (x \in Cells /\ LaunchedCell(x))
    BY <1>1, <2>1, AlwaysPartitioned DEF Partitioned
  <2>3. level[x] = "none"
    BY <1>4 DEF Bare
  <2>4. QED
    BY <1>4, <2>2, <2>3
<1>5. ASSUME NEW h \in Harts, Owned(h, x)
      PROVE  /\ x \in Cells /\ LaunchedCell(x)
             /\ level[x] = "none" => ddr[x] = [value |-> Right(x), by |-> round]
             /\ level[x] # "none" => dest # 3 /\ (Prefilled => ddr[x] = Blank)
  <2>1. x \in Mine(h) /\ Written(h, x)
    BY <1>5 DEF Owned
  <2>2. x \in Cells /\ LaunchedCell(x) /\ Stored(h, x) = Right(x)
    BY <1>1, <2>1, MineTyped
  <2>3. above[x] = [value |-> Right(x), by |-> round]
    BY <2>1, <2>2 DEF Written, Computed
  <2>4. QED
    BY <1>2, <2>1, <2>2, <2>3 DEF Written
<1>6. QED
  BY <1>3, <1>4, <1>5

LEMMA SpmdVerify ==
  ASSUME SpmdIInv, Verify
  PROVE  SpmdIInv'
<1> DEFINE value == [x \in Cells |-> ddr[x].value]
<1>1. /\ host = "waiting" /\ \A h \in Harts : hart[h] = "idle"
      /\ host' = (IF Verified(value) THEN "passed" ELSE "failed")
      /\ UNCHANGED programVars /\ UNCHANGED deviceVars /\ round' = round
  BY DEF Verify
<1>2. UNCHANGED <<ddr, above, level, hart, next, storers>>
  BY <1>1 DEF deviceVars
<1>3. ProgramFrame /\ ProgramFrame' /\ DeviceFrame'
  BY <1>1, FrameKept, DeviceKept DEF SpmdIInv
<1>4. ~Refused /\ Cells \subseteq AllCells
  BY <1>1, <1>3, CellsInArray DEF SpmdIInv, HostFrame
<1>5. Contents'
  BY <1>1, ContentsKept DEF SpmdIInv
<1>6. \A x \in AllCells :
        /\ x \in Cells /\ ~LaunchedCell(x) => Bare(x)
        /\ level[x] # "none" => x \in Cells /\ LaunchedCell(x)
        /\ x \in Cells /\ LaunchedCell(x) =>
             /\ level[x] = "none" => ddr[x] = [value |-> Right(x), by |-> round]
             /\ level[x] # "none" => dest # 3 /\ (Prefilled => ddr[x] = Blank)
  BY <1>1, AllReturned
<1> HIDE DEF value
<1>7. ASSUME dest = 3 PROVE Verified(value)
  <2>1. ASSUME NEW x \in Cells, LaunchedCell(x) PROVE ddr[x].value = Right(x)
    <3>1. ddr[x] = [value |-> Right(x), by |-> round]
      BY <1>4, <1>6, <1>7, <2>1
    <3>2. QED
      BY <3>1
  <2>2. \A x \in Cells : ~LaunchedCell(x) => ddr[x].value = Sentinel
    <3>1. ASSUME NEW x \in Cells, ~LaunchedCell(x) PROVE ddr[x].value = Sentinel
      <4>1. program # "reduce" /\ program # "reset_test"
        BY <3>1 DEF LaunchedCell
      <4>2. Prefilled /\ Prefill = Sentinel
        BY <4>1 DEF Prefilled, Prefill
      <4>3. ddr[x] = Blank
        BY <1>4, <1>6, <3>1, <4>2 DEF Bare
      <4>4. QED
        BY <4>2, <4>3 DEF Blank
    <3>2. QED
      BY <3>1
  <2>3. value = [x \in Cells |-> IF LaunchedCell(x) THEN Right(x) ELSE Sentinel]
    BY <2>1, <2>2 DEF value
  <2>4. QED
    BY <1>3, <1>4, <2>3, VerifiedWhenRight
<1>8. ASSUME Verified(value), NEW x \in AllCells PROVE level[x] = "none"
  <2>1. ASSUME level[x] # "none" PROVE FALSE
    <3>1. x \in Cells /\ LaunchedCell(x) /\ dest # 3 /\ (Prefilled => ddr[x] = Blank)
      BY <1>6, <2>1
    <3>2. program = "cache_test"
      BY <1>3, <3>1 DEF ProgramFrame
    <3>3. Prefilled /\ Prefill = Sentinel /\ ~Reduces
      BY <3>2 DEF Prefilled, Prefill, Reduces
    <3>4. CellsRight(value)
      BY <1>8, <3>2 DEF Verified
    <3>5. value[x] = Right(x) /\ value[x] = ddr[x].value
      BY <3>1, <3>4 DEF CellsRight, value
    <3>6. ddr[x].value = Sentinel
      BY <3>1, <3>3 DEF Blank
    <3>7. QED
      BY <1>3, <3>1, <3>3, <3>5, <3>6, RightTyped
  <2>2. QED
    BY <2>1
<1>9. HostFrame'
  <2>1. host' = "failed" => dest # 3
    BY <1>1, <1>7 DEF value
  <2>2. host' = "passed" => \A x \in AllCells : level[x] = "none"
    BY <1>1, <1>8 DEF value
  <2>3. host' \in {"passed", "failed"} /\ dest' = dest /\ (Refused <=> Refused') /\ Rounds' = Rounds
    BY <1>1, Kept
  <2>4. QED
    BY <1>1, <1>2, <1>4, <2>1, <2>2, <2>3 DEF HostFrame, SpmdIInv
<1>10. PassMeansWritten'
  <2>1. ASSUME host' = "passed", NEW x \in Cells, LaunchedCell(x)
        PROVE  ddr[x] = [value |-> Right(x), by |-> round]
    <3>1. Verified(value)
      BY <1>1, <2>1 DEF value
    <3>2. QED
      BY <1>4, <1>6, <1>8, <2>1, <3>1
  <2>2. /\ Cells' = Cells /\ \A x : Right(x)' = Right(x) /\ (LaunchedCell(x) <=> LaunchedCell(x)')
    BY <1>1, Kept
  <2>3. QED
    BY <1>1, <1>2, <2>1, <2>2 DEF PassMeansWritten
<1>11. QED
  BY <1>3, <1>5, <1>9, <1>10 DEF SpmdIInv

-----------------------------------------------------------------------------
(***************************************************************************)
(* The steps of the harts and of the memory.                               *)
(***************************************************************************)
LEMMA SpmdStore ==
  ASSUME SpmdIInv, host = "waiting", NEW h \in Harts, Store(h)
  PROVE  SpmdIInv'
<1>1. PICK x : x = next[h]
  OBVIOUS
<1>2. /\ hart[h] = "store"
      /\ above' = [above EXCEPT ![x] = [value |-> Stored(h, x), by |-> round]]
      /\ level' = [level EXCEPT ![x] = IF Tensor THEN "tensor" ELSE "l1"]
      /\ storers' = [storers EXCEPT ![x] = @ \cup {h}]
      /\ hart' = [hart EXCEPT ![h] = "publish"]
      /\ UNCHANGED programVars /\ host' = host /\ round' = round /\ ddr' = ddr /\ next' = next
  BY <1>1 DEF Store
<1>3. ProgramFrame /\ ProgramFrame' /\ ~Refused
  BY <1>2, FrameKept DEF SpmdIInv, HostFrame
<1>4. /\ Cells' = Cells /\ (Refused <=> Refused') /\ (Prefilled <=> Prefilled')
      /\ Prefill' = Prefill /\ (Tensor <=> Tensor') /\ Rounds' = Rounds /\ dest' = dest
      /\ \A g : Mine(g)' = Mine(g)
      /\ \A g, y : Stored(g, y)' = Stored(g, y)
  BY <1>2, Kept
<1>5. DeviceFrame /\ HostFrame /\ Contents
  BY DEF SpmdIInv
<1>6. x \in Mine(h)
  BY <1>1, <1>2, <1>5 DEF DeviceFrame
<1>7. x \in Nat /\ x \in Cells /\ x \in AllCells /\ Stored(h, x) \in Int
  BY <1>3, <1>6, MineTyped
<1>8. HostFrame'
  BY <1>2, <1>4, <1>5 DEF HostFrame
<1>9. DeviceFrame'
  <2>1. {ddr, above}' \subseteq [AllCells -> [value : Int, by : 0 .. round']]
    <3>1. round \in 0 .. round
      <4>1. program \in Programs
        BY <1>3, LaunchedShires
      <4>2. round \in 1 .. Rounds /\ Rounds \in 1 .. 4
        BY <1>5, <4>1 DEF HostFrame, Rounds, Programs
      <4>3. QED
        BY <4>2
    <3>2. [value |-> Stored(h, x), by |-> round] \in [value : Int, by : 0 .. round]
      BY <1>7, <3>1
    <3>3. {ddr, above} \subseteq [AllCells -> [value : Int, by : 0 .. round]]
      BY <1>5 DEF DeviceFrame
    <3>4. above' \in [AllCells -> [value : Int, by : 0 .. round]]
      BY <1>2, <3>2, <3>3
    <3>5. QED
      BY <1>2, <3>3, <3>4
  <2>2. level' \in [AllCells -> IF Tensor' THEN {"none", "tensor"} ELSE {"none", "l1", "l2", "l3"}]
    BY <1>2, <1>4, <1>5 DEF DeviceFrame
  <2>3. /\ hart' \in [Harts -> {"idle", "store", "publish"}] /\ next' \in [Harts -> Nat]
        /\ \A g \in Harts : hart'[g] # "idle" => next'[g] \in Mine(g)
    BY <1>2, <1>5 DEF DeviceFrame
  <2>4. storers' \in [AllCells -> SUBSET Harts]
    BY <1>2, <1>5 DEF DeviceFrame
  <2>5. ASSUME NEW y \in AllCells, NEW g \in storers'[y] PROVE ~Refused /\ y \in Mine(g)
    <3>1. g \in storers[y] \/ (g = h /\ y = x)
      BY <1>2, <1>5, <2>5 DEF DeviceFrame
    <3>2. QED
      BY <1>3, <1>5, <1>6, <3>1 DEF DeviceFrame
  <2>6. QED
    BY <1>4, <2>1, <2>2, <2>3, <2>4, <2>5 DEF DeviceFrame
<1>10. ASSUME NEW g \in Harts, NEW y \in Mine(g), g # h \/ y # x
       PROVE  (Put(g, y) <=> Put(g, y)') /\ (Through(g, y)' => Through(g, y))
  <2>1. CASE g # h
    BY <1>2, <1>5, <2>1 DEF DeviceFrame, Put, Through
  <2>2. CASE g = h
    BY <1>1, <1>2, <1>5, <1>10, <2>2 DEF DeviceFrame, Put, Through
  <2>3. QED
    BY <2>1, <2>2
<1>11. ASSUME NEW y \in AllCells, y # x
       PROVE  (\E g \in Harts : Owned(g, y)') \/ (Fresh(y)' /\ Bare(y)')
  <2>1. ddr'[y] = ddr[y] /\ above'[y] = above[y] /\ level'[y] = level[y]
    BY <1>2, <1>5, <1>11 DEF DeviceFrame
  <2>2. CASE Fresh(y) /\ Bare(y)
    <3>1. Bare(y)'
      BY <1>2, <2>1, <2>2, CellKept
    <3>2. Fresh(y)'
      BY <1>4, <1>10, <1>11, <2>2 DEF Fresh
    <3>3. QED
      BY <3>1, <3>2
  <2>3. ASSUME NEW g \in Harts, Owned(g, y) PROVE Owned(g, y)'
    <3>1. y \in Mine(g) /\ Put(g, y)
      BY <2>3 DEF Owned
    <3>2. Put(g, y)' /\ (Through(g, y)' => Through(g, y))
      BY <1>10, <1>11, <3>1
    <3>3. QED
      BY <1>2, <2>1, <2>3, <3>2, CellKept
  <2>4. QED
    BY <1>2, <1>5, <2>2, <2>3 DEF Contents
<1>12. Owned(h, x)'
  <2>1. Bare(x)
    <3>1. ASSUME NEW g \in Harts, Owned(g, x) PROVE FALSE
      <4>1. x \in Mine(g) /\ Put(g, x)
        BY <3>1 DEF Owned
      <4>2. g = h
        BY <1>3, <1>6, <4>1, OneOwner
      <4>3. QED
        BY <1>1, <1>2, <1>7, <4>1, <4>2 DEF Put
    <3>2. QED
      BY <1>5, <1>7, <3>1 DEF Contents
  <2>2. above'[x] = Computed(h, x)' /\ level'[x] # "none" /\ ddr'[x] = ddr[x]
    BY <1>2, <1>4, <1>5, <1>7 DEF DeviceFrame, Computed
  <2>3. Prefilled' => ddr'[x] = Blank'
    BY <1>4, <1>7, <2>1, <2>2 DEF Bare, Blank
  <2>4. Put(h, x)' /\ ~Through(h, x)'
    BY <1>1, <1>2, <1>5, <1>7 DEF Put, Through, DeviceFrame
  <2>5. Written(h, x)'
    BY <2>2, <2>3, <2>4 DEF Written
  <2>6. QED
    BY <1>4, <1>6, <2>4, <2>5 DEF Owned
<1>13. Contents'
  BY <1>11, <1>12 DEF Contents
<1>14. QED
  BY <1>2, <1>3, <1>8, <1>9, <1>13 DEF SpmdIInv, PassMeansWritten

\* The hart goes on to its next cell, or returns: what it has stored to, and
\* what it is done with, but for the cell it publishes.
LEMMA PublishAdvances ==
  ASSUME SpmdIInv, host = "waiting", NEW h \in Harts, Publish(h)
  PROVE  /\ hart' \in [Harts -> {"idle", "store", "publish"}] /\ next' \in [Harts -> Nat]
         /\ \A g \in Harts : hart'[g] # "idle" => next'[g] \in Mine(g)
         /\ \A g \in Harts : \A y \in Mine(g) : Put(g, y) <=> Put(g, y)'
         /\ \A g \in Harts : \A y \in Mine(g) : g # h \/ y # next[h] => (Through(g, y)' => Through(g, y))
<1>1. DeviceFrame /\ ProgramFrame /\ ~Refused
  BY DEF SpmdIInv, HostFrame
<1>2. hart[h] = "publish" /\ next[h] \in Mine(h)
  BY <1>1 DEF Publish, DeviceFrame
<1>3. Mine(h) = CellsOf(h)
  BY <1>2 DEF Mine
<1>4. \A g \in Harts : Mine(g) \in SUBSET Nat
  BY <1>1, MineTyped
<1>5. PICK x \in Nat : x = next[h]
  BY <1>2, <1>4
<1>6. Further(h) = {y \in Mine(h) : y > x}
  BY <1>3, <1>5 DEF Further
<1>7. CASE Further(h) = {}
  <2>1. hart' = [hart EXCEPT ![h] = "idle"] /\ next' = next
    BY <1>7 DEF Publish
  <2>2. \A y \in Mine(h) : y \in Nat /\ ~ (y > x)
    BY <1>4, <1>6, <1>7
  <2>3. \A y \in Mine(h) : Put(h, y) /\ Put(h, y)'
    BY <1>1, <1>2, <1>5, <2>1, <2>2 DEF Put, DeviceFrame
  <2>4. ASSUME NEW y \in Mine(h), y # x PROVE Through(h, y)
    <3>1. y \in Nat /\ ~ (y > x)
      BY <2>2
    <3>2. y < next[h]
      BY <1>5, <2>4, <3>1
    <3>3. QED
      BY <3>2 DEF Through
  <2>5. ASSUME NEW g \in Harts, g # h
        PROVE  \A y : (Put(g, y) <=> Put(g, y)') /\ (Through(g, y) <=> Through(g, y)')
    BY <1>1, <2>1, <2>5 DEF Put, Through, DeviceFrame
  <2>6. /\ hart' \in [Harts -> {"idle", "store", "publish"}] /\ next' \in [Harts -> Nat]
        /\ \A g \in Harts : hart'[g] # "idle" => next'[g] \in Mine(g)
    BY <1>1, <2>1 DEF DeviceFrame
  <2>7. QED
    BY <1>5, <2>3, <2>4, <2>5, <2>6
<1>8. CASE Further(h) # {}
  <2>1. hart' = [hart EXCEPT ![h] = "store"] /\ next' = [next EXCEPT ![h] = Min(Further(h))]
    BY <1>8 DEF Publish
  <2>2. Further(h) \in SUBSET Nat
    BY <1>4, <1>6
  <2>3. Min(Further(h)) \in Further(h) /\ \A y \in Further(h) : Min(Further(h)) <= y
    BY <1>8, <2>2, MinIsLeast
  <2>4. PICK m \in Nat : m = Min(Further(h)) /\ m \in Mine(h) /\ m > x
    BY <1>6, <2>2, <2>3
  <2>5. \A y \in Mine(h) : y \in Nat /\ (y > x => m <= y)
    BY <1>4, <1>6, <2>3, <2>4
  <2>6. hart'[h] = "store" /\ next'[h] = m
    BY <1>1, <2>1, <2>4 DEF DeviceFrame
  <2>7. \A y \in Mine(h) : Put(h, y) <=> Put(h, y)'
    BY <1>2, <1>5, <2>4, <2>5, <2>6 DEF Put
  <2>8. ASSUME NEW y \in Mine(h), y # x, Through(h, y)' PROVE Through(h, y)
    <3>1. y \in Nat /\ (y > x => m <= y)
      BY <2>5
    <3>2. y < m
      BY <2>6, <2>8 DEF Through
    <3>3. y < next[h]
      BY <1>5, <2>4, <2>8, <3>1, <3>2
    <3>4. QED
      BY <3>3 DEF Through
  <2>9. ASSUME NEW g \in Harts, g # h
        PROVE  \A y : (Put(g, y) <=> Put(g, y)') /\ (Through(g, y) <=> Through(g, y)')
    BY <1>1, <2>1, <2>9 DEF Put, Through, DeviceFrame
  <2>10. /\ hart' \in [Harts -> {"idle", "store", "publish"}] /\ next' \in [Harts -> Nat]
         /\ \A g \in Harts : hart'[g] # "idle" => next'[g] \in Mine(g)
    BY <1>1, <2>1, <2>4 DEF DeviceFrame
  <2>11. QED
    BY <1>5, <2>7, <2>8, <2>9, <2>10
<1>9. QED
  BY <1>7, <1>8

\* A copy that moves down a level.
LEMMA Moves ==
  ASSUME DeviceFrame, NEW x \in AllCells, level[x] # "none", NEW l, MoveTo(x, l),
         l \in IF Tensor THEN {"none"} ELSE {"none", "l2", "l3"}
  PROVE  /\ level' \in [AllCells -> IF Tensor THEN {"none", "tensor"} ELSE {"none", "l1", "l2", "l3"}]
         /\ ddr' \in [AllCells -> [value : Int, by : 0 .. round]]
         /\ \A y \in AllCells : y # x => ddr'[y] = ddr[y] /\ level'[y] = level[y]
         /\ level'[x] = l
         /\ ddr'[x] = IF l = "none" THEN above[x] ELSE ddr[x]
<1>1. /\ ddr \in [AllCells -> [value : Int, by : 0 .. round]]
      /\ above \in [AllCells -> [value : Int, by : 0 .. round]]
      /\ level \in [AllCells -> IF Tensor THEN {"none", "tensor"} ELSE {"none", "l1", "l2", "l3"}]
  BY DEF DeviceFrame
<1>2. level' = [level EXCEPT ![x] = l]
      /\ ddr' = (IF l = "none" THEN [ddr EXCEPT ![x] = above[x]] ELSE ddr)
  BY DEF MoveTo
<1>3. CASE l = "none"
  BY <1>1, <1>2, <1>3
<1>4. CASE l # "none"
  BY <1>1, <1>2, <1>4
<1>5. QED
  BY <1>3, <1>4

\* What publishing does to the cell: it is in DDR, or where it was or lower; and
\* in DDR if the program writes back to memory.
LEMMA PublishMoves ==
  ASSUME SpmdIInv, host = "waiting", NEW h \in Harts, Published(h), NEW x \in AllCells, x = next[h],
         level[x] = "none" => ddr[x] = above[x]
  PROVE  /\ level' \in [AllCells -> IF Tensor THEN {"none", "tensor"} ELSE {"none", "l1", "l2", "l3"}]
         /\ ddr' \in [AllCells -> [value : Int, by : 0 .. round]]
         /\ \A y \in AllCells : y # x => ddr'[y] = ddr[y] /\ level'[y] = level[y]
         /\ level'[x] = "none" => ddr'[x] = above[x]
         /\ level'[x] # "none" => ddr'[x] = ddr[x] /\ level[x] # "none"
         /\ dest = 3 => level'[x] = "none"
<1>1. DeviceFrame /\ ProgramFrame
  BY DEF SpmdIInv
<1>2. /\ ddr \in [AllCells -> [value : Int, by : 0 .. round]]
      /\ level \in [AllCells -> IF Tensor THEN {"none", "tensor"} ELSE {"none", "l1", "l2", "l3"}]
  BY <1>1 DEF DeviceFrame
<1> DEFINE target == IF program = "cache_test" /\ round # 3 THEN dest ELSE 3
<1>3. target \in 1 .. 3 /\ (dest = 3 => target = 3)
  BY <1>1 DEF ProgramFrame
<1>4. IF Tensor THEN level[x] = "none" /\ UNCHANGED <<level, ddr>>
      ELSE IF level[x] # "none" /\ Above(level[x]) <= target THEN MoveTo(x, LevelOf(target))
      ELSE UNCHANGED <<level, ddr>>
  BY DEF Published
<1> HIDE DEF target
<1>5. CASE Tensor
  BY <1>2, <1>4, <1>5
<1>6. CASE ~Tensor /\ level[x] # "none" /\ Above(level[x]) <= target
  <2>1. PICK l : l = LevelOf(target)
    OBVIOUS
  <2>2. l \in {"none", "l2", "l3"} /\ (dest = 3 => l = "none")
    BY <1>3, <2>1 DEF LevelOf
  <2>3. MoveTo(x, l)
    BY <1>4, <1>6, <2>1
  <2>4. /\ level' \in [AllCells -> IF Tensor THEN {"none", "tensor"} ELSE {"none", "l1", "l2", "l3"}]
        /\ ddr' \in [AllCells -> [value : Int, by : 0 .. round]]
        /\ \A y \in AllCells : y # x => ddr'[y] = ddr[y] /\ level'[y] = level[y]
        /\ level'[x] = l
        /\ ddr'[x] = IF l = "none" THEN above[x] ELSE ddr[x]
    BY <1>1, <1>6, <2>2, <2>3, Moves
  <2>5. QED
    BY <1>6, <2>2, <2>4
<1>7. CASE ~Tensor /\ ~ (level[x] # "none" /\ Above(level[x]) <= target)
  <2>1. UNCHANGED <<level, ddr>>
    BY <1>4, <1>7
  <2>2. ASSUME dest = 3, level[x] # "none" PROVE FALSE
    <3>1. level[x] \in {"l1", "l2", "l3"}
      BY <1>2, <1>7, <2>2
    <3>2. Above(level[x]) \in 1 .. 3
      BY <3>1 DEF Above
    <3>3. QED
      BY <1>3, <1>7, <2>2, <3>2
  <2>3. QED
    BY <1>2, <2>1, <2>2
<1>8. QED
  BY <1>5, <1>6, <1>7

LEMMA SpmdPublish ==
  ASSUME SpmdIInv, host = "waiting", NEW h \in Harts, Publish(h)
  PROVE  SpmdIInv'
<1>1. /\ hart[h] = "publish" /\ Published(h) /\ UNCHANGED programVars
      /\ host' = host /\ round' = round /\ above' = above /\ storers' = storers
  BY DEF Publish
<1>2. ProgramFrame /\ ProgramFrame' /\ ~Refused
  BY <1>1, FrameKept DEF SpmdIInv, HostFrame
<1>3. /\ Cells' = Cells /\ (Refused <=> Refused') /\ (Prefilled <=> Prefilled')
      /\ Prefill' = Prefill /\ (Tensor <=> Tensor') /\ Rounds' = Rounds /\ dest' = dest
      /\ \A g : Mine(g)' = Mine(g)
      /\ \A g, y : Stored(g, y)' = Stored(g, y)
  BY <1>1, Kept
<1>4. DeviceFrame /\ HostFrame /\ Contents
  BY DEF SpmdIInv
<1>5. PICK x : x = next[h]
  OBVIOUS
<1>6. x \in Mine(h) /\ x \in AllCells /\ x \in Nat
  BY <1>1, <1>2, <1>4, <1>5, MineTyped DEF DeviceFrame
<1>7. Owned(h, x)
  <2>1. Put(h, x)
    BY <1>1, <1>5 DEF Put
  <2>2. PICK g \in Harts : Owned(g, x)
    BY <1>4, <1>6, <2>1 DEF Contents, Fresh
  <2>3. g = h
    BY <1>2, <1>6, <2>2, OneOwner DEF Owned
  <2>4. QED
    BY <2>2, <2>3
<1>8. /\ level' \in [AllCells -> IF Tensor THEN {"none", "tensor"} ELSE {"none", "l1", "l2", "l3"}]
      /\ ddr' \in [AllCells -> [value : Int, by : 0 .. round]]
      /\ \A y \in AllCells : y # x => ddr'[y] = ddr[y] /\ level'[y] = level[y]
      /\ level'[x] = "none" => ddr'[x] = above[x]
      /\ level'[x] # "none" => ddr'[x] = ddr[x] /\ level[x] # "none"
      /\ dest = 3 => level'[x] = "none"
  BY <1>1, <1>5, <1>6, <1>7, PublishMoves DEF Owned, Written
<1>9. /\ hart' \in [Harts -> {"idle", "store", "publish"}] /\ next' \in [Harts -> Nat]
      /\ \A g \in Harts : hart'[g] # "idle" => next'[g] \in Mine(g)
      /\ \A g \in Harts : \A y \in Mine(g) : Put(g, y) <=> Put(g, y)'
      /\ \A g \in Harts : \A y \in Mine(g) : g # h \/ y # x => (Through(g, y)' => Through(g, y))
  BY <1>5, PublishAdvances
<1>10. HostFrame'
  BY <1>1, <1>3, <1>4 DEF HostFrame
<1>11. DeviceFrame'
  BY <1>1, <1>3, <1>4, <1>8, <1>9 DEF DeviceFrame
<1>12. Owned(h, x)'
  <2>1. Put(h, x)'
    BY <1>6, <1>7, <1>9 DEF Owned
  <2>2. above'[x] = Computed(h, x)'
    BY <1>1, <1>3, <1>7 DEF Owned, Written, Computed
  <2>3. Blank' = Blank
    BY <1>3 DEF Blank
  <2>4. Written(h, x)'
    BY <1>1, <1>3, <1>7, <1>8, <2>2, <2>3 DEF Owned, Written
  <2>5. QED
    BY <1>3, <1>6, <2>1, <2>4 DEF Owned
<1>13. ASSUME NEW y \in AllCells, y # x
       PROVE  (\E g \in Harts : Owned(g, y)') \/ (Fresh(y)' /\ Bare(y)')
  <2>1. ddr'[y] = ddr[y] /\ above'[y] = above[y] /\ level'[y] = level[y]
    BY <1>1, <1>8, <1>13
  <2>2. CASE Fresh(y) /\ Bare(y)
    <3>1. Bare(y)'
      BY <1>1, <2>1, <2>2, CellKept
    <3>2. Fresh(y)'
      BY <1>3, <1>9, <2>2 DEF Fresh
    <3>3. QED
      BY <3>1, <3>2
  <2>3. ASSUME NEW g \in Harts, Owned(g, y) PROVE Owned(g, y)'
    <3>1. y \in Mine(g) /\ Put(g, y)
      BY <2>3 DEF Owned
    <3>2. Put(g, y)' /\ (Through(g, y)' => Through(g, y))
      BY <1>9, <1>13, <3>1
    <3>3. QED
      BY <1>1, <2>1, <2>3, <3>2, CellKept
  <2>4. QED
    BY <1>4, <2>2, <2>3 DEF Contents
<1>14. Contents'
  BY <1>12, <1>13 DEF Contents
<1>15. QED
  BY <1>1, <1>2, <1>10, <1>11, <1>14 DEF SpmdIInv, PassMeansWritten

LEMMA SpmdSettle ==
  ASSUME SpmdIInv, NEW x \in AllCells, Settle(x)
  PROVE  SpmdIInv'
<1>1. /\ level[x] # "none" /\ UNCHANGED programVars
      /\ host' = host /\ round' = round /\ above' = above /\ storers' = storers
      /\ hart' = hart /\ next' = next
  BY DEF Settle
<1>2. ProgramFrame /\ ProgramFrame'
  BY <1>1, FrameKept DEF SpmdIInv
<1>3. /\ Cells' = Cells /\ (Refused <=> Refused') /\ (Prefilled <=> Prefilled')
      /\ Prefill' = Prefill /\ (Tensor <=> Tensor') /\ Rounds' = Rounds /\ dest' = dest
      /\ \A g : Mine(g)' = Mine(g)
      /\ \A g, y : Stored(g, y)' = Stored(g, y)
  BY <1>1, Kept
<1>4. DeviceFrame /\ HostFrame /\ Contents
  BY DEF SpmdIInv
<1>5. PICK l \in {"l2", "l3", "none"} :
        (l # "none" => level[x] # "tensor" /\ Above(l) > Above(level[x])) /\ MoveTo(x, l)
  BY DEF Settle
<1>6. l \in IF Tensor THEN {"none"} ELSE {"none", "l2", "l3"}
  BY <1>1, <1>4, <1>5 DEF DeviceFrame
<1>7. /\ level' \in [AllCells -> IF Tensor THEN {"none", "tensor"} ELSE {"none", "l1", "l2", "l3"}]
      /\ ddr' \in [AllCells -> [value : Int, by : 0 .. round]]
      /\ \A y \in AllCells : y # x => ddr'[y] = ddr[y] /\ level'[y] = level[y]
      /\ level'[x] = l
      /\ ddr'[x] = IF l = "none" THEN above[x] ELSE ddr[x]
  BY <1>1, <1>4, <1>5, <1>6, Moves
<1>8. \A g, y : (Put(g, y) <=> Put(g, y)') /\ (Through(g, y) <=> Through(g, y)')
  BY <1>1 DEF Put, Through
<1>9. host \notin {"start", "refused", "passed"}
  BY <1>1, <1>4 DEF HostFrame
<1>10. HostFrame'
  BY <1>1, <1>3, <1>4, <1>9 DEF HostFrame
<1>11. DeviceFrame'
  BY <1>1, <1>3, <1>4, <1>7 DEF DeviceFrame
<1>12. ASSUME host \in {"waiting", "passed", "failed"} PROVE Contents'
  <2>1. PICK h \in Harts : Owned(h, x)
    BY <1>1, <1>4, <1>12 DEF Contents, Bare
  <2>2. Owned(h, x)'
    <3>1. above'[x] = Computed(h, x)' /\ Blank' = Blank
      BY <1>1, <1>3, <2>1 DEF Owned, Written, Computed, Blank
    <3>2. ~ (Through(h, x)' /\ dest = 3)
      BY <1>1, <1>8, <2>1 DEF Owned, Written
    <3>3. Written(h, x)'
      BY <1>1, <1>3, <1>7, <2>1, <3>1, <3>2 DEF Owned, Written
    <3>4. QED
      BY <1>3, <1>8, <2>1, <3>3 DEF Owned
  <2>3. ASSUME NEW y \in AllCells, y # x
        PROVE  (\E g \in Harts : Owned(g, y)') \/ (Fresh(y)' /\ Bare(y)')
    <3>1. ddr'[y] = ddr[y] /\ above'[y] = above[y] /\ level'[y] = level[y]
      BY <1>1, <1>7, <2>3
    <3>2. CASE Fresh(y) /\ Bare(y)
      BY <1>1, <1>3, <1>8, <3>1, <3>2, CellKept DEF Fresh
    <3>3. ASSUME NEW g \in Harts, Owned(g, y) PROVE Owned(g, y)'
      <4>1. Put(g, y)'
        BY <1>8, <3>3 DEF Owned
      <4>2. QED
        BY <1>1, <1>8, <3>1, <3>3, <4>1, CellKept
    <3>4. QED
      BY <1>4, <1>12, <3>2, <3>3 DEF Contents
  <2>4. QED
    BY <2>2, <2>3 DEF Contents
<1>13. Contents'
  <2>1. CASE host \in {"waiting", "passed", "failed"}
    BY <1>12, <2>1
  <2>2. CASE host \notin {"waiting", "passed", "failed"}
    BY <1>1, <2>2 DEF Contents
  <2>3. QED
    BY <2>1, <2>2
<1>14. QED
  BY <1>1, <1>2, <1>9, <1>10, <1>11, <1>13 DEF SpmdIInv, PassMeansWritten

-----------------------------------------------------------------------------
(***************************************************************************)
(* The theorems about the programs.                                        *)
(***************************************************************************)
\* The invariant holds throughout: in the first state, and after every step of
\* the host, of a hart and of the memory.
THEOREM SpmdInductive == SpmdSpec => []SpmdIInv
<1>1. SpmdInit => SpmdIInv
  BY SpmdStart
<1>2. SpmdIInv /\ [SpmdNext]_spmdVars => SpmdIInv'
  <2>1. SUFFICES ASSUME SpmdIInv, [SpmdNext]_spmdVars PROVE SpmdIInv'
    OBVIOUS
  <2>2. CASE Refuse
    BY <2>1, <2>2, SpmdRefuse
  <2>3. CASE Launch
    BY <2>1, <2>3, SpmdLaunch
  <2>4. CASE LaunchFails
    BY <2>1, <2>4, SpmdLaunchFails
  <2>5. CASE Verify
    BY <2>1, <2>5, SpmdVerify
  <2>6. CASE NextRound
    BY <2>1, <2>6, SpmdNextRound
  <2>7. CASE host = "waiting" /\ KernelSteps
    <3>1. PICK h \in Harts : Store(h) \/ Publish(h)
      BY <2>7 DEF KernelSteps
    <3>2. CASE Store(h)
      BY <2>1, <2>7, <3>2, SpmdStore
    <3>3. CASE Publish(h)
      BY <2>1, <2>7, <3>3, SpmdPublish
    <3>4. QED
      BY <3>1, <3>2, <3>3
  <2>8. CASE \E x \in AllCells : Settle(x)
    BY <2>1, <2>8, SpmdSettle
  <2>9. CASE UNCHANGED spmdVars
    BY <2>1, <2>9, SpmdStutter
  <2>10. QED
    BY <2>1, <2>2, <2>3, <2>4, <2>5, <2>6, <2>7, <2>8, <2>9 DEF SpmdNext
<1>3. QED
  BY <1>1, <1>2, PTL DEF SpmdSpec

LEMMA SpmdTypes ==
  ASSUME SpmdIInv
  PROVE  SpmdTyped
<1>1. ProgramFrame /\ HostFrame /\ DeviceFrame
  BY DEF SpmdIInv
<1>2. ASSUME NEW h \in Harts, hart[h] # "idle" PROVE next[h] \in Cells
  <2>1. ~Refused /\ next[h] \in Mine(h)
    BY <1>1, <1>2 DEF HostFrame, DeviceFrame
  <2>2. QED
    BY <1>1, <2>1, MineTyped
<1>3. level \in [AllCells -> {"none", "l1", "l2", "l3", "tensor"}]
  <2>1. CASE Tensor
    BY <1>1, <2>1 DEF DeviceFrame
  <2>2. CASE ~Tensor
    BY <1>1, <2>2 DEF DeviceFrame
  <2>3. QED
    BY <2>1, <2>2
<1>4. QED
  BY <1>1, <1>2, <1>3 DEF SpmdTyped, ProgramFrame, HostFrame, DeviceFrame

\* No two harts ever store to one cell, and none stores outside of the array.
THEOREM SpmdWriters == SpmdSpec => []OneWriterInside
<1>1. ASSUME SpmdIInv PROVE OneWriterInside
  <2>1. ProgramFrame /\ DeviceFrame
    BY <1>1 DEF SpmdIInv
  <2>2. ASSUME NEW x \in AllCells, NEW g \in storers[x] PROVE ~Refused /\ g \in Harts /\ x \in Mine(g)
    BY <2>1, <2>2 DEF DeviceFrame
  <2>3. ASSUME NEW x \in AllCells, NEW g \in storers[x], NEW h \in storers[x] PROVE g = h
    BY <2>1, <2>2, <2>3, OneOwner
  <2>4. ASSUME NEW x \in AllCells, NEW g \in storers[x] PROVE x \in Cells
    BY <2>1, <2>2, <2>4, MineTyped
  <2>5. QED
    BY <1>1, <2>3, <2>4, SpmdTypes DEF OneWriterInside
<1>2. QED
  BY <1>1, SpmdInductive, PTL

\* A program passes only on what this launch has computed.
THEOREM SpmdPasses == SpmdSpec => []PassMeansWritten
<1>1. SpmdIInv => PassMeansWritten
  BY DEF SpmdIInv
<1>2. QED
  BY <1>1, SpmdInductive, PTL

\* A program that has the data written back to memory does not fail on a device
\* that works.
THEOREM SpmdFailures == SpmdSpec => []NoFalseFailure
<1>1. SpmdIInv => NoFalseFailure
  BY DEF SpmdIInv, HostFrame, NoFalseFailure
<1>2. QED
  BY <1>1, SpmdInductive, PTL
=============================================================================
