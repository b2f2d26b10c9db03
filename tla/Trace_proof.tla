---------------------------- MODULE Trace_proof -----------------------------
(***************************************************************************)
(* Proofs about Trace, for every number of harts, size of the partitions   *)
(* and headers, and length of the texts.                                   *)
(***************************************************************************)
EXTENDS Trace, TLAPS

\* What a byte of partition h may be: part of an entry of h, or of none.
Entries(h) ==
  [kind : {"head"}, hart : {h}, size : Nat]
    \cup [kind : {"char"}, hart : {h}, call : 0 .. MaxTexts, at : Nat]

MemoryOwned ==
  /\ DOMAIN memory = 0 .. Size - 1
  /\ \A a \in 0 .. Size - 1 :
       memory[a] \in Entries(a \div Stride) \cup {Nul, Other} \cup {SizeOf(n) : n \in Int}

\* The header of a partition holds a size.
HeadersIntact == \A h \in Harts : memory[Base(h)] \in {SizeOf(n) : n \in Int}

\* An entry under way has room in its hart's partition.
EntriesFit ==
  /\ offset \in [Harts -> Int] /\ texts \in [Harts -> Int]
  /\ DOMAIN pc = Harts /\ DOMAIN text = Harts
  /\ \A h \in Harts : pc[h] # "idle" => Fits(h, text[h])

\* The decoder starts at the front of a partition.
NotYetDecoding == phase \in {"kernel", "over"} => at = None

IInv == TypeOK /\ MemoryOwned /\ HeadersIntact /\ EntriesFit /\ NotYetDecoding
-----------------------------------------------------------------------------
(***************************************************************************)
(* Arithmetic of the partitions.                                           *)
(***************************************************************************)

\* Every address belongs to the partition it lies in.
LEMMA OwnPartition ==
  ASSUME NEW h \in Harts, NEW a \in Int, Base(h) <= a, a < Base(h) + Stride
  PROVE  a \div Stride = h
<1> DEFINE q == a \div Stride
<1>1. Stride \in Nat \ {0} /\ h \in Nat
  BY TraceAssumption DEF Harts
<1>2. q \in Int /\ q * Stride <= a /\ a < q * Stride + Stride
  BY <1>1
<1>3. h * Stride <= a /\ a < h * Stride + Stride
  BY DEF Base
<1> HIDE DEF q
<1>4. q * Stride < (h + 1) * Stride /\ h * Stride < (q + 1) * Stride
  BY <1>1, <1>2, <1>3
<1>5. q < h + 1 /\ h < q + 1
  BY <1>1, <1>2, <1>4
<1>6. QED
  BY <1>1, <1>2, <1>5 DEF q

\* A partition begins at a multiple of their size.
LEMMA BaseOfPartition ==
  ASSUME NEW h \in Harts
  PROVE  Base(h) % Stride = 0 /\ Base(h) \div Stride = h
<1>1. Stride \in Nat \ {0} /\ h \in Nat /\ Base(h) \in Int
  BY TraceAssumption DEF Harts, Base
<1>2. Base(h) \div Stride = h
  BY <1>1, OwnPartition
<1>3. Base(h) % Stride = 0
  BY <1>1 DEF Base
<1>4. QED
  BY <1>2, <1>3

\* A text takes a natural number of bytes.
LEMMA StrLenNat ==
  ASSUME NEW t, t.length \in Nat
  PROVE  StrLen(t) \in Nat
<1> DEFINE q == (t.length + 1 + Align - 1) \div Align
<1>1. Align \in Nat \ {0} /\ StringMax \in Nat
  BY TraceAssumption
<1>2. q \in Nat
  BY <1>1
<1> HIDE DEF q
<1>3. q * Align \in Nat
  BY <1>1, <1>2
<1>4. AlignUp(t.length + 1) = q * Align
  BY DEF AlignUp, q
<1>5. QED
  BY <1>1, <1>3, <1>4 DEF StrLen, Least

\* A partition's entries begin inside it.
LEMMA FirstInside ==
  ASSUME NEW h \in Harts
  PROVE  /\ Base(h) \in Nat /\ First(h) \in Nat /\ Base(h) < First(h)
         /\ First(h) - Base(h) \in 0 .. Stride
         /\ NumHarts \in Nat /\ Stride \in Nat \ {0} /\ Size \in Nat /\ Base(h) + Stride <= Size
<1>1. h \in Nat /\ h + 1 <= NumHarts /\ NumHarts \in Nat /\ Stride \in Nat \ {0}
  BY TraceAssumption DEF Harts
<1>2. h * Stride \in Nat /\ NumHarts * Stride \in Nat /\ (h + 1) * Stride <= NumHarts * Stride
  BY <1>1
<1>3. (h + 1) * Stride = h * Stride + Stride
  BY <1>1
<1>4. StdHeader \in Nat \ {0} /\ SizeHeader \in Nat \ {0} /\ SizeHeader <= StdHeader /\ StdHeader <= Stride
  BY <1>1, TraceAssumption
<1>5. QED
  BY <1>1, <1>2, <1>3, <1>4 DEF Base, First, Size
-----------------------------------------------------------------------------
(***************************************************************************)
(* The invariant is inductive.                                             *)
(***************************************************************************)

LEMMA InitIInv == Init => IInv
<1> SUFFICES ASSUME Init PROVE IInv
  OBVIOUS
<1>1. TypeOK
  <2>1. \A h \in Harts : First(h) - Base(h) \in Int /\ First(h) - Base(h) <= Stride
    BY FirstInside
  <2>2. 0 \in 0 .. Size /\ 0 \in 0 .. NumHarts
    BY TraceAssumption DEF Size
  <2>3. QED
    BY <2>1, <2>2, TraceAssumption DEF Init, TypeOK
<1>2. MemoryOwned
  <2>1. \A a \in 0 .. Size - 1 : First(a \div Stride) - a \in Int
    <3> SUFFICES ASSUME NEW a \in 0 .. Size - 1 PROVE First(a \div Stride) - a \in Int
      OBVIOUS
    <3>1. Size \in Int /\ Stride \in Nat \ {0} /\ StdHeader \in Int /\ SizeHeader \in Int
      BY TraceAssumption DEF Size
    <3>2. a \div Stride \in Int
      BY <3>1
    <3>3. QED
      BY <3>1, <3>2 DEF First, Base
  <2>2. QED
    BY <2>1 DEF Init, MemoryOwned
<1>3. HeadersIntact
  <2> SUFFICES ASSUME NEW h \in Harts PROVE memory[Base(h)] \in {SizeOf(n) : n \in Int}
    BY DEF HeadersIntact
  <2>1. Base(h) \in 0 .. Size - 1 /\ First(h) - Base(h) \in Int
    BY FirstInside
  <2>2. memory[Base(h)] = SizeOf(First(h) - Base(h))
    BY <2>1, BaseOfPartition DEF Init
  <2>3. QED
    BY <2>1, <2>2
<1>4. EntriesFit
  BY FirstInside DEF Init, EntriesFit
<1>5. QED
  BY <1>1, <1>2, <1>3, <1>4 DEF IInv, Init, NotYetDecoding

\* The place of an entry under way, and where it ends.
LEMMA EntryInside ==
  ASSUME IInv, NEW h \in Harts, pc[h] # "idle"
  PROVE  /\ text[h] \in [hart : {h}, call : 0 .. MaxTexts, length : Lengths]
         /\ StrLen(text[h]) \in Nat /\ EntryHeader \in Nat \ {0} /\ Place(h) \in Nat
         /\ Base(h) < Place(h)
         /\ Place(h) + EntryHeader + StrLen(text[h]) <= Base(h) + Stride
<1>1. /\ text[h] \in [hart : {h}, call : 0 .. MaxTexts, length : Lengths]
      /\ Fits(h, text[h])
      /\ offset[h] \in First(h) - Base(h) .. Stride
  BY DEF IInv, TypeOK, EntriesFit
<1>2. text[h].length \in Nat /\ EntryHeader \in Nat \ {0}
  BY <1>1, TraceAssumption
<1>3. StrLen(text[h]) \in Nat
  BY <1>2, StrLenNat
<1>4. QED
  BY <1>1, <1>2, <1>3, FirstInside DEF Fits, Place

\* A byte of an entry of hart h may lie where h has its partition.
LEMMA EntryBytes ==
  ASSUME NEW h \in Harts, NEW t \in [hart : {h}, call : 0 .. MaxTexts, length : Lengths],
         StrLen(t) \in Nat
  PROVE  /\ EntryHead(t) \in Entries(h)
         /\ \A i \in Nat : Byte(t, i) \in Entries(h) \cup {Nul}
  BY DEF EntryHead, Entries, Byte, Char

LEMMA TraceStrIInv == ASSUME IInv, NEW h \in Harts, TraceStr(h) PROVE IInv'
<1>1. PICK length \in Lengths :
        LET t == [hart |-> h, call |-> texts[h], length |-> length] IN
        IF h \in enabled /\ Fits(h, t)
        THEN text' = [text EXCEPT ![h] = t] /\ Goto(h, "head")
        ELSE UNCHANGED <<text, pc>>
  BY DEF TraceStr
<1>2. texts' = [texts EXCEPT ![h] = @ + 1] /\ texts[h] \in 0 .. MaxTexts /\ texts[h] < MaxTexts
      /\ MaxTexts \in Nat
  BY TraceAssumption DEF TraceStr, IInv, TypeOK
<1>3. UNCHANGED <<memory, enabled, offset, recorded, torn, phase, copied, segment, at, decoded>>
  BY DEF TraceStr, hostVars
<1>4. MemoryOwned' /\ HeadersIntact'
  BY <1>3 DEF IInv, MemoryOwned, HeadersIntact
<1>5. TypeOK' /\ EntriesFit' /\ NotYetDecoding'
  <2>1. CASE UNCHANGED <<text, pc>>
    BY <1>2, <1>3, <2>1 DEF IInv, NotYetDecoding, TypeOK, EntriesFit, Fits
  <2>2. CASE text' = [text EXCEPT ![h] = [hart |-> h, call |-> texts[h], length |-> length]]
             /\ Goto(h, "head") /\ Fits(h, [hart |-> h, call |-> texts[h], length |-> length])
    BY <1>2, <1>3, <2>2 DEF IInv, NotYetDecoding, TypeOK, EntriesFit, Fits, Goto
  <2>3. QED
    BY <1>1, <2>1, <2>2
<1>6. QED
  BY <1>4, <1>5 DEF IInv

\* What a write to the partition of one hart leaves intact.
LEMMA WriteOwned ==
  ASSUME IInv, NEW h \in Harts, NEW lo \in Nat, NEW hi \in Nat,
         Base(h) < lo, hi < Base(h) + Stride,
         NEW byte,
         \A a \in lo .. hi : byte[a] \in Entries(h) \cup {Nul, Other},
         memory' = [a \in DOMAIN memory |-> IF a \in lo .. hi THEN byte[a] ELSE memory[a]]
  PROVE  MemoryOwned' /\ HeadersIntact'
<1>1. ASSUME NEW a \in 0 .. Size - 1
      PROVE  memory'[a] \in Entries(a \div Stride) \cup {Nul, Other} \cup {SizeOf(n) : n \in Int}
  <2>1. CASE a \in lo .. hi
    <3>1. Base(h) \in Nat /\ Stride \in Nat /\ a \in Int /\ Base(h) <= a /\ a < Base(h) + Stride
      BY <2>1, FirstInside
    <3>2. a \div Stride = h
      BY <3>1, OwnPartition
    <3>3. memory'[a] = byte[a]
      BY <2>1 DEF IInv, MemoryOwned
    <3>4. QED
      BY <2>1, <3>2, <3>3
  <2>2. CASE a \notin lo .. hi
    BY <2>2 DEF IInv, MemoryOwned
  <2>3. QED
    BY <2>1, <2>2
<1>2. MemoryOwned'
  BY <1>1 DEF IInv, MemoryOwned
<1>3. ASSUME NEW g \in Harts PROVE memory'[Base(g)] = memory[Base(g)]
  <2>1. Base(g) \in 0 .. Size - 1 /\ Base(h) \in Nat /\ Stride \in Nat
    BY FirstInside
  <2>2. Base(g) \notin lo .. hi
    <3> SUFFICES ASSUME Base(g) \in lo .. hi PROVE FALSE
      OBVIOUS
    <3>1. Base(g) \div Stride = h
      BY <2>1, OwnPartition
    <3>2. g = h
      BY <3>1, BaseOfPartition
    <3>3. QED
      BY <2>1, <3>2
  <2>3. QED
    BY <2>1, <2>2 DEF IInv, MemoryOwned
<1>4. QED
  BY <1>2, <1>3 DEF IInv, HeadersIntact

LEMMA WriteHeadIInv == ASSUME IInv, NEW h \in Harts, WriteHead(h) PROVE IInv'
<1>1. /\ pc' = [pc EXCEPT ![h] = "body"] /\ pc[h] = "head"
      /\ UNCHANGED <<enabled, offset, text, recorded, texts, torn, phase, copied, segment, at, decoded>>
  BY DEF WriteHead, Goto, hostVars
<1>2. TypeOK' /\ EntriesFit' /\ NotYetDecoding'
  BY <1>1 DEF IInv, NotYetDecoding, TypeOK, EntriesFit, Fits
<1>3. MemoryOwned' /\ HeadersIntact'
  <2> DEFINE lo == Place(h)
             hi == Place(h) + EntryHeader - 1
             byte == [a \in lo .. hi |-> IF a = Place(h) THEN EntryHead(text[h]) ELSE Other]
  <2>1. /\ lo \in Nat /\ hi \in Nat /\ Base(h) < lo /\ hi < Base(h) + Stride
        /\ EntryHeader \in Nat \ {0}
    BY <1>1, EntryInside, FirstInside
  <2>2. \A a \in lo .. hi : byte[a] \in Entries(h) \cup {Nul, Other}
    BY <1>1, EntryInside, EntryBytes
  <2>3. memory' = [a \in DOMAIN memory |-> IF a \in lo .. hi THEN byte[a] ELSE memory[a]]
    <3>1. \A a \in DOMAIN memory :
            (IF a = Place(h) THEN EntryHead(text[h])
             ELSE IF a \in Place(h) + 1 .. Place(h) + EntryHeader - 1 THEN Other
             ELSE memory[a]) = (IF a \in lo .. hi THEN byte[a] ELSE memory[a])
      BY <2>1 DEF IInv, MemoryOwned
    <3>2. QED
      BY <3>1, Zenon DEF WriteHead
  <2> HIDE DEF lo, hi, byte
  <2>4. QED
    BY <2>1, <2>2, <2>3, WriteOwned
<1>4. QED
  BY <1>2, <1>3 DEF IInv

LEMMA WriteBodyIInv == ASSUME IInv, NEW h \in Harts, WriteBody(h) PROVE IInv'
<1>1. /\ pc' = [pc EXCEPT ![h] = "commit"] /\ pc[h] = "body"
      /\ UNCHANGED <<enabled, offset, text, recorded, texts, torn, phase, copied, segment, at, decoded>>
  BY DEF WriteBody, Goto, hostVars
<1>2. TypeOK' /\ EntriesFit' /\ NotYetDecoding'
  BY <1>1 DEF IInv, NotYetDecoding, TypeOK, EntriesFit, Fits
<1>3. MemoryOwned' /\ HeadersIntact'
  <2> DEFINE lo == Place(h) + EntryHeader
             hi == lo + StrLen(text[h]) - 1
             byte == [a \in lo .. hi |-> Byte(text[h], a - lo)]
  <2>1. /\ lo \in Nat /\ hi \in Nat /\ Base(h) < lo /\ hi < Base(h) + Stride
    BY <1>1, EntryInside, FirstInside
  <2>2. \A a \in lo .. hi : byte[a] \in Entries(h) \cup {Nul, Other}
    <3>1. \A a \in lo .. hi : a - lo \in Nat
      BY <2>1
    <3>2. QED
      BY <1>1, <3>1, EntryInside, EntryBytes
  <2>3. memory' = [a \in DOMAIN memory |-> IF a \in lo .. hi THEN byte[a] ELSE memory[a]]
    BY Zenon DEF WriteBody
  <2> HIDE DEF lo, hi, byte
  <2>4. QED
    BY <2>1, <2>2, <2>3, WriteOwned
<1>4. QED
  BY <1>2, <1>3 DEF IInv

LEMMA CommitIInv == ASSUME IInv, NEW h \in Harts, Commit(h) PROVE IInv'
<1>1. /\ pc' = [pc EXCEPT ![h] = "idle"] /\ pc[h] = "commit"
      /\ offset' = [offset EXCEPT ![h] = @ + EntryLen(text[h])]
      /\ text' = [text EXCEPT ![h] = None]
      /\ UNCHANGED <<memory, enabled, texts, torn, phase, copied, segment, at, decoded>>
  BY DEF Commit, Goto, hostVars
<1>2. /\ offset[h] + EntryLen(text[h]) <= Stride /\ EntryLen(text[h]) \in Nat
      /\ offset[h] \in First(h) - Base(h) .. Stride
  BY <1>1, EntryInside, FirstInside DEF Place, EntryLen, IInv, TypeOK
<1>3. \A g \in Harts : First(g) - Base(g) \in Int
  BY FirstInside
<1>4. TypeOK' /\ EntriesFit' /\ NotYetDecoding'
  BY <1>1, <1>2, <1>3 DEF IInv, NotYetDecoding, TypeOK, EntriesFit, Fits
<1>5. MemoryOwned' /\ HeadersIntact'
  BY <1>1 DEF IInv, MemoryOwned, HeadersIntact
<1>6. QED
  BY <1>4, <1>5 DEF IInv

LEMMA CorruptIInv == ASSUME IInv, NEW h \in Harts, Corrupt(h) PROVE IInv'
<1>1. PICK a \in First(h) .. Base(h) + offset[h] - 1, n \in {1, Stride, Size} :
        memory[a].kind = "head" /\ memory' = [memory EXCEPT ![a].size = @ + n]
  BY DEF Corrupt
<1>2. torn' = h /\ UNCHANGED <<enabled, offset, pc, text, texts, phase, copied, segment, at, decoded>>
  BY DEF Corrupt, kernelVars, hostVars
<1>3. TypeOK' /\ EntriesFit' /\ NotYetDecoding'
  BY <1>2 DEF IInv, NotYetDecoding, TypeOK, EntriesFit, Fits
<1>4. a \in 0 .. Size - 1 /\ n \in Nat
  BY FirstInside DEF IInv, TypeOK
<1>5. memory[a] \in [kind : {"head"}, hart : {a \div Stride}, size : Nat]
  BY <1>1, <1>4 DEF IInv, MemoryOwned, Entries, Nul, Other, SizeOf
<1>6. [memory[a] EXCEPT !.size = @ + n] \in Entries(a \div Stride)
  BY <1>4, <1>5 DEF Entries
<1>7. memory' = [memory EXCEPT ![a] = [memory[a] EXCEPT !.size = @ + n]]
  BY <1>1
<1>8. MemoryOwned'
  BY <1>4, <1>6, <1>7 DEF IInv, MemoryOwned
<1>9. HeadersIntact'
  <2> SUFFICES ASSUME NEW g \in Harts PROVE memory'[Base(g)] = memory[Base(g)]
    BY DEF IInv, HeadersIntact
  <2>1. memory[Base(g)].kind # "head"
    BY DEF IInv, HeadersIntact, SizeOf
  <2>2. QED
    BY <1>1, <1>4, <1>7, <2>1 DEF IInv, MemoryOwned
<1>10. QED
  BY <1>3, <1>8, <1>9 DEF IInv

LEMMA KernelOverIInv == ASSUME IInv, KernelOver PROVE IInv'
<1>1. /\ phase' = "over"
      /\ memory' = [a \in DOMAIN memory |->
                     IF a % Stride = 0 THEN SizeOf(offset[a \div Stride]) ELSE memory[a]]
      /\ UNCHANGED <<enabled, offset, pc, text, texts, torn, copied, segment, at, decoded>>
      /\ phase = "kernel"
  BY DEF KernelOver, kernelVars, hostVars
<1>2. TypeOK' /\ EntriesFit' /\ NotYetDecoding'
  BY <1>1 DEF IInv, NotYetDecoding, TypeOK, EntriesFit, Fits
<1>3. \A a \in 0 .. Size - 1 : a \div Stride \in Harts
  <2> SUFFICES ASSUME NEW a \in 0 .. Size - 1 PROVE a \div Stride \in 0 .. NumHarts - 1
    BY DEF Harts
  <2> DEFINE q == a \div Stride
  <2>1. Stride \in Nat \ {0} /\ NumHarts \in Nat /\ a \in Nat /\ a < NumHarts * Stride
    BY TraceAssumption DEF Size
  <2>2. q \in Nat /\ q * Stride <= a
    BY <2>1
  <2> HIDE DEF q
  <2>3. q * Stride < NumHarts * Stride
    BY <2>1, <2>2
  <2>4. q < NumHarts
    BY <2>1, <2>2, <2>3
  <2>5. QED
    BY <2>1, <2>2, <2>4 DEF q
<1>4. MemoryOwned'
  BY <1>1, <1>3 DEF IInv, MemoryOwned, EntriesFit
<1>5. HeadersIntact'
  <2> SUFFICES ASSUME NEW h \in Harts PROVE memory'[Base(h)] \in {SizeOf(n) : n \in Int}
    BY DEF HeadersIntact
  <2>1. Base(h) \in 0 .. Size - 1
    BY FirstInside
  <2>2. memory'[Base(h)] = SizeOf(offset[h]) /\ offset[h] \in Int
    BY <1>1, <2>1, BaseOfPartition DEF IInv, MemoryOwned, EntriesFit
  <2>3. QED
    BY <2>2
<1>6. QED
  BY <1>2, <1>4, <1>5 DEF IInv

LEMMA HostIInv == ASSUME IInv, Copy \/ Decode PROVE IInv'
<1>1. UNCHANGED <<memory, enabled, offset, pc, text, texts, torn>>
  BY DEF Copy, Decode, NextEntry, Exhausted, DecodeEnds, kernelVars
<1>2. MemoryOwned' /\ HeadersIntact' /\ EntriesFit'
  BY <1>1 DEF IInv, MemoryOwned, HeadersIntact, EntriesFit, Fits
<1>3. TypeOK' /\ NotYetDecoding'
  <2> USE DEF NotYetDecoding
  <2>1. CASE Copy
    <3>1. \A n \in CopiedLengths : n \in 0 .. Size
      BY TraceAssumption DEF Size
    <3>2. at = None
      BY <2>1 DEF Copy, IInv
    <3>3. QED
      BY <1>1, <2>1, <3>1, <3>2 DEF IInv, TypeOK, Copy
  <2>2. CASE NextEntry
    <3>1. segment \in Harts /\ NumHarts \in Nat /\ copied \in Nat
      BY <2>2, TraceAssumption DEF NextEntry, Populated, IInv, TypeOK, Harts, Size
    <3>2. Here \in Nat
      BY <3>1, FirstInside DEF Here, IInv, TypeOK
    <3>3. PayloadSize \in Nat /\ EntryHeader \in Nat
      <4>1. copied \in 0 .. Size /\ Here + EntryHeader <= End(segment) /\ EntryHeader \in Nat \ {0}
        BY <2>2, TraceAssumption DEF IInv, TypeOK, NextEntry
      <4>2. memory[Base(segment)].size \in Int /\ Base(segment) \in Nat /\ Size \in Nat
        BY <3>1, FirstInside DEF IInv, HeadersIntact, SizeOf
      <4>3. Here \in 0 .. Size - 1
        BY <3>2, <4>1, <4>2 DEF End, Least
      <4>4. QED
        BY <4>1, <4>3 DEF PayloadSize, IInv, MemoryOwned, Entries, Nul, Other, SizeOf
    <3>4. at' \in 0 .. copied
      BY <2>2, <3>1, <3>2, <3>3 DEF NextEntry, Inside
    <3>5. QED
      BY <1>1, <2>2, <3>4 DEF IInv, TypeOK, NextEntry
  <2>3. CASE Exhausted
    BY <1>1, <2>3, TraceAssumption DEF IInv, TypeOK, Exhausted, NextPartition
  <2>4. CASE DecodeEnds
    BY <1>1, <2>4 DEF IInv, TypeOK, DecodeEnds, hostVars
  <2>5. QED
    BY <2>1, <2>2, <2>3, <2>4 DEF Decode
<1>4. QED
  BY <1>2, <1>3 DEF IInv

LEMMA NextIInv == IInv /\ [Next]_vars => IInv'
<1> SUFFICES ASSUME IInv, [Next]_vars PROVE IInv'
  OBVIOUS
<1>1. ASSUME NEW h \in Harts, TraceStr(h) PROVE IInv'
  BY <1>1, TraceStrIInv
<1>2. ASSUME NEW h \in Harts, WriteHead(h) PROVE IInv'
  BY <1>2, WriteHeadIInv
<1>3. ASSUME NEW h \in Harts, WriteBody(h) PROVE IInv'
  BY <1>3, WriteBodyIInv
<1>4. ASSUME NEW h \in Harts, Commit(h) PROVE IInv'
  BY <1>4, CommitIInv
<1>5. ASSUME NEW h \in Harts, Corrupt(h) PROVE IInv'
  BY <1>5, CorruptIInv
<1>6. CASE KernelOver
  BY <1>6, KernelOverIInv
<1>7. CASE Copy \/ Decode
  BY <1>7, HostIInv
<1>8. CASE UNCHANGED vars
  BY <1>8 DEF vars, kernelVars, hostVars, IInv, TypeOK, MemoryOwned, HeadersIntact,
              EntriesFit, Fits, NotYetDecoding
<1>9. QED
  BY <1>1, <1>2, <1>3, <1>4, <1>5, <1>6, <1>7, <1>8 DEF Next
-----------------------------------------------------------------------------
(***************************************************************************)
(* Theorems.                                                               *)
(***************************************************************************)

\* The inductive invariant: entries fit where their hart puts them, and every
\* byte of an entry lies in its hart's partition, behind the partition's header.
THEOREM Inductive == Spec => []IInv
<1>1. Init => IInv
  BY InitIInv
<1>2. IInv /\ [Next]_vars => IInv'
  BY NextIInv
<1>3. QED
  BY <1>1, <1>2, PTL DEF Spec

\* trace_str never writes into the partition of another hart, whatever the sizes
\* of partitions, headers and texts, and however the kernel's harts interleave.
THEOREM PartitionsKept == Spec => []PartitionsPrivate
<1>1. IInv => PartitionsPrivate
  <2> SUFFICES ASSUME IInv, NEW h \in Harts, NEW a \in 0 .. Size - 1,
                      memory[a].kind \in {"head", "char"}, memory[a].hart = h
               PROVE  a \div Stride = h
    BY DEF IInv, PartitionsPrivate
  <2>1. memory[a] \in Entries(a \div Stride)
    BY DEF IInv, MemoryOwned, Nul, Other, SizeOf
  <2>2. QED
    BY <2>1 DEF Entries
<1>2. QED
  BY Inductive, <1>1, PTL
-----------------------------------------------------------------------------
(***************************************************************************)
(* What the decoder yields.                                                *)
(***************************************************************************)
Texts(h) == [hart : {h}, call : 0 .. MaxTexts, length : Lengths]
Chars == [kind : {"char"}, hart : Harts, call : 0 .. MaxTexts, at : Nat]

\* What has been recorded in partition h lies there: entry i, of text ts[i], at
\* pos[i], one behind the other up to the offset.
Layout(h, pos, ts) ==
  /\ pos \in [1 .. Len(recorded[h]) + 1 -> Int]
  /\ ts \in [1 .. Len(recorded[h]) -> Texts(h)]
  /\ pos[1] = First(h)
  /\ pos[Len(recorded[h]) + 1] = Base(h) + offset[h]
  /\ \A i \in 1 .. Len(recorded[h]) :
       /\ pos[i + 1] = pos[i] + EntryHeader + StrLen(ts[i])
       /\ First(h) <= pos[i] /\ pos[i + 1] <= Base(h) + offset[h]
       /\ recorded[h][i] = Kept(ts[i])
       /\ memory[pos[i]] = EntryHead(ts[i])
       /\ \A j \in 0 .. StrLen(ts[i]) - 1 : memory[pos[i] + EntryHeader + j] = Byte(ts[i], j)

\* How far the decoder is: it has yielded what has been recorded so far, and
\* stands at the next entry; it leaves none behind.
DecodedTo(h, pos) ==
  /\ Len(decoded[h]) <= Len(recorded[h])
  /\ \A i \in 1 .. Len(decoded[h]) : decoded[h][i] = recorded[h][i]
  /\ segment < h => Len(decoded[h]) = 0
  /\ segment = h => Here = pos[Len(decoded[h]) + 1]
  /\ segment > h /\ copied = Size => Len(decoded[h]) = Len(recorded[h])

Laid(h) == \E pos, ts : Layout(h, pos, ts) /\ DecodedTo(h, pos)

\* The entry under way is written up to where its hart is.
Written(h) ==
  /\ pc[h] \in {"body", "commit"} => memory[Place(h)] = EntryHead(text[h])
  /\ pc[h] = "commit" =>
       \A j \in 0 .. StrLen(text[h]) - 1 : memory[Place(h) + EntryHeader + j] = Byte(text[h], j)

\* Phases, and the types that need the state to be intact.
Decoding ==
  /\ phase \in {"kernel", "over"} => segment = 0
  /\ phase # "kernel" => \A h \in Harts : memory[Base(h)] = SizeOf(offset[h])
  /\ phase = "done" => segment = NumHarts
  /\ recorded \in [Harts -> Seq(Seq(Chars))]
  /\ DOMAIN decoded = Harts
  /\ \A h \in Harts \ {torn} : decoded[h] \in Seq(Seq(Chars))

DInv == IInv /\ Decoding /\ \A h \in Harts \ {torn} : Laid(h) /\ Written(h)

\* A text has at least its NUL.
LEMMA StrLenPositive ==
  ASSUME NEW t, t.length \in Nat
  PROVE  /\ StrLen(t) \in Nat \ {0}
         /\ t.length <= StrLen(t) - 1 \/ StrLen(t) = StringMax
<1> DEFINE q == (t.length + 1 + Align - 1) \div Align
<1>1. Align \in Nat \ {0} /\ StringMax \in Nat \ {0}
  BY TraceAssumption
<1>2. q \in Nat /\ t.length + 1 + Align - 1 < q * Align + Align
  BY <1>1
<1> HIDE DEF q
<1>3. q * Align \in Nat
  BY <1>1, <1>2
<1>4. AlignUp(t.length + 1) = q * Align
  BY DEF AlignUp, q
<1>5. QED
  BY <1>1, <1>2, <1>3, <1>4 DEF StrLen, Least

LEMMA KeptType ==
  ASSUME NEW h \in Harts, NEW t \in Texts(h)
  PROVE  /\ t.length \in Nat /\ StrLen(t) \in Nat \ {0}
         /\ Least(t.length, StrLen(t) - 1) \in Nat
         /\ Kept(t) \in Seq(Chars)
<1>1. t.length \in Nat
  BY TraceAssumption DEF Texts
<1>2. StrLen(t) \in Nat \ {0}
  BY <1>1, StrLenPositive
<1>3. Least(t.length, StrLen(t) - 1) \in Nat
  BY <1>1, <1>2 DEF Least
<1>4. \A i \in 1 .. Least(t.length, StrLen(t) - 1) : Char(t, i - 1) \in Chars
  <2>1. \A i \in Nat : Char(t, i) \in Chars
    BY DEF Char, Chars, Texts
  <2>2. QED
    BY <1>3, <2>1
<1>5. Kept(t) \in Seq(Chars)
  BY <1>3, <1>4 DEF Kept
<1>6. QED
  BY <1>1, <1>2, <1>3, <1>5

\* `decode_cstr` gets back what `trace_str` has kept of a text, which ends with
\* the first NUL.
LEMMA TextOfEntry ==
  ASSUME NEW h \in Harts, NEW t \in Texts(h), NEW payload,
         payload = [i \in 1 .. StrLen(t) |-> Byte(t, i - 1)]
  PROVE  Text(payload) = Kept(t)
<1> DEFINE m == Least(t.length, StrLen(t) - 1)
           nuls == {i \in DOMAIN payload : payload[i] = Nul}
           c == CHOOSE i \in nuls : \A j \in nuls : i <= j
<1>1. t.length \in Nat /\ StrLen(t) \in Nat \ {0} /\ m \in Nat /\ m + 1 \in 1 .. StrLen(t)
  BY KeptType DEF Least
<1>2. \A i \in 1 .. m : i \in DOMAIN payload /\ payload[i] = Char(t, i - 1)
  BY <1>1 DEF Byte, Least
<1>3. payload[m + 1] = Nul /\ m + 1 \in DOMAIN payload
  BY <1>1 DEF Byte, Least
<1>4. nuls \subseteq 1 .. StrLen(t)
  OBVIOUS
<1>5. payload \in Seq(Chars \cup {Nul})
  <2>1. \A i \in Nat : Byte(t, i) \in Chars \cup {Nul}
    BY DEF Byte, Char, Chars, Texts
  <2>2. \A i \in 1 .. StrLen(t) : Byte(t, i - 1) \in Chars \cup {Nul}
    BY <1>1, <2>1
  <2>3. QED
    BY <1>1, <2>2
<1> HIDE DEF m
<1>6. \A i : Char(t, i) # Nul
  BY DEF Char, Nul
<1>7. m + 1 \in nuls /\ \A i \in 1 .. m : i \notin nuls
  BY <1>2, <1>3, <1>6, Zenon
<1> HIDE DEF nuls
<1>8. \A j \in nuls : m + 1 <= j
  BY <1>1, <1>4, <1>7
<1>9. c \in nuls /\ \A j \in nuls : c <= j
  BY <1>7, <1>8
<1> HIDE DEF c
<1>10. c = m + 1
  BY <1>1, <1>4, <1>7, <1>8, <1>9
<1>11. SubSeq(payload, 1, m) = [i \in 1 .. m |-> Char(t, i - 1)]
  <2>1. Len(payload) = StrLen(t) /\ m <= Len(payload)
    BY <1>1
  <2>2. SubSeq(payload, 1, m) = [i \in 1 .. m |-> payload[i]]
    BY <1>1, <1>5, <2>1
  <2>3. QED
    BY <1>2, <2>2
<1>12. Text(payload) = SubSeq(payload, 1, c - 1)
  BY <1>7, Zenon DEF Text, nuls, c
<1>13. c - 1 = m
  BY <1>1, <1>10
<1>14. QED
  BY <1>11, <1>12, <1>13, Zenon DEF Kept, m

\* Where the parts of an entry lie.
LEMMA EntryPlaces ==
  ASSUME IInv, NEW h \in Harts, NEW pos, NEW ts, Layout(h, pos, ts),
         recorded[h] \in Seq(Seq(Chars)),
         NEW i \in 1 .. Len(recorded[h])
  PROVE  /\ StrLen(ts[i]) \in Nat \ {0} /\ EntryHeader \in Nat \ {0}
         /\ First(h) <= pos[i] /\ pos[i] < Base(h) + offset[h]
         /\ pos[i] \in Int /\ offset[h] \in Int /\ offset[h] <= Stride
         /\ pos[i] + EntryHeader + StrLen(ts[i]) <= Base(h) + offset[h]
<1>1. Len(recorded[h]) \in Nat /\ i \in 1 .. Len(recorded[h]) + 1 /\ i + 1 \in 1 .. Len(recorded[h]) + 1
  OBVIOUS
<1>2. ts[i] \in Texts(h) /\ pos[i] \in Int
  BY <1>1 DEF Layout
<1>3. StrLen(ts[i]) \in Nat \ {0} /\ EntryHeader \in Nat \ {0}
  BY <1>2, KeptType, TraceAssumption
<1>4. offset[h] \in Int /\ offset[h] <= Stride /\ Base(h) \in Int
  BY FirstInside DEF IInv, TypeOK, EntriesFit
<1>5. /\ pos[i + 1] = pos[i] + EntryHeader + StrLen(ts[i])
      /\ First(h) <= pos[i] /\ pos[i + 1] <= Base(h) + offset[h]
  BY DEF Layout
<1>6. QED
  BY <1>2, <1>3, <1>4, <1>5

\* Entries stay where the memory below the offset does.
LEMMA LaidKept ==
  ASSUME IInv, NEW h \in Harts, Laid(h), recorded[h] \in Seq(Seq(Chars)),
         \A a \in Int : First(h) <= a /\ a < Base(h) + offset[h] => memory'[a] = memory[a],
         offset'[h] = offset[h], recorded'[h] = recorded[h],
         UNCHANGED <<segment, at, decoded>>,
         segment = 0 \/ UNCHANGED copied
  PROVE  Laid(h)'
<1>1. PICK pos, ts : Layout(h, pos, ts) /\ DecodedTo(h, pos)
  BY DEF Laid
<1>2. ASSUME NEW i \in 1 .. Len(recorded[h])
      PROVE  /\ memory'[pos[i]] = memory[pos[i]]
             /\ \A j \in 0 .. StrLen(ts[i]) - 1 :
                  memory'[pos[i] + EntryHeader + j] = memory[pos[i] + EntryHeader + j]
  <2>1. /\ StrLen(ts[i]) \in Nat \ {0} /\ EntryHeader \in Nat \ {0}
        /\ First(h) <= pos[i] /\ pos[i] < Base(h) + offset[h]
        /\ pos[i] \in Int /\ offset[h] \in Int /\ First(h) \in Int /\ Base(h) \in Int
        /\ pos[i] + EntryHeader + StrLen(ts[i]) <= Base(h) + offset[h]
    <3>1. /\ StrLen(ts[i]) \in Nat \ {0} /\ EntryHeader \in Nat \ {0}
          /\ First(h) <= pos[i] /\ pos[i] < Base(h) + offset[h]
          /\ pos[i] \in Int /\ offset[h] \in Int
          /\ pos[i] + EntryHeader + StrLen(ts[i]) <= Base(h) + offset[h]
      BY <1>1, EntryPlaces
    <3>2. First(h) \in Int /\ Base(h) \in Int
      BY FirstInside
    <3>3. QED
      BY <3>1, <3>2
  <2>2. memory'[pos[i]] = memory[pos[i]]
    BY <2>1
  <2>3. ASSUME NEW j \in 0 .. StrLen(ts[i]) - 1
        PROVE  memory'[pos[i] + EntryHeader + j] = memory[pos[i] + EntryHeader + j]
    <3> DEFINE p == pos[i]
               n == StrLen(ts[i])
               b == Base(h) + offset[h]
               f == First(h)
    <3>1. p \in Int /\ n \in Nat /\ b \in Int /\ f \in Int /\ EntryHeader \in Nat /\ f <= p
      BY <2>1
    <3>2. p + EntryHeader + n <= b
      BY <2>1
    <3>3. j \in 0 .. n - 1
      OBVIOUS
    <3> HIDE DEF p, n, b, f
    <3>4. p + EntryHeader + j \in Int /\ f <= p + EntryHeader + j /\ p + EntryHeader + j < b
      BY <3>1, <3>2, <3>3
    <3>5. QED
      BY <3>4 DEF p, b, f
  <2>4. QED
    BY <2>2, <2>3
<1>3. Layout(h, pos, ts)'
  BY <1>1, <1>2 DEF Layout
<1>4. DecodedTo(h, pos)'
  <2>1. segment > h => segment # 0
    BY DEF Harts
  <2>2. QED
    BY <1>1, <2>1 DEF DecodedTo, Here
<1>5. QED
  BY <1>3, <1>4 DEF Laid

\* Partitions do not meet.
LEMMA OthersKept ==
  ASSUME IInv, NEW h \in Harts, NEW g \in Harts, g # h,
         \A a \in 0 .. Size - 1 :
           a < Base(h) \/ a >= Base(h) + Stride => memory'[a] = memory[a]
  PROVE  \A a \in Int : Base(g) <= a /\ a < Base(g) + Stride => memory'[a] = memory[a]
<1> SUFFICES ASSUME NEW a \in Int, Base(g) <= a, a < Base(g) + Stride
             PROVE  memory'[a] = memory[a]
  OBVIOUS
<1>1. a \div Stride = g
  BY OwnPartition
<1>2. a \in 0 .. Size - 1 /\ Base(h) \in Int /\ Stride \in Int
  BY FirstInside
<1>3. ~(Base(h) <= a /\ a < Base(h) + Stride)
  BY <1>1, OwnPartition
<1>4. QED
  BY <1>2, <1>3

\* Nor does an entry begin where a partition does.
LEMMA NoBaseInside ==
  ASSUME NEW h \in Harts, NEW a \in Int, Base(h) < a, a < Base(h) + Stride
  PROVE  a % Stride # 0
<1>1. a \div Stride = h /\ Stride \in Nat \ {0} /\ Base(h) \in Int /\ h \in Int
  BY OwnPartition, FirstInside DEF Harts
<1>2. a = (a \div Stride) * Stride + (a % Stride)
  BY <1>1
<1>3. a # h * Stride
  BY DEF Base
<1>4. QED
  BY <1>1, <1>2, <1>3

\* An entry under way stays where the memory of its partition does.
LEMMA WrittenKept ==
  ASSUME IInv, NEW h \in Harts, Written(h),
         \A a \in Int : Base(h) < a /\ a < Base(h) + Stride => memory'[a] = memory[a],
         pc'[h] = pc[h], text'[h] = text[h], offset'[h] = offset[h]
  PROVE  Written(h)'
<1>1. CASE pc[h] = "idle"
  BY <1>1 DEF Written
<1>2. CASE pc[h] # "idle"
  <2>1. /\ StrLen(text[h]) \in Nat /\ EntryHeader \in Nat \ {0} /\ Place(h) \in Nat
        /\ Base(h) < Place(h) /\ Base(h) \in Nat /\ Stride \in Nat
        /\ Place(h) + EntryHeader + StrLen(text[h]) <= Base(h) + Stride
    BY <1>2, EntryInside, FirstInside
  <2>2. Place(h)' = Place(h)
    BY DEF Place
  <2>3. memory'[Place(h)] = memory[Place(h)]
    BY <2>1
  <2>4. \A j \in 0 .. StrLen(text[h]) - 1 :
          memory'[Place(h) + EntryHeader + j] = memory[Place(h) + EntryHeader + j]
    BY <2>1
  <2> HIDE DEF Place
  <2>5. QED
    BY <2>2, <2>3, <2>4 DEF Written
<1>3. QED
  BY <1>1, <1>2

\* Offsets lie inside.
LEMMA OffsetInside ==
  ASSUME IInv, NEW h \in Harts
  PROVE  offset[h] \in Int /\ offset[h] <= Stride /\ First(h) <= Base(h) + offset[h]
BY FirstInside DEF IInv, TypeOK, EntriesFit

\* Nothing changes of a partition that is not written to.
LEMMA PartitionKept ==
  ASSUME IInv, NEW h \in Harts, Laid(h), Written(h), recorded[h] \in Seq(Seq(Chars)),
         \A a \in Int : Base(h) < a /\ a < Base(h) + Stride => memory'[a] = memory[a],
         pc'[h] = pc[h], text'[h] = text[h], offset'[h] = offset[h], recorded'[h] = recorded[h],
         UNCHANGED <<segment, at, decoded>>,
         segment = 0 \/ UNCHANGED copied
  PROVE  Laid(h)' /\ Written(h)'
<1>1. \A a \in Int : First(h) <= a /\ a < Base(h) + offset[h] => Base(h) < a /\ a < Base(h) + Stride
  BY FirstInside, OffsetInside
<1>2. Laid(h)'
  BY <1>1, LaidKept
<1>3. Written(h)'
  BY WrittenKept
<1>4. QED
  BY <1>2, <1>3

\* What the kernel does while it runs is no business of the decoder.
LEMMA StillKernel ==
  ASSUME Decoding, phase = "kernel",
         UNCHANGED <<phase, segment, recorded, decoded, torn>>
  PROVE  Decoding'
BY DEF Decoding

\* A step that writes above the offset of hart h and into its partition only.
LEMMA WriteKeepsLaid ==
  ASSUME DInv, NEW h \in Harts, NEW g \in Harts \ {torn},
         \A a \in 0 .. Size - 1 :
           a < Base(h) + offset[h] \/ a >= Base(h) + Stride => memory'[a] = memory[a],
         UNCHANGED <<offset, recorded, segment, at, decoded, copied>>
  PROVE  /\ Laid(g)'
         /\ g # h /\ pc'[g] = pc[g] /\ text'[g] = text[g] => Written(g)'
<1>1. recorded[g] \in Seq(Seq(Chars)) /\ Laid(g) /\ Written(g)
  BY DEF DInv, Decoding
<1>2. /\ \A f \in Harts : /\ Base(f) \in Nat /\ First(f) \in Nat /\ Base(f) < First(f)
                          /\ Base(f) + Stride <= Size /\ offset[f] \in Int /\ offset[f] <= Stride
                          /\ First(f) <= Base(f) + offset[f]
      /\ Stride \in Nat /\ Size \in Nat
  BY FirstInside, OffsetInside DEF DInv
<1>3. CASE g = h
  <2>1. \A a \in Int : First(g) <= a /\ a < Base(g) + offset[g] => memory'[a] = memory[a]
    BY <1>2, <1>3
  <2>2. QED
    BY <1>1, <1>3, <2>1, LaidKept DEF DInv
<1>4. CASE g # h
  <2>1. \A a \in Int : Base(g) <= a /\ a < Base(g) + Stride => memory'[a] = memory[a]
    BY <1>2, <1>4, OthersKept DEF DInv
  <2>2. Laid(g)'
    <3>1. \A a \in Int : First(g) <= a /\ a < Base(g) + offset[g] => memory'[a] = memory[a]
      BY <1>2, <2>1
    <3>2. QED
      BY <1>1, <3>1, LaidKept DEF DInv
  <2>3. ASSUME pc'[g] = pc[g], text'[g] = text[g] PROVE Written(g)'
    <3>1. \A a \in Int : Base(g) < a /\ a < Base(g) + Stride => memory'[a] = memory[a]
      BY <1>2, <2>1
    <3>2. offset'[g] = offset[g] /\ IInv
      BY DEF DInv
    <3>3. QED
      BY <1>1, <2>3, <3>1, <3>2, WrittenKept
  <2>4. QED
    BY <2>2, <2>3
<1>5. QED
  BY <1>3, <1>4

LEMMA TraceStrDInv == ASSUME DInv, IInv', NEW h \in Harts, TraceStr(h) PROVE DInv'
<1>1. /\ phase = "kernel" /\ pc[h] = "idle"
      /\ UNCHANGED <<memory, enabled, offset, recorded, torn, phase, copied, segment, at, decoded>>
  BY DEF TraceStr, hostVars
<1>2. pc'[h] \in {"idle", "head"} /\ \A g \in Harts \ {h} : pc'[g] = pc[g] /\ text'[g] = text[g]
  BY <1>1 DEF TraceStr, Goto, DInv, IInv, EntriesFit
<1>3. Decoding'
  BY <1>1, StillKernel DEF DInv
<1>4. ASSUME NEW g \in Harts \ {torn} PROVE Laid(g)' /\ Written(g)'
  <2>1. Written(h)'
    BY <1>2 DEF Written
  <2>2. QED
    BY <1>1, <1>2, <2>1, WriteKeepsLaid
<1>5. QED
  BY <1>1, <1>3, <1>4 DEF DInv

LEMMA WriteHeadDInv == ASSUME DInv, IInv', NEW h \in Harts, WriteHead(h) PROVE DInv'
<1>1. /\ phase = "kernel" /\ pc[h] = "head" /\ pc' = [pc EXCEPT ![h] = "body"]
      /\ UNCHANGED <<enabled, offset, text, recorded, texts, torn, phase, copied, segment, at, decoded>>
  BY DEF WriteHead, Goto, hostVars
<1>2. /\ Place(h) \in Nat /\ Base(h) < Place(h) /\ StrLen(text[h]) \in Nat
      /\ Place(h) + EntryHeader + StrLen(text[h]) <= Base(h) + Stride
      /\ EntryHeader \in Nat \ {0} /\ Base(h) + Stride <= Size /\ Base(h) \in Nat
      /\ Size \in Nat /\ Stride \in Nat /\ offset[h] \in Int /\ Place(h) = Base(h) + offset[h]
  BY <1>1, EntryInside, FirstInside, OffsetInside DEF DInv, Place
<1>3. \A a \in 0 .. Size - 1 :
        memory'[a] = IF a = Place(h) THEN EntryHead(text[h])
                     ELSE IF a \in Place(h) + 1 .. Place(h) + EntryHeader - 1 THEN Other
                     ELSE memory[a]
  BY DEF WriteHead, DInv, IInv, MemoryOwned
<1>4. \A a \in 0 .. Size - 1 :
        a < Base(h) + offset[h] \/ a >= Base(h) + Stride => memory'[a] = memory[a]
  BY <1>2, <1>3
<1>5. Decoding'
  BY <1>1, StillKernel DEF DInv
<1>6. ASSUME NEW g \in Harts \ {torn} PROVE Laid(g)' /\ Written(g)'
  <2>1. Written(h)'
    <3>1. pc'[h] = "body" /\ Place(h)' = Place(h)
      BY <1>1 DEF DInv, IInv, EntriesFit, Place
    <3>2. memory'[Place(h)] = EntryHead(text[h])
      BY <1>2, <1>3
    <3>3. QED
      BY <1>1, <3>1, <3>2 DEF Written
  <2>2. g # h => pc'[g] = pc[g] /\ text'[g] = text[g]
    BY <1>1 DEF DInv, IInv, EntriesFit
  <2>3. QED
    BY <1>1, <1>4, <2>1, <2>2, WriteKeepsLaid
<1>7. QED
  BY <1>1, <1>5, <1>6 DEF DInv

LEMMA WriteBodyDInv == ASSUME DInv, IInv', NEW h \in Harts, WriteBody(h) PROVE DInv'
<1> DEFINE start == Place(h) + EntryHeader
<1>1. /\ phase = "kernel" /\ pc[h] = "body" /\ pc' = [pc EXCEPT ![h] = "commit"]
      /\ UNCHANGED <<enabled, offset, text, recorded, texts, torn, phase, copied, segment, at, decoded>>
  BY DEF WriteBody, Goto, hostVars
<1>2. /\ Place(h) \in Nat /\ Base(h) < Place(h) /\ StrLen(text[h]) \in Nat
      /\ Place(h) + EntryHeader + StrLen(text[h]) <= Base(h) + Stride
      /\ EntryHeader \in Nat \ {0} /\ Base(h) + Stride <= Size /\ Base(h) \in Nat
      /\ Size \in Nat /\ Stride \in Nat /\ offset[h] \in Int /\ Place(h) = Base(h) + offset[h]
  BY <1>1, EntryInside, FirstInside, OffsetInside DEF DInv, Place
<1>3. \A a \in 0 .. Size - 1 :
        memory'[a] = IF a \in start .. start + StrLen(text[h]) - 1
                     THEN Byte(text[h], a - start) ELSE memory[a]
  BY DEF WriteBody, DInv, IInv, MemoryOwned
<1>4. \A a \in 0 .. Size - 1 :
        a < Base(h) + offset[h] \/ a >= Base(h) + Stride => memory'[a] = memory[a]
  BY <1>2, <1>3
<1>5. Decoding'
  BY <1>1, StillKernel DEF DInv
<1>6. ASSUME NEW g \in Harts \ {torn} PROVE Laid(g)' /\ Written(g)'
  <2>1. g = h => Written(h)'
    <3>1. pc'[h] = "commit" /\ Place(h)' = Place(h) /\ text' = text
      BY <1>1 DEF DInv, IInv, EntriesFit, Place
    <3>2. memory'[Place(h)] = memory[Place(h)]
      BY <1>2, <1>3
    <3>3. ASSUME NEW j \in 0 .. StrLen(text[h]) - 1
          PROVE  memory'[Place(h) + EntryHeader + j] = Byte(text[h], j)
      <4>1. start + j \in 0 .. Size - 1 /\ start + j \in start .. start + StrLen(text[h]) - 1
            /\ (start + j) - start = j
        BY <1>2
      <4>2. QED
        BY <1>3, <4>1
    <3>4. g = h => memory[Place(h)] = EntryHead(text[h])
      BY <1>1 DEF DInv, Written
    <3>5. QED
      BY <3>1, <3>2, <3>3, <3>4 DEF Written
  <2>2. g # h => pc'[g] = pc[g] /\ text'[g] = text[g]
    BY <1>1 DEF DInv, IInv, EntriesFit
  <2>3. QED
    BY <1>1, <1>4, <2>1, <2>2, WriteKeepsLaid
<1>7. QED
  BY <1>1, <1>5, <1>6 DEF DInv

\* The entry that is committed is the last of the partition's.
LEMMA CommitDInv == ASSUME DInv, IInv', NEW h \in Harts, Commit(h) PROVE DInv'
<1> DEFINE t == text[h]
           n == Len(recorded[h])
<1>1. /\ phase = "kernel" /\ pc[h] = "commit" /\ pc' = [pc EXCEPT ![h] = "idle"]
      /\ offset' = [offset EXCEPT ![h] = @ + EntryLen(t)]
      /\ recorded' = [recorded EXCEPT ![h] = Append(@, Kept(t))]
      /\ text' = [text EXCEPT ![h] = None]
      /\ UNCHANGED <<memory, enabled, texts, torn, phase, copied, segment, at, decoded>>
  BY DEF Commit, Goto, hostVars
<1>2. /\ t \in Texts(h) /\ StrLen(t) \in Nat /\ EntryHeader \in Nat \ {0}
      /\ Kept(t) \in Seq(Chars)
      /\ Base(h) \in Nat /\ offset[h] \in Int /\ First(h) <= Base(h) + offset[h]
      /\ First(h) \in Nat /\ Place(h) = Base(h) + offset[h]
  BY <1>1, EntryInside, KeptType, FirstInside, OffsetInside DEF DInv, Texts, Place
<1>3. segment = 0
  BY <1>1 DEF DInv, Decoding
<1>4. /\ recorded \in [Harts -> Seq(Seq(Chars))] /\ n \in Nat
      /\ recorded'[h] = Append(recorded[h], Kept(t))
      /\ recorded' \in [Harts -> Seq(Seq(Chars))]
      /\ offset'[h] = offset[h] + EntryHeader + StrLen(t)
  <2>1. recorded \in [Harts -> Seq(Seq(Chars))] /\ offset \in [Harts -> Int]
    BY DEF DInv, Decoding, IInv, EntriesFit
  <2>2. Append(recorded[h], Kept(t)) \in Seq(Seq(Chars))
    BY <1>2, <2>1
  <2>3. offset'[h] = offset[h] + EntryHeader + StrLen(t)
    BY <1>1, <1>2, <2>1 DEF EntryLen
  <2> HIDE DEF t
  <2>4. QED
    BY <1>1, <2>1, <2>2, <2>3
<1>5. Decoding'
  BY <1>1, <1>4 DEF DInv, Decoding
<1>6. ASSUME NEW g \in Harts \ {torn}, g # h PROVE Laid(g)' /\ Written(g)'
  <2>1. /\ offset'[g] = offset[g] /\ recorded'[g] = recorded[g] /\ pc'[g] = pc[g]
        /\ text'[g] = text[g]
    BY <1>1, <1>4, <1>6 DEF DInv, IInv, EntriesFit
  <2>2. Laid(g) /\ Written(g) /\ IInv /\ recorded[g] \in Seq(Seq(Chars))
    BY <1>4 DEF DInv
  <2>3. QED
    BY <1>1, <2>1, <2>2, PartitionKept
<1>7. ASSUME h # torn PROVE Laid(h)' /\ Written(h)'
  <2>0. /\ n \in Nat /\ offset'[h] \in Int /\ offset[h] <= offset'[h]
        /\ offset'[h] = offset[h] + EntryHeader + StrLen(t)
    BY <1>2, <1>4
  <2>1. Written(h)'
    BY <1>1 DEF Written, DInv, IInv, EntriesFit
  <2>2. PICK pos, ts : Layout(h, pos, ts) /\ DecodedTo(h, pos)
    BY <1>7 DEF DInv, Laid
  <2>3. /\ memory[Place(h)] = EntryHead(t)
        /\ \A j \in 0 .. StrLen(t) - 1 : memory[Place(h) + EntryHeader + j] = Byte(t, j)
    BY <1>1, <1>7 DEF DInv, Written
  <2> DEFINE newPos == [i \in 1 .. n + 2 |->
                        IF i = n + 2 THEN Place(h) + EntryHeader + StrLen(t) ELSE pos[i]]
             newTs == [i \in 1 .. n + 1 |-> IF i = n + 1 THEN t ELSE ts[i]]
  <2>4. /\ Len(recorded'[h]) = n + 1
        /\ \A i \in 1 .. n : recorded'[h][i] = recorded[h][i]
        /\ recorded'[h][n + 1] = Kept(t)
    BY <1>2, <1>4
  <2>5. /\ pos \in [1 .. n + 1 -> Int] /\ ts \in [1 .. n -> Texts(h)]
        /\ pos[1] = First(h) /\ pos[n + 1] = Place(h)
    BY <1>2, <2>2 DEF Layout
  <2> HIDE DEF n, t
  <2> PICK pos2, ts2 : pos2 = newPos /\ ts2 = newTs
    OBVIOUS
  <2>6. \A i \in 1 .. n + 1 : pos2[i] = pos[i]
    BY <2>0
  <2>7. \A i \in 1 .. n : ts2[i] = ts[i]
    BY <2>0
  <2>8. pos2[n + 2] = Place(h) + EntryHeader + StrLen(t) /\ ts2[n + 1] = t
    BY <2>0
  <2>9. pos2 \in [1 .. n + 2 -> Int] /\ ts2 \in [1 .. n + 1 -> Texts(h)]
    <3>1. Place(h) + EntryHeader + StrLen(t) \in Int
      BY <1>2
    <3>2. pos2 \in [1 .. n + 2 -> Int]
      BY <2>0, <2>5, <3>1
    <3>3. ts2 \in [1 .. n + 1 -> Texts(h)]
      BY <1>2, <2>0, <2>5
    <3>4. QED
      BY <3>2, <3>3
  <2> HIDE DEF newPos, newTs
  <2>10. ASSUME NEW i \in 1 .. n
         PROVE  /\ pos2[i + 1] = pos2[i] + EntryHeader + StrLen(ts2[i])
                /\ First(h) <= pos2[i] /\ pos2[i + 1] <= Base(h) + offset'[h]
                /\ recorded'[h][i] = Kept(ts2[i])
                /\ memory[pos2[i]] = EntryHead(ts2[i])
                /\ \A j \in 0 .. StrLen(ts2[i]) - 1 :
                     memory[pos2[i] + EntryHeader + j] = Byte(ts2[i], j)
    <3>1. i \in 1 .. n + 1 /\ i + 1 \in 1 .. n + 1
      BY <1>4
    <3>2. pos2[i] = pos[i] /\ pos2[i + 1] = pos[i + 1] /\ ts2[i] = ts[i]
      BY <2>6, <2>7, <3>1
    <3>3. /\ pos[i + 1] = pos[i] + EntryHeader + StrLen(ts[i])
          /\ First(h) <= pos[i] /\ pos[i + 1] <= Base(h) + offset[h]
          /\ recorded[h][i] = Kept(ts[i])
          /\ memory[pos[i]] = EntryHead(ts[i])
          /\ \A j \in 0 .. StrLen(ts[i]) - 1 : memory[pos[i] + EntryHeader + j] = Byte(ts[i], j)
      BY <2>2 DEF Layout, n
    <3>4. pos[i + 1] <= Base(h) + offset'[h]
      <4>1. pos[i + 1] \in Int
        BY <2>5, <3>1
      <4>2. \A x \in Int : x <= Base(h) + offset[h] => x <= Base(h) + offset'[h]
        BY SMTT(30), <1>2, <2>0
      <4>3. QED
        BY <3>3, <4>1, <4>2
    <3>5. QED
      BY <2>4, <3>2, <3>3, <3>4
  <2>11. /\ pos2[n + 2] = pos2[n + 1] + EntryHeader + StrLen(ts2[n + 1])
         /\ First(h) <= pos2[n + 1] /\ pos2[n + 2] = Base(h) + offset'[h]
         /\ recorded'[h][n + 1] = Kept(ts2[n + 1])
         /\ memory[pos2[n + 1]] = EntryHead(ts2[n + 1])
         /\ \A j \in 0 .. StrLen(ts2[n + 1]) - 1 :
              memory[pos2[n + 1] + EntryHeader + j] = Byte(ts2[n + 1], j)
    <3>1. pos2[n + 1] = Place(h)
      BY <1>4, <2>5, <2>6
    <3>2. pos2[n + 2] = Base(h) + offset'[h]
      BY SMTT(30), <1>2, <1>4, <2>8
    <3>3. QED
      BY <1>2, <2>3, <2>4, <2>8, <3>1, <3>2
  <2>12. Layout(h, pos2, ts2)'
    <3>1. Len(recorded'[h]) + 1 = n + 2 /\ n + 1 + 1 = n + 2 /\ 1 \in 1 .. n + 1
      BY <2>0, <2>4
    <3>2. pos2[1] = First(h)
      BY <2>5, <2>6, <3>1
    <3>3. pos2[n + 2] <= Base(h) + offset'[h]
      BY <1>2, <2>0, <2>11
    <3>4. \A i \in 1 .. n + 1 : i \in 1 .. n \/ i = n + 1
      BY <2>0
    <3>5. \A i \in 1 .. n + 1 :
            /\ pos2[i + 1] = pos2[i] + EntryHeader + StrLen(ts2[i])
            /\ First(h) <= pos2[i] /\ pos2[i + 1] <= Base(h) + offset'[h]
            /\ recorded'[h][i] = Kept(ts2[i])
            /\ memory[pos2[i]] = EntryHead(ts2[i])
            /\ \A j \in 0 .. StrLen(ts2[i]) - 1 :
                 memory[pos2[i] + EntryHeader + j] = Byte(ts2[i], j)
      BY <2>10, <2>11, <3>1, <3>3, <3>4
    <3>6. memory' = memory
      BY <1>1
    <3>7. /\ pos2 \in [1 .. Len(recorded'[h]) + 1 -> Int]
          /\ ts2 \in [1 .. Len(recorded'[h]) -> Texts(h)]
          /\ pos2[Len(recorded'[h]) + 1] = Base(h) + offset'[h]
      BY <2>4, <2>9, <2>11, <3>1, Zenon
    <3>8. \A i \in 1 .. Len(recorded'[h]) :
            /\ pos2[i + 1] = pos2[i] + EntryHeader + StrLen(ts2[i])
            /\ First(h) <= pos2[i] /\ pos2[i + 1] <= Base(h) + offset'[h]
            /\ recorded'[h][i] = Kept(ts2[i])
            /\ memory'[pos2[i]] = EntryHead(ts2[i])
            /\ \A j \in 0 .. StrLen(ts2[i]) - 1 :
                 memory'[pos2[i] + EntryHeader + j] = Byte(ts2[i], j)
      BY <2>4, <3>5, <3>6, Zenon
    <3>9. QED
      BY <3>2, <3>7, <3>8, Zenon DEF Layout
  <2>13. DecodedTo(h, pos2)'
    <3>1. decoded' = decoded /\ segment' = segment /\ at' = at /\ Here' = Here
      BY <1>1 DEF Here
    <3>2. decoded[h] \in Seq(Seq(Chars)) /\ Len(decoded[h]) <= n /\ Len(decoded[h]) \in Nat
      BY <1>7, <2>2 DEF DInv, Decoding, DecodedTo, n
    <3>3. Len(decoded[h]) + 1 \in 1 .. n + 1 /\ Len(decoded[h]) <= n + 1
      BY <2>0, <3>2
    <3>4. \A i \in 1 .. Len(decoded[h]) : i \in 1 .. n
      BY <2>0, <3>2
    <3>5. ~(segment > h)
      BY <1>3 DEF Harts
    <3>6. \A i \in 1 .. Len(decoded[h]) : decoded[h][i] = recorded'[h][i]
      BY <2>2, <2>4, <3>4 DEF DecodedTo
    <3>7. segment = h => Here = pos2[Len(decoded[h]) + 1]
      BY <2>2, <2>6, <3>3 DEF DecodedTo
    <3>8. segment < h => Len(decoded[h]) = 0
      BY <2>2 DEF DecodedTo
    <3>9. QED
      BY <2>4, <3>1, <3>3, <3>5, <3>6, <3>7, <3>8 DEF DecodedTo
  <2>14. Laid(h)'
    BY <2>12, <2>13 DEF Laid
  <2>15. QED
    BY <2>1, <2>14
<1>8. QED
  BY <1>1, <1>5, <1>6, <1>7 DEF DInv

\* A stray store spoils one partition.
LEMMA CorruptDInv == ASSUME DInv, IInv', NEW h \in Harts, Corrupt(h) PROVE DInv'
<1>1. PICK a \in First(h) .. Base(h) + offset[h] - 1, k \in {1, Stride, Size} :
        memory' = [memory EXCEPT ![a].size = @ + k]
  BY DEF Corrupt
<1>2. /\ torn' = h /\ torn = None /\ phase = "kernel"
      /\ UNCHANGED <<enabled, offset, pc, text, recorded, texts, phase, copied, segment, at, decoded>>
  BY DEF Corrupt, kernelVars, hostVars
<1>3. \A g \in Harts : g # None
  BY NoneAssumption, TraceAssumption DEF Harts
<1>4. Decoding'
  BY <1>2, <1>3 DEF DInv, Decoding
<1>5. a \in Int /\ Base(h) <= a /\ a < Base(h) + Stride
  BY FirstInside, OffsetInside DEF DInv
<1>6. ASSUME NEW b \in 0 .. Size - 1, b < Base(h) \/ b >= Base(h) + Stride
      PROVE  memory'[b] = memory[b]
  <2>1. b # a
    BY <1>5, <1>6, FirstInside
  <2>2. QED
    BY <1>1, <2>1 DEF DInv, IInv, MemoryOwned
<1>7. ASSUME NEW g \in Harts, g # h PROVE Laid(g)' /\ Written(g)'
  <2>1. IInv /\ Laid(g) /\ Written(g) /\ recorded[g] \in Seq(Seq(Chars))
    BY <1>2, <1>3 DEF DInv, Decoding
  <2>2. \A b \in Int : Base(g) <= b /\ b < Base(g) + Stride => memory'[b] = memory[b]
    BY <1>6, <1>7, <2>1, OthersKept
  <2>3. \A b \in Int : Base(g) < b => Base(g) <= b
    BY FirstInside
  <2>4. \A b \in Int : Base(g) < b /\ b < Base(g) + Stride => memory'[b] = memory[b]
    BY <2>2, <2>3
  <2>5. QED
    BY <1>2, <2>1, <2>4, PartitionKept
<1>8. QED
  BY <1>2, <1>4, <1>7 DEF DInv

\* The firmware writes the headers of the partitions only.
LEMMA KernelOverDInv == ASSUME DInv, IInv', KernelOver PROVE DInv'
<1>1. /\ phase = "kernel" /\ phase' = "over"
      /\ memory' = [a \in DOMAIN memory |->
                     IF a % Stride = 0 THEN SizeOf(offset[a \div Stride]) ELSE memory[a]]
      /\ UNCHANGED <<enabled, offset, pc, text, recorded, texts, torn, copied, segment, at, decoded>>
  BY DEF KernelOver, kernelVars, hostVars
<1>2. ASSUME NEW h \in Harts PROVE memory'[Base(h)] = SizeOf(offset'[h])
  <2>1. Base(h) \in DOMAIN memory
    BY FirstInside DEF DInv, IInv, MemoryOwned
  <2>2. Base(h) % Stride = 0 /\ Base(h) \div Stride = h
    BY BaseOfPartition
  <2>3. QED
    BY <1>1, <2>1, <2>2, Zenon
<1>3. Decoding'
  BY <1>1, <1>2 DEF DInv, Decoding
<1>4. ASSUME NEW g \in Harts \ {torn} PROVE Laid(g)' /\ Written(g)'
  <2>1. IInv /\ Laid(g) /\ Written(g) /\ recorded[g] \in Seq(Seq(Chars))
    BY DEF DInv, Decoding
  <2>2. ASSUME NEW b \in Int, Base(g) < b, b < Base(g) + Stride PROVE memory'[b] = memory[b]
    <3>1. b \in DOMAIN memory
      BY <2>1, <2>2, FirstInside DEF IInv, MemoryOwned
    <3>2. b % Stride # 0
      BY <2>2, NoBaseInside
    <3>3. QED
      BY <1>1, <3>1, <3>2, Zenon
  <2>3. QED
    BY <1>1, <2>1, <2>2, PartitionKept
<1>5. QED
  BY <1>1, <1>3, <1>4 DEF DInv

LEMMA CopyDInv == ASSUME DInv, IInv', Copy PROVE DInv'
<1>1. /\ phase = "over" /\ phase' \in {"rejected", "copied"}
      /\ UNCHANGED <<memory, enabled, offset, pc, text, recorded, texts, torn, segment, at, decoded>>
  BY DEF Copy, kernelVars
<1>2. segment = 0
  BY <1>1 DEF DInv, Decoding
<1>3. Decoding'
  BY <1>1 DEF DInv, Decoding
<1>4. ASSUME NEW g \in Harts \ {torn} PROVE Laid(g)' /\ Written(g)'
  <2>1. IInv /\ Laid(g) /\ Written(g) /\ recorded[g] \in Seq(Seq(Chars))
    BY DEF DInv, Decoding
  <2>2. QED
    BY <1>1, <1>2, <2>1, PartitionKept
<1>5. QED
  BY <1>1, <1>3, <1>4 DEF DInv

\* Where a partition that holds what it should ends, in a copy of the buffer.
LEMMA PartitionEnd ==
  ASSUME DInv, NEW h \in Harts, phase = "copied"
  PROVE  /\ End(h) = Least(Base(h) + offset[h], copied)
         /\ Base(h) + offset[h] <= Size /\ Size \in Nat /\ copied \in Nat
<1>1. memory[Base(h)].size = offset[h]
  <2>1. memory[Base(h)] = SizeOf(offset[h])
    BY DEF DInv, Decoding
  <2>2. QED
    BY <2>1 DEF SizeOf
<1>2. Size \in Nat /\ copied \in 0 .. Size
  BY FirstInside DEF DInv, IInv, TypeOK
<1>3. Base(h) + offset[h] <= Size
  BY <1>2, FirstInside, OffsetInside DEF DInv
<1>4. QED
  BY <1>1, <1>2, <1>3 DEF End

\* The decoder is at an entry that has been recorded: it yields its text.
LEMMA NextEntryDInv == ASSUME DInv, IInv', NextEntry PROVE DInv'
<1> DEFINE s == segment
           e == Here + EntryHeader + PayloadSize
<1>1. /\ phase = "copied"
      /\ s \in Harts
      /\ decoded' = [decoded EXCEPT ![s] = Append(@, Text(Payload))]
      /\ at' = e
      /\ Here + EntryHeader <= End(s) /\ e <= End(s)
      /\ UNCHANGED <<memory, enabled, offset, pc, text, recorded, texts, torn, phase, copied, segment>>
  BY TraceAssumption DEF NextEntry, Populated, Inside, DInv, IInv, TypeOK, Harts, kernelVars
<1>2. recorded \in [Harts -> Seq(Seq(Chars))] /\ DOMAIN decoded = Harts
  BY DEF DInv, Decoding
<1> HIDE DEF e, s
<1>3. ASSUME NEW g \in Harts \ {torn}, g # s PROVE Laid(g)'
  <2>1. PICK pos, ts : Layout(g, pos, ts) /\ DecodedTo(g, pos)
    BY DEF DInv, Laid
  <2>2. decoded'[g] = decoded[g]
    BY <1>1, <1>2, <1>3
  <2>3. Layout(g, pos, ts)'
    BY <1>1, <2>1 DEF Layout
  <2>4. DecodedTo(g, pos)'
    BY <1>1, <1>3, <2>1, <2>2 DEF DecodedTo, s
  <2>5. QED
    BY <2>3, <2>4 DEF Laid
<1>4. ASSUME s # torn PROVE Laid(s)' /\ decoded'[s] \in Seq(Seq(Chars))
  <2>1. PICK pos, ts : Layout(s, pos, ts) /\ DecodedTo(s, pos)
    BY <1>1, <1>4 DEF DInv, Laid
  <2> DEFINE n == Len(recorded[s])
             k == Len(decoded[s]) + 1
  <2>2. /\ n \in Nat /\ k \in 1 .. n + 1 /\ k \in Nat
        /\ decoded[s] \in Seq(Seq(Chars))
    BY <1>1, <1>2, <1>4, <2>1 DEF DInv, Decoding, DecodedTo
  <2>3. Here = pos[k]
    BY <2>1 DEF DecodedTo, s
  <2>4. EntryHeader \in Nat \ {0} /\ End(s) <= Base(s) + offset[s] /\ Base(s) + offset[s] \in Int
    <3>1. Base(s) \in Int /\ offset[s] \in Int
      BY <1>1, FirstInside, OffsetInside DEF DInv
    <3>2. End(s) = Least(Base(s) + offset[s], copied) /\ copied \in Nat
      BY <1>1, PartitionEnd
    <3>3. QED
      BY <3>1, <3>2, TraceAssumption DEF Least
  <2>5. End(s) \in Int
    <3>1. Base(s) \in Int /\ offset[s] \in Int
      BY <1>1, FirstInside, OffsetInside DEF DInv
    <3>2. End(s) = Least(Base(s) + offset[s], copied) /\ copied \in Nat
      BY <1>1, PartitionEnd
    <3>3. QED
      BY <3>1, <3>2 DEF Least
  <2>6. k \in 1 .. n
    <3>1. k # n + 1
      <4> SUFFICES ASSUME k = n + 1 PROVE FALSE
        OBVIOUS
      <4>1. pos[k] = Base(s) + offset[s]
        BY <2>1 DEF Layout
      <4>2. Here + EntryHeader <= End(s)
        BY <1>1
      <4> HIDE DEF k, n
      <4>3. QED
        BY <2>3, <2>4, <2>5, <4>1, <4>2
    <3>2. QED
      BY <2>2, <3>1
  <2> HIDE DEF k, n
  <2>7. /\ ts[k] \in Texts(s) /\ pos[k] \in Int
        /\ memory[pos[k]] = EntryHead(ts[k])
        /\ pos[k + 1] = pos[k] + EntryHeader + StrLen(ts[k])
        /\ First(s) <= pos[k]
        /\ recorded[s][k] = Kept(ts[k])
        /\ \A j \in 0 .. StrLen(ts[k]) - 1 : memory[pos[k] + EntryHeader + j] = Byte(ts[k], j)
    BY <2>1, <2>2, <2>6 DEF Layout, n
  <2>8. PayloadSize = StrLen(ts[k])
    BY <2>3, <2>7 DEF PayloadSize, EntryHead
  <2>9. StrLen(ts[k]) \in Nat \ {0} /\ Kept(ts[k]) \in Seq(Chars)
    BY <1>1, <2>7, KeptType
  <2>10. Payload = [i \in 1 .. StrLen(ts[k]) |-> Byte(ts[k], i - 1)]
    <3>1. ASSUME NEW i \in 1 .. StrLen(ts[k])
          PROVE  memory[Here + EntryHeader + i - 1] = Byte(ts[k], i - 1)
      <4>1. i - 1 \in 0 .. StrLen(ts[k]) - 1
        BY <2>9
      <4>2. memory[pos[k] + EntryHeader + (i - 1)] = Byte(ts[k], i - 1)
        BY <2>7, <4>1
      <4>3. Here + EntryHeader + i - 1 = pos[k] + EntryHeader + (i - 1)
        BY <2>3, <2>4, <2>7, <2>9
      <4>4. QED
        BY <4>2, <4>3
    <3>2. QED
      BY <2>8, <3>1, Zenon DEF Payload
  <2>11. Text(Payload) = recorded[s][k]
    BY <1>1, <2>7, <2>10, TextOfEntry
  <2>12. /\ decoded'[s] = Append(decoded[s], recorded[s][k])
         /\ recorded[s][k] \in Seq(Chars)
    BY <1>1, <1>2, <2>7, <2>9, <2>11
  <2>13. /\ decoded'[s] \in Seq(Seq(Chars)) /\ Len(decoded'[s]) = k
         /\ decoded'[s][k] = recorded[s][k]
         /\ \A i \in 1 .. Len(decoded[s]) : decoded'[s][i] = decoded[s][i]
    BY <2>2, <2>12 DEF k
  <2>14. Here' = pos[k + 1]
    <3>1. at' = pos[k + 1] /\ at' \in Nat
      <4>1. First(s) \in Nat
        BY <1>1, FirstInside
      <4>2. QED
        BY <1>1, <2>3, <2>4, <2>7, <2>8, <2>9, <4>1 DEF e
    <3>2. at' # None
      BY <3>1, NoneAssumption
    <3>3. QED
      BY <3>1, <3>2 DEF Here
  <2>15. Layout(s, pos, ts)'
    <3>1. s' = s
      BY <1>1 DEF s
    <3>2. QED
      BY <1>1, <2>1, <3>1 DEF Layout
  <2>16. DecodedTo(s, pos)'
    <3>1. s' = s /\ segment = s
      BY <1>1 DEF s
    <3>2. s \in Int /\ ~(s < s) /\ ~(s > s)
      BY <1>1 DEF Harts
    <3>3. k <= n /\ n = Len(recorded[s])
      BY <2>2, <2>6 DEF n
    <3>4. ASSUME NEW i \in 1 .. k PROVE decoded'[s][i] = recorded[s][i]
      <4>1. i = k \/ i \in 1 .. Len(decoded[s])
        BY <2>2 DEF k
      <4>2. QED
        BY <2>1, <2>13, <4>1 DEF DecodedTo
    <3>5. QED
      BY <1>1, <2>13, <2>14, <3>1, <3>2, <3>3, <3>4 DEF DecodedTo
  <2>17. QED
    <3>1. s' = s
      BY <1>1 DEF s
    <3>2. QED
      BY <2>13, <2>15, <2>16, <3>1 DEF Laid
<1>5. Decoding'
  <2>1. DOMAIN decoded' = Harts
    BY <1>1, <1>2
  <2>2. ASSUME NEW g \in Harts \ {torn} PROVE decoded'[g] \in Seq(Seq(Chars))
    <3>1. CASE g = s
      BY <1>4, <2>2, <3>1
    <3>2. CASE g # s
      BY <1>1, <1>2, <2>2, <3>2 DEF DInv, Decoding
    <3>3. QED
      BY <3>1, <3>2
  <2>3. QED
    BY <1>1, <2>1, <2>2 DEF DInv, Decoding
<1>6. \A g \in Harts \ {torn} : Written(g)'
  BY <1>1 DEF DInv, Written, Place
<1>7. \A g \in Harts \ {torn} : Laid(g)'
  <2>1. s' = s
    BY <1>1 DEF s
  <2>2. QED
    BY <1>3, <1>4, <2>1
<1>8. QED
  BY <1>1, <1>5, <1>6, <1>7 DEF DInv

\* The decoder leaves a partition that has been copied in full when it has yielded
\* every entry of it.
LEMMA ExhaustedDInv == ASSUME DInv, IInv', Exhausted PROVE DInv'
<1> DEFINE s == segment
<1>1. /\ phase = "copied" /\ s \in Harts /\ s \in Int
      /\ ~(Populated /\ Here + EntryHeader <= End(s) /\ Inside)
      /\ segment' = s + 1 /\ at' = None
      /\ UNCHANGED <<memory, enabled, offset, pc, text, recorded, texts, torn, phase, copied, decoded>>
  BY TraceAssumption DEF Exhausted, NextPartition, DInv, IInv, TypeOK, Harts, kernelVars
<1> HIDE DEF s
<1>2. Decoding'
  BY <1>1 DEF DInv, Decoding
<1>3. ASSUME NEW g \in Harts \ {torn} PROVE Laid(g)'
  <2>1. PICK pos, ts : Layout(g, pos, ts) /\ DecodedTo(g, pos)
    BY DEF DInv, Laid
  <2>2. Layout(g, pos, ts)'
    BY <1>1, <2>1 DEF Layout
  <2> DEFINE n == Len(recorded[g])
             k == Len(decoded[g]) + 1
  <2>3. g \in Int /\ n \in Nat /\ k \in Nat \ {0} /\ k <= n + 1 /\ Len(decoded[g]) = k - 1
    BY <2>1 DEF Harts, DInv, Decoding, DecodedTo
  <2>4. segment' < g => Len(decoded[g]) = 0
    BY <1>1, <2>1, <2>3 DEF DecodedTo, s
  <2>5. segment' = g => Here' = pos[Len(decoded[g]) + 1]
    <3> SUFFICES ASSUME segment' = g PROVE Here' = pos[Len(decoded[g]) + 1]
      OBVIOUS
    <3>1. Len(decoded[g]) = 0
      BY <1>1, <2>1, <2>3 DEF DecodedTo, s
    <3>2. Here' = First(g)
      BY <1>1 DEF Here, First, Base
    <3>3. pos[1] = First(g)
      BY <2>1 DEF Layout
    <3>4. QED
      BY <3>1, <3>2, <3>3
  <2>6. ASSUME g = s, copied = Size PROVE Len(decoded[g]) = Len(recorded[g])
    <3> SUFFICES ASSUME k <= n PROVE FALSE
      BY <2>3
    <3> HIDE DEF k, n
    <3>1. k \in 1 .. n
      BY <2>3
    <3>2. /\ ts[k] \in Texts(g) /\ pos[k] \in Int
          /\ memory[pos[k]] = EntryHead(ts[k])
          /\ pos[k + 1] = pos[k] + EntryHeader + StrLen(ts[k])
          /\ First(g) <= pos[k] /\ pos[k + 1] <= Base(g) + offset[g]
      BY <2>1, <2>3, <3>1 DEF Layout, n
    <3>3. Here = pos[k]
      BY <2>1, <2>6 DEF DecodedTo, s, k
    <3>4. PayloadSize = StrLen(ts[k])
      BY <3>2, <3>3 DEF PayloadSize, EntryHead
    <3>5. StrLen(ts[k]) \in Nat \ {0} /\ EntryHeader \in Nat \ {0}
      BY <3>2, KeptType, TraceAssumption
    <3>6. /\ Base(g) \in Nat /\ First(g) \in Nat /\ offset[g] \in Int
          /\ Base(g) + Stride <= Size /\ Stride \in Nat
      BY FirstInside, OffsetInside DEF DInv
    <3>7. End(g) = Base(g) + offset[g] /\ Base(g) + offset[g] <= Size /\ Size \in Nat
      <4>1. /\ End(g) = Least(Base(g) + offset[g], Size)
            /\ Base(g) + offset[g] <= Size /\ Size \in Nat
        BY <1>1, <2>6, PartitionEnd
      <4>2. QED
        BY <3>6, <4>1 DEF Least
    <3>8. /\ Here + EntryHeader <= End(s) /\ Here + EntryHeader + PayloadSize <= End(s)
          /\ Here + EntryHeader + PayloadSize <= copied /\ First(s) < End(s)
      <4> DEFINE x == pos[k]
                 y == Base(g) + offset[g]
                 l == StrLen(ts[k])
      <4>1. /\ x \in Int /\ y \in Int /\ l \in Nat \ {0} /\ First(g) \in Int
            /\ First(g) <= x /\ x + EntryHeader + l <= y /\ y <= Size /\ Size \in Int
        BY <3>2, <3>5, <3>6, <3>7
      <4> HIDE DEF x, y, l
      <4>2. x + EntryHeader <= y /\ x + EntryHeader + l <= Size /\ First(g) < y
        BY <3>5, <4>1
      <4>3. Here = x /\ PayloadSize = l /\ End(s) = y /\ s = g /\ copied = Size
        BY <2>6, <3>3, <3>4, <3>7 DEF x, y, l
      <4>4. QED
        BY <4>1, <4>2, <4>3
    <3>9. Readable(s)
      <4>1. SizeHeader \in Nat /\ StdHeader \in Nat /\ SizeHeader <= StdHeader /\ StdHeader <= Stride
        BY TraceAssumption
      <4>2. Base(g) + SizeHeader <= Size
        BY <3>6, <3>7, <4>1
      <4>3. QED
        BY <2>6, <4>2 DEF Readable
    <3>10. s < NumHarts
      BY <1>1, TraceAssumption DEF Harts
    <3>11. QED
      BY <1>1, <3>8, <3>9, <3>10 DEF Populated, Inside, s
  <2>7. segment' > g /\ copied = Size => Len(decoded[g]) = Len(recorded[g])
    <3>1. segment' > g => segment > g \/ g = s
      BY <1>1, <2>3 DEF s
    <3>2. QED
      BY <2>1, <2>6, <3>1 DEF DecodedTo
  <2>8. DecodedTo(g, pos)'
    <3>1. /\ Len(decoded[g]) <= Len(recorded[g])
          /\ \A i \in 1 .. Len(decoded[g]) : decoded[g][i] = recorded[g][i]
      BY <2>1 DEF DecodedTo
    <3>2. decoded' = decoded /\ recorded' = recorded /\ copied' = copied
      BY <1>1
    <3>3. QED
      BY <2>4, <2>5, <2>7, <3>1, <3>2 DEF DecodedTo, Size
  <2>9. QED
    BY <2>2, <2>8 DEF Laid
<1>4. \A g \in Harts \ {torn} : Written(g)'
  BY <1>1 DEF DInv, Written, Place
<1>5. QED
  BY <1>1, <1>2, <1>3, <1>4 DEF DInv

LEMMA DecodeEndsDInv == ASSUME DInv, IInv', DecodeEnds PROVE DInv'
<1>1. /\ phase' = "done" /\ segment = NumHarts
      /\ UNCHANGED <<memory, enabled, offset, pc, text, recorded, texts, torn, copied, segment, at, decoded>>
  BY DEF DecodeEnds, kernelVars, hostVars
<1>2. Decoding'
  BY <1>1 DEF DInv, Decoding, DecodeEnds
<1>3. ASSUME NEW g \in Harts \ {torn} PROVE Laid(g)' /\ Written(g)'
  <2>1. IInv /\ Laid(g) /\ Written(g) /\ recorded[g] \in Seq(Seq(Chars))
    BY DEF DInv, Decoding
  <2>2. QED
    BY <1>1, <2>1, PartitionKept
<1>4. QED
  BY <1>1, <1>2, <1>3 DEF DInv

LEMMA InitDInv == Init => DInv
<1> SUFFICES ASSUME Init PROVE DInv
  OBVIOUS
<1>1. /\ \A h \in Harts : recorded[h] = <<>> /\ decoded[h] = <<>> /\ pc[h] = "idle"
                          /\ offset[h] = First(h) - Base(h)
      /\ segment = 0 /\ at = None /\ phase = "kernel"
  BY DEF Init
<1>2. Decoding
  <2>1. recorded = [h \in Harts |-> <<>>] /\ decoded = [h \in Harts |-> <<>>]
    BY DEF Init
  <2>2. QED
    BY <1>1, <2>1 DEF Decoding
<1>3. ASSUME NEW h \in Harts PROVE Laid(h)
  <2> PICK pos, ts : pos = [i \in 1 .. 1 |-> First(h)] /\ ts = [i \in 1 .. 0 |-> None]
    OBVIOUS
  <2>1. Len(recorded[h]) = 0 /\ Len(decoded[h]) = 0
    BY <1>1
  <2>2. First(h) \in Int /\ First(h) = Base(h) + offset[h]
    BY <1>1, FirstInside
  <2>3. Layout(h, pos, ts)
    BY <2>1, <2>2 DEF Layout
  <2>4. DecodedTo(h, pos)
    <3>1. ~(segment > h) /\ (segment = h => Here = First(h))
      BY <1>1 DEF Harts, Here
    <3>2. QED
      BY <2>1, <3>1 DEF DecodedTo
  <2>5. QED
    BY <2>3, <2>4 DEF Laid
<1>4. \A h \in Harts : Written(h)
  BY <1>1 DEF Written
<1>5. QED
  BY <1>2, <1>3, <1>4, InitIInv DEF DInv

\* Sequences that agree as far as the shorter one goes.
LEMMA Prefix ==
  ASSUME NEW S, NEW d \in Seq(S), NEW r \in Seq(S), Len(d) <= Len(r),
         \A i \in 1 .. Len(d) : d[i] = r[i]
  PROVE  IsPrefix(d, r) /\ (Len(d) = Len(r) => d = r)
<1>1. Len(d) \in Nat /\ Len(r) \in Nat
  OBVIOUS
<1>2. SubSeq(d, 1, Len(d)) = [i \in 1 .. Len(d) |-> d[i]]
  BY <1>1
<1>3. SubSeq(r, 1, Len(d)) = [i \in 1 .. Len(d) |-> r[i]]
  BY <1>1
<1>4. [i \in 1 .. Len(d) |-> d[i]] = [i \in 1 .. Len(d) |-> r[i]]
  BY Zenon
<1>5. IsPrefix(d, r)
  BY <1>2, <1>3, <1>4, Zenon DEF IsPrefix
<1>6. QED
  BY <1>5

LEMMA NextDInv == DInv /\ [Next]_vars => DInv'
<1> SUFFICES ASSUME DInv, [Next]_vars PROVE DInv'
  OBVIOUS
<1>1. IInv'
  BY NextIInv DEF DInv
<1>2. ASSUME NEW h \in Harts, TraceStr(h) PROVE DInv'
  BY <1>1, <1>2, TraceStrDInv
<1>3. ASSUME NEW h \in Harts, WriteHead(h) PROVE DInv'
  BY <1>1, <1>3, WriteHeadDInv
<1>4. ASSUME NEW h \in Harts, WriteBody(h) PROVE DInv'
  BY <1>1, <1>4, WriteBodyDInv
<1>5. ASSUME NEW h \in Harts, Commit(h) PROVE DInv'
  BY <1>1, <1>5, CommitDInv
<1>6. ASSUME NEW h \in Harts, Corrupt(h) PROVE DInv'
  BY <1>1, <1>6, CorruptDInv
<1>7. CASE KernelOver
  BY <1>1, <1>7, KernelOverDInv
<1>8. CASE Copy
  BY <1>1, <1>8, CopyDInv
<1>9. CASE NextEntry
  BY <1>1, <1>9, NextEntryDInv
<1>10. CASE Exhausted
  BY <1>1, <1>10, ExhaustedDInv
<1>11. CASE DecodeEnds
  BY <1>1, <1>11, DecodeEndsDInv
<1>12. CASE UNCHANGED vars
  <2>1. UNCHANGED <<memory, enabled, offset, pc, text, recorded, texts, torn, phase, copied, segment, at, decoded>>
    BY <1>12 DEF vars, kernelVars, hostVars
  <2>2. Decoding'
    BY <2>1 DEF DInv, Decoding
  <2>3. ASSUME NEW g \in Harts \ {torn} PROVE Laid(g)' /\ Written(g)'
    <3>1. IInv /\ Laid(g) /\ Written(g) /\ recorded[g] \in Seq(Seq(Chars))
      BY DEF DInv, Decoding
    <3>2. QED
      BY <2>1, <3>1, PartitionKept
  <2>4. QED
    BY <1>1, <2>1, <2>2, <2>3 DEF DInv
<1>13. QED
  BY <1>2, <1>3, <1>4, <1>5, <1>6, <1>7, <1>8, <1>9, <1>10, <1>11, <1>12 DEF Next, Decode

\* The inductive invariant of the whole path: the entries a hart has recorded lie
\* one behind the other in its partition, and the decoder stands between two.
THEOREM LayoutInductive == Spec => []DInv
<1>1. Init => DInv
  BY InitDInv
<1>2. DInv /\ [Next]_vars => DInv'
  BY NextDInv
<1>3. QED
  BY <1>1, <1>2, PTL DEF Spec

\* The decoder yields what trace_str has recorded, partition by partition, however
\* the kernel ended, however much was copied and whatever a stray store did to one
\* payload size of another partition.
THEOREM DecodedAlways == Spec => []DecodedAsRecorded
<1>1. DInv => DecodedAsRecorded
  <2> SUFFICES ASSUME DInv, NEW h \in Harts \ {torn}
               PROVE  /\ IsPrefix(decoded[h], recorded[h])
                      /\ phase = "done" /\ copied = Size => decoded[h] = recorded[h]
    BY DEF DecodedAsRecorded
  <2>1. PICK pos : DecodedTo(h, pos)
    BY DEF DInv, Laid
  <2>2. decoded[h] \in Seq(Seq(Chars)) /\ recorded[h] \in Seq(Seq(Chars))
    BY DEF DInv, Decoding
  <2>3. /\ Len(decoded[h]) <= Len(recorded[h])
        /\ \A i \in 1 .. Len(decoded[h]) : decoded[h][i] = recorded[h][i]
    BY <2>1 DEF DecodedTo
  <2> DEFINE d == decoded[h]
             r == recorded[h]
  <2> HIDE DEF d, r
  <2>4. IsPrefix(d, r)
    BY <2>2, <2>3, Prefix DEF d, r
  <2>5. phase = "done" /\ copied = Size => decoded[h] = recorded[h]
    <3> SUFFICES ASSUME phase = "done", copied = Size PROVE decoded[h] = recorded[h]
      OBVIOUS
    <3>1. segment > h
      BY TraceAssumption DEF DInv, Decoding, Harts
    <3>2. Len(decoded[h]) = Len(recorded[h])
      BY <2>1, <3>1 DEF DecodedTo
    <3>3. QED
      BY <2>2, <2>3, <3>2, Prefix
  <2>6. QED
    BY <2>4, <2>5 DEF d, r
<1>2. QED
  BY LayoutInductive, <1>1, PTL
=============================================================================
