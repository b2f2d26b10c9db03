-------------------------- MODULE SpscQueue_proof ---------------------------
(***************************************************************************)
(* Proofs about SpscQueue, for every number of items, size of the ring and *)
(* width of the indices.                                                   *)
(***************************************************************************)
EXTENDS SpscQueue, TLAPS

\* Items the consumer is through with, items the producer's `tail` has published
\* in memory, and slots the consumer's `head` has freed there: counts, where the
\* code has indices that wrap.
Handled == IF pc.consumer = "free" THEN Len(got) - 1 ELSE Len(got)
Published ==
  IF pc.producer \in {"wait", "done"} /\ store["producer"] # <<>> /\ sent > 0
  THEN sent - 1 ELSE sent
Freed == IF store["consumer"] = <<>> THEN Handled ELSE Handled - 1

\* The index and the slot of a count.
Wrap(n) == n % IndexWidth
Slot(n) == n % Cap

ToWord(w, v) == [at |-> w, val |-> v]

\* The consumer has seen `go`, and the producer has got beyond its release.
Started == pc.consumer \in {"wait", "fetch", "free"} \/ got # <<>> \/ store["consumer"] # <<>>
Released == pc.producer \in {"wait", "publish", "done"}

Domains ==
  /\ DOMAIN pc = Harts /\ DOMAIN store = Harts /\ DOMAIN mem = Words
  /\ pc.producer \in {"init", "release", "wait", "publish", "done"}
  /\ pc.consumer \in {"go", "wait", "fetch", "free", "done"}
  /\ sent \in 0 .. N /\ (pc.producer = "publish" => sent < N)
  /\ got \in Seq(Nat)
  /\ launches \in 1 .. MaxLaunches

\* A hart has no more stores under way than the fences between them allow.
Stores ==
  /\ store["producer"] \in
       CASE pc.producer = "init" -> {<<>>}
         [] pc.producer = "release" ->
              {<<>>, <<ToWord(TailWord, 0)>>, <<ToWord(HeadWord, 0)>>,
               <<ToWord(TailWord, 0), ToWord(HeadWord, 0)>>}
         [] pc.producer = "publish" -> {<<>>, <<ToWord(Slot(sent), Payload(sent))>>}
         [] OTHER -> {<<>>, <<IF sent = 0 THEN ToWord(GoWord, 1) ELSE ToWord(TailWord, tail)>>}
  /\ store["consumer"] \in {<<>>, <<ToWord(HeadWord, head)>>}

\* The counts are in order and within the ring, and the indices are the counts,
\* wrapped.
Counts ==
  /\ 0 <= Freed /\ Freed <= Handled /\ Len(got) <= Published /\ sent <= Freed + Cap
  /\ pc.consumer = "free" => Len(got) > 0
  /\ pc.consumer = "fetch" => Len(got) < Published
  /\ pc.producer = "publish" => sent < Freed + Cap
  /\ tail = Wrap(sent) /\ head = Wrap(Handled)

\* Memory holds the indices, and every item that is not freed in its slot.
Shared ==
  /\ mem \in [Words -> Values]
  /\ Started => mem[GoWord] = 1
  /\ mem[GoWord] = 1 => Released
  /\ ~Released => sent = 0 /\ mem[TailWord] \in {Unwritten, 0}
  /\ Released => mem[TailWord] = Wrap(Published) /\ mem[HeadWord] = Wrap(Freed)
  /\ pc.producer = "release" =>
       /\ \/ mem[TailWord] = 0
          \/ store["producer"] \in {<<ToWord(TailWord, 0)>>,
                                   <<ToWord(TailWord, 0), ToWord(HeadWord, 0)>>}
       /\ \/ mem[HeadWord] = 0
          \/ store["producer"] \in {<<ToWord(HeadWord, 0)>>,
                                   <<ToWord(TailWord, 0), ToWord(HeadWord, 0)>>}
  /\ \A i \in Handled .. sent - 1 : mem[Slot(i)] = Payload(i)
  /\ pc.producer = "publish" /\ store["producer"] = <<>> => mem[Slot(sent)] = Payload(sent)

\* What the consumer has read is what was sent, and nothing is loaded early once
\* `tail` has been seen.
Passed ==
  /\ \A i \in 1 .. Len(got) : got[i] = Payload(i - 1)
  /\ pc.consumer \in {"fetch", "free"} => early = <<>>
  /\ ToSet(early) \subseteq Values

IInv == Domains /\ Stores /\ Counts /\ Shared /\ Passed
-----------------------------------------------------------------------------
(***************************************************************************)
(* Arithmetic of indices that wrap.                                        *)
(***************************************************************************)
LEMMA Quotient ==
  ASSUME NEW a \in Int, NEW b \in Nat \ {0}
  PROVE  \E q \in Int, r \in 0 .. b - 1 : a = b * q + r /\ a % b = r
<1>1. a \div b \in Int /\ a % b \in 0 .. b - 1 /\ a = b * (a \div b) + (a % b)
  OBVIOUS
<1> DEFINE q == a \div b
           r == a % b
<1>2. q \in Int /\ r \in 0 .. b - 1 /\ a = b * q + r /\ a % b = r
  BY <1>1
<1> HIDE DEF q, r
<1>3. QED
  BY <1>2

LEMMA NatQuotient ==
  ASSUME NEW a \in Nat, NEW b \in Nat \ {0}
  PROVE  \E q \in Int, r \in 0 .. b - 1 : a = b * q + r /\ a % b = r
<1>1. PICK i \in Int : i = a
  OBVIOUS
<1>2. \E q \in Int, r \in 0 .. b - 1 : i = b * q + r /\ i % b = r
  BY Quotient
<1>3. QED
  BY <1>1, <1>2

\* A remainder that fits is the remainder.
LEMMA RemainderUnique ==
  ASSUME NEW b \in Nat \ {0}, NEW q \in Int, NEW r \in 0 .. b - 1
  PROVE  (b * q + r) % b = r
<1>1. PICK a \in Int : a = b * q + r
  OBVIOUS
<1>2. PICK p \in Int, s \in 0 .. b - 1 : a = b * p + s /\ a % b = s
  BY Quotient
<1>3. b * (q - p) = s - r
  BY <1>1, <1>2
<1>4. b * (q - p) < b /\ -b < b * (q - p)
  BY <1>3
<1>5. ASSUME NEW d \in Int, b * d < b, -b < b * d PROVE d = 0
  BY <1>5
<1>6. q - p = 0
  <2>1. PICK d \in Int : d = q - p
    OBVIOUS
  <2>2. QED
    BY <1>4, <1>5, <2>1
<1>7. QED
  BY <1>1, <1>2, <1>3, <1>6

LEMMA RemainderShifted ==
  ASSUME NEW b \in Nat \ {0}, NEW q \in Int, NEW a \in Int
  PROVE  (b * q + a) % b = a % b
<1>1. PICK p \in Int, s \in 0 .. b - 1 : a = b * p + s /\ a % b = s
  BY Quotient
<1>2. PICK d \in Int : d = q + p
  OBVIOUS
<1>3. (b * d + s) % b = s
  BY RemainderUnique
<1>4. b * d + s = b * q + a
  BY <1>1, <1>2
<1>5. QED
  BY <1>1, <1>3, <1>4

LEMMA RemainderSmall ==
  ASSUME NEW b \in Nat \ {0}, NEW a \in 0 .. b - 1
  PROVE  a % b = a
<1>1. (b * 0 + a) % b = a
  BY RemainderUnique
<1>2. b * 0 + a = a
  OBVIOUS
<1>3. QED
  BY <1>1, <1>2

LEMMA RemainderDifference ==
  ASSUME NEW b \in Nat \ {0}, NEW x \in Nat, NEW y \in Nat, y <= x, x - y < b
  PROVE  ((x % b) - (y % b)) % b = x - y
<1>1. PICK p \in Int, r \in 0 .. b - 1 : x = b * p + r /\ x % b = r
  BY NatQuotient
<1>2. PICK q \in Int, s \in 0 .. b - 1 : y = b * q + s /\ y % b = s
  BY NatQuotient
<1>3. PICK d \in Int, a \in Int : d = p - q /\ a = r - s
  OBVIOUS
<1>4. b * d + a = x - y
  BY <1>1, <1>2, <1>3
<1>5. (b * d + a) % b = a % b
  BY RemainderShifted
<1>6. PICK e \in 0 .. b - 1 : e = x - y
  OBVIOUS
<1>7. e % b = e
  BY RemainderSmall
<1>8. QED
  BY <1>1, <1>2, <1>3, <1>4, <1>5, <1>6, <1>7

LEMMA WidthTyped ==
  /\ N \in Nat /\ Cap \in Nat \ {0} /\ IndexWidth \in Nat \ {0} /\ Cap < IndexWidth
  /\ IndexWidth % Cap = 0
BY SpscAssumption

LEMMA Wrapped ==
  ASSUME NEW n \in Nat
  PROVE  Wrap(n) \in Indices /\ Slot(n) \in Slots /\ Next1(Wrap(n)) = Wrap(n + 1)
<1>1. PICK width \in Nat \ {0}, cap \in Nat \ {0} : width = IndexWidth /\ cap = Cap
  BY WidthTyped
<1>2. PICK q \in Int, r \in 0 .. width - 1 : n = width * q + r /\ n % width = r
  BY NatQuotient
<1>3. PICK p \in Int, s \in 0 .. cap - 1 : n = cap * p + s /\ n % cap = s
  BY NatQuotient
<1>4. PICK a \in Int : a = r + 1
  OBVIOUS
<1>5. (width * q + a) % width = a % width
  BY RemainderShifted
<1>6. width * q + a = n + 1
  BY <1>2, <1>4
<1>7. QED
  BY <1>1, <1>2, <1>3, <1>4, <1>5, <1>6 DEF Wrap, Slot, Indices, Slots, Next1

\* The distance of two indices is that of their counts, ...
LEMMA WrappedDistance ==
  ASSUME NEW x \in Nat, NEW y \in Nat, y <= x, x - y <= Cap
  PROVE  Distance(Wrap(x), Wrap(y)) = x - y
<1>1. PICK width \in Nat \ {0} : width = IndexWidth /\ x - y < width
  BY WidthTyped
<1>2. ((x % width) - (y % width)) % width = x - y
  BY <1>1, RemainderDifference
<1>3. QED
  BY <1>1, <1>2 DEF Distance, Wrap

\* ... so that they differ when the counts do.
LEMMA WrappedDiffer ==
  ASSUME NEW x \in Nat, NEW y \in Nat, y <= x, x - y <= Cap, Wrap(x) = Wrap(y)
  PROVE  x = y
<1>1. ((x % IndexWidth) - (y % IndexWidth)) % IndexWidth = x - y
  BY WrappedDistance DEF Distance, Wrap
<1>2. PICK i \in Nat : i = x % IndexWidth /\ i = y % IndexWidth
  BY Wrapped DEF Wrap, Indices
<1>3. PICK width \in Nat \ {0} : width = IndexWidth
  BY WidthTyped
<1>4. (i - i) % width = x - y
  BY <1>1, <1>2, <1>3
<1>5. i - i = 0 /\ 0 \in 0 .. width - 1
  OBVIOUS
<1>6. 0 % width = 0
  BY <1>5, RemainderSmall
<1>7. QED
  BY <1>4, <1>5, <1>6

\* The ring's size divides the width: an index has the slot of its count.
LEMMA WrappedSlot ==
  ASSUME NEW n \in Nat
  PROVE  Wrap(n) % Cap = Slot(n)
<1>1. PICK width \in Nat \ {0}, cap \in Nat \ {0} : width = IndexWidth /\ cap = Cap /\ width % cap = 0
  BY WidthTyped
<1>2. PICK z \in Int, y \in 0 .. cap - 1 : width = cap * z + y /\ width % cap = y
  BY Quotient
<1>3. PICK q \in Int, r \in 0 .. width - 1 : n = width * q + r /\ n % width = r
  BY NatQuotient
<1>4. PICK d \in Int : d = z * q
  OBVIOUS
<1>5. (cap * d + r) % cap = r % cap
  <2>1. PICK a \in Int : a = r
    BY <1>3
  <2>2. (cap * d + a) % cap = a % cap
    BY RemainderShifted
  <2>3. QED
    BY <2>1, <2>2
<1>6. cap * d + r = n
  <2>1. width = cap * z
    BY <1>1, <1>2
  <2>2. (cap * z) * q = cap * (z * q)
    OBVIOUS
  <2>3. QED
    BY <1>3, <1>4, <2>1, <2>2
<1>7. QED
  BY <1>1, <1>3, <1>5, <1>6 DEF Wrap, Slot

LEMMA SlotsDiffer ==
  ASSUME NEW x \in Nat, NEW y \in Nat, y <= x, x - y < Cap, Slot(x) = Slot(y)
  PROVE  x = y
<1>1. PICK cap \in Nat \ {0} : cap = Cap
  BY WidthTyped
<1>2. ((x % cap) - (y % cap)) % cap = x - y
  BY <1>1, RemainderDifference
<1>3. PICK i \in Nat : i = x % cap /\ i = y % cap
  <2>1. PICK q \in Int, r \in 0 .. cap - 1 : x = cap * q + r /\ x % cap = r
    BY NatQuotient
  <2>2. x % cap = y % cap
    BY <1>1 DEF Slot
  <2>3. QED
    BY <2>1, <2>2
<1>4. (i - i) % cap = x - y
  BY <1>2, <1>3
<1>5. i - i = 0 /\ 0 \in 0 .. cap - 1
  OBVIOUS
<1>6. 0 % cap = 0
  BY <1>5, RemainderSmall
<1>7. QED
  BY <1>4, <1>5, <1>6
-----------------------------------------------------------------------------
(***************************************************************************)
(* What the invariant says of counts, reads and stores.                    *)
(***************************************************************************)
LEMMA CountsTyped ==
  ASSUME Domains, Stores, Counts
  PROVE  /\ Len(got) \in Nat /\ sent \in Nat /\ Handled \in Nat /\ Published \in Nat
         /\ Freed \in Nat /\ Freed <= Handled /\ Handled <= Len(got) /\ Len(got) <= Published
         /\ Published <= sent /\ sent <= Freed + Cap /\ sent <= N
         /\ N \in Nat /\ Cap \in Nat
<1>1. PICK g \in Nat, s \in Nat : g = Len(got) /\ s = sent /\ s <= N
  BY WidthTyped DEF Domains
<1>2. Handled = (IF pc.consumer = "free" THEN g - 1 ELSE g) /\ (pc.consumer = "free" => g > 0)
  BY <1>1 DEF Handled, Counts
<1>3. PICK h \in Nat : h = Handled /\ h <= g
  <2>1. CASE pc.consumer = "free"
    BY <1>2, <2>1
  <2>2. CASE pc.consumer # "free"
    BY <1>2, <2>2
  <2>3. QED
    BY <2>1, <2>2
<1>4. PICK p \in Int : p = Published /\ p <= s
  <2>1. Published = s \/ Published = s - 1
    BY <1>1 DEF Published
  <2>2. QED
    BY <2>1
<1>5. PICK f \in Int : f = Freed /\ f <= h
  <2>1. Freed = h \/ Freed = h - 1
    BY <1>3 DEF Freed
  <2>2. QED
    BY <2>1
<1>6. 0 <= f /\ g <= p /\ s <= f + Cap
  BY <1>1, <1>4, <1>5 DEF Counts
<1>7. QED
  BY <1>1, <1>3, <1>4, <1>5, <1>6, WidthTyped

\* A hart has no store of its own to a word it reads.
LEMMA ConsumerReads ==
  ASSUME Stores, NEW w \in Words, w # HeadWord
  PROVE  Read("consumer", w) = mem[w]
<1>1. {i \in DOMAIN store["consumer"] : store["consumer"][i].at = w} = {}
  BY DEF Stores, ToWord
<1>2. QED
  BY <1>1 DEF Read

LEMMA ProducerReads ==
  ASSUME Stores, pc.producer = "wait"
  PROVE  Read("producer", HeadWord) = mem[HeadWord]
<1>1. store["producer"] \in {<<>>, <<IF sent = 0 THEN ToWord(GoWord, 1) ELSE ToWord(TailWord, tail)>>}
  BY DEF Stores
<1>2. HeadWord # GoWord /\ HeadWord # TailWord
  BY DEF HeadWord, GoWord, TailWord
<1>3. {i \in DOMAIN store["producer"] : store["producer"][i].at = HeadWord} = {}
  BY <1>1, <1>2 DEF ToWord
<1>4. QED
  BY <1>3 DEF Read

LEMMA WordsDiffer ==
  /\ TailWord \in Words /\ HeadWord \in Words /\ GoWord \in Words /\ Slots \subseteq Words
  /\ TailWord # HeadWord /\ TailWord # GoWord /\ HeadWord # GoWord
  /\ {TailWord, HeadWord, GoWord} \cap Slots = {}
BY WidthTyped DEF TailWord, HeadWord, GoWord, Words, Slots

\* The only store under way reaches memory.
LEMMA DrainOne ==
  ASSUME NEW h \in Harts, DOMAIN store = Harts, DOMAIN mem = Words, NEW w \in Words, NEW v,
         store[h] \in {<<>>, <<ToWord(w, v)>>}, Drain(h)
  PROVE  /\ store[h] = <<ToWord(w, v)>> /\ store'[h] = <<>> /\ mem'[w] = v
         /\ mem' = [mem EXCEPT ![w] = v]
         /\ DOMAIN store' = Harts /\ DOMAIN mem' = Words
         /\ \A o \in Harts \ {h} : store'[o] = store[o]
         /\ \A u \in Words \ {w} : mem'[u] = mem[u]
         /\ UNCHANGED <<early, pc, tail, sent, head, got, launches>>
<1>1. PICK i \in DOMAIN store[h] :
        /\ mem' = [mem EXCEPT ![store[h][i].at] = store[h][i].val]
        /\ store' = [store EXCEPT ![h] = RemoveAt(@, i)]
  BY DEF Drain
<1>2. store[h] = <<ToWord(w, v)>> /\ i = 1
  BY <1>1
<1>3. store[h][i] = ToWord(w, v)
  BY <1>2
<1>4. RemoveAt(<<ToWord(w, v)>>, 1) = <<>>
  BY DEF RemoveAt
<1>5. ToWord(w, v).at = w /\ ToWord(w, v).val = v
  BY DEF ToWord
<1>6. mem' = [mem EXCEPT ![w] = v] /\ store' = [store EXCEPT ![h] = <<>>]
  BY <1>1, <1>2, <1>3, <1>4, <1>5
<1>7. QED
  BY <1>2, <1>6 DEF Drain

\* A sequence of one element is that element.
LEMMA Single ==
  ASSUME NEW S, NEW s \in Seq(S), Len(s) = 1
  PROVE  s = <<s[1]>>
OBVIOUS

LEMMA RemoveFromPair ==
  ASSUME NEW a, NEW b
  PROVE  RemoveAt(<<a, b>>, 1) = <<b>> /\ RemoveAt(<<a, b>>, 2) = <<a>>
<1>1. Len(<<a, b>>) = 2 /\ <<a, b>> \in Seq({a, b}) /\ <<a, b>>[1] = a /\ <<a, b>>[2] = b
  OBVIOUS
<1>2. SubSeq(<<a, b>>, 1, 0) = <<>>
  BY <1>1
<1>3. SubSeq(<<a, b>>, 3, 2) = <<>>
  BY <1>1
<1>4. PICK S : <<a, b>> \in Seq(S)
  BY <1>1
<1>5. PICK pair \in Seq(S) : pair = <<a, b>> /\ Len(pair) = 2 /\ pair[1] = a /\ pair[2] = b
  BY <1>1, <1>4
<1>6. /\ SubSeq(pair, 1, 1) \in Seq(S) /\ Len(SubSeq(pair, 1, 1)) = 1 /\ SubSeq(pair, 1, 1)[1] = a
      /\ SubSeq(pair, 2, 2) \in Seq(S) /\ Len(SubSeq(pair, 2, 2)) = 1 /\ SubSeq(pair, 2, 2)[1] = b
  BY <1>5
<1>7. SubSeq(<<a, b>>, 1, 1) = <<a>>
  BY <1>5, <1>6, Single
<1>8. SubSeq(<<a, b>>, 2, 2) = <<b>>
  BY <1>5, <1>6, Single
<1>9. <<>> \o <<b>> = <<b>> /\ <<a>> \o <<>> = <<a>>
  OBVIOUS
<1>10. RemoveAt(<<a, b>>, 1) = SubSeq(<<a, b>>, 1, 0) \o SubSeq(<<a, b>>, 2, 2)
  BY <1>1 DEF RemoveAt
<1>11. RemoveAt(<<a, b>>, 2) = SubSeq(<<a, b>>, 1, 1) \o SubSeq(<<a, b>>, 3, 2)
  BY <1>1 DEF RemoveAt
<1>12. QED
  BY <1>2, <1>3, <1>7, <1>8, <1>9, <1>10, <1>11

\* One of two stores to different words reaches memory.
LEMMA DrainTwo ==
  ASSUME NEW h \in Harts, DOMAIN store = Harts, DOMAIN mem = Words, NEW w \in Words, NEW v,
         NEW x \in Words, NEW y, store[h] = <<ToWord(w, v), ToWord(x, y)>>, Drain(h)
  PROVE  /\ DOMAIN store' = Harts /\ DOMAIN mem' = Words
         /\ \A o \in Harts \ {h} : store'[o] = store[o]
         /\ UNCHANGED <<early, pc, tail, sent, head, got, launches>>
         /\ \/ /\ store'[h] = <<ToWord(x, y)>> /\ mem'[w] = v /\ mem' = [mem EXCEPT ![w] = v]
               /\ \A u \in Words \ {w} : mem'[u] = mem[u]
            \/ /\ store'[h] = <<ToWord(w, v)>> /\ mem'[x] = y /\ mem' = [mem EXCEPT ![x] = y]
               /\ \A u \in Words \ {x} : mem'[u] = mem[u]
<1>1. PICK i \in DOMAIN store[h] :
        /\ mem' = [mem EXCEPT ![store[h][i].at] = store[h][i].val]
        /\ store' = [store EXCEPT ![h] = RemoveAt(@, i)]
  BY DEF Drain
<1>2. i \in {1, 2}
  BY <1>1
<1>3. /\ RemoveAt(store[h], 1) = <<ToWord(x, y)>>
      /\ RemoveAt(store[h], 2) = <<ToWord(w, v)>>
  BY RemoveFromPair
<1>4. store[h][1] = ToWord(w, v) /\ store[h][2] = ToWord(x, y)
  OBVIOUS
<1>5. ToWord(w, v).at = w /\ ToWord(w, v).val = v /\ ToWord(x, y).at = x /\ ToWord(x, y).val = y
  BY DEF ToWord
<1>6. CASE i = 1
  <2>1. mem' = [mem EXCEPT ![w] = v] /\ store' = [store EXCEPT ![h] = <<ToWord(x, y)>>]
    BY <1>1, <1>3, <1>4, <1>5, <1>6
  <2>2. QED
    BY <2>1 DEF Drain
<1>7. CASE i = 2
  <2>1. mem' = [mem EXCEPT ![x] = y] /\ store' = [store EXCEPT ![h] = <<ToWord(w, v)>>]
    BY <1>1, <1>3, <1>4, <1>5, <1>7
  <2>2. QED
    BY <2>1 DEF Drain
<1>8. QED
  BY <1>2, <1>6, <1>7

\* A store is added to none.
LEMMA StoreFirst ==
  ASSUME NEW h \in Harts, DOMAIN store = Harts, store[h] = <<>>, NEW e, Store(h, <<e>>)
  PROVE  store'[h] = <<e>> /\ DOMAIN store' = Harts /\ \A o \in Harts \ {h} : store'[o] = store[o]
<1>1. <<>> \o <<e>> = <<e>>
  OBVIOUS
<1>2. QED
  BY <1>1 DEF Store
-----------------------------------------------------------------------------
(***************************************************************************)
(* The steps of the producer.                                              *)
(***************************************************************************)
ProducerSame ==
  /\ pc'.producer = pc.producer /\ store'["producer"] = store["producer"]
  /\ sent' = sent /\ tail' = tail
ConsumerSame ==
  /\ pc'.consumer = pc.consumer /\ store'["consumer"] = store["consumer"]
  /\ got' = got /\ head' = head

LEMMA ProducerCounts ==
  ASSUME ProducerSame
  PROVE  Published' = Published /\ Released' = Released
BY DEF ProducerSame, Published, Released

LEMMA ConsumerCounts ==
  ASSUME ConsumerSame
  PROVE  Handled' = Handled /\ Freed' = Freed /\ Started' = Started
<1>1. Handled' = Handled
  BY DEF ConsumerSame, Handled
<1>2. QED
  BY <1>1 DEF ConsumerSame, Freed, Started

LEMMA GotoHart ==
  ASSUME DOMAIN pc = Harts, NEW l
  PROVE  /\ Goto("producer", l) => DOMAIN pc' = Harts /\ pc'.producer = l /\ pc'.consumer = pc.consumer
         /\ Goto("consumer", l) => DOMAIN pc' = Harts /\ pc'.consumer = l /\ pc'.producer = pc.producer
BY DEF Goto, Harts

LEMMA StoreHart ==
  ASSUME DOMAIN store = Harts, NEW e
  PROVE  /\ Store("producer", <<e>>) /\ store["producer"] = <<>> =>
              /\ DOMAIN store' = Harts /\ store'["producer"] = <<e>>
              /\ store'["consumer"] = store["consumer"]
         /\ Store("consumer", <<e>>) /\ store["consumer"] = <<>> =>
              /\ DOMAIN store' = Harts /\ store'["consumer"] = <<e>>
              /\ store'["producer"] = store["producer"]
<1>1. "producer" \in Harts /\ "consumer" \in Harts /\ "producer" # "consumer"
  BY DEF Harts
<1>2. QED
  BY <1>1, StoreFirst

\* Before the release the consumer has done nothing.
LEMMA NotReleased ==
  ASSUME IInv, ~Released
  PROVE  /\ sent = 0 /\ ~Started /\ got = <<>> /\ store["consumer"] = <<>>
         /\ Handled = 0 /\ Freed = 0 /\ Published = 0 /\ pc.consumer \in {"go", "done"}
         /\ mem[GoWord] # 1
<1>1. sent = 0 /\ mem[GoWord] # 1 /\ ~Started
  BY DEF IInv, Shared
<1>2. got = <<>> /\ store["consumer"] = <<>> /\ pc.consumer \in {"go", "done"}
  BY <1>1 DEF Started, IInv, Domains
<1>3. Handled = 0 /\ Freed = 0
  BY <1>2 DEF Handled, Freed
<1>4. Published = 0
  BY <1>1 DEF Published
<1>5. QED
  BY <1>1, <1>2, <1>3, <1>4

LEMMA WrapZero == Wrap(0) = 0
<1>1. PICK width \in Nat \ {0} : width = IndexWidth
  BY WidthTyped
<1>2. 0 \in 0 .. width - 1
  OBVIOUS
<1>3. 0 % width = 0
  BY <1>2, RemainderSmall
<1>4. QED
  BY <1>1, <1>3 DEF Wrap

LEMMA ProducerInitStep ==
  ASSUME IInv, ProducerInit
  PROVE  IInv'
<1>1. /\ pc.producer = "init" /\ pc'.producer = "release" /\ pc'.consumer = pc.consumer
      /\ DOMAIN pc' = Harts /\ mem' = mem /\ early' = early /\ tail' = tail /\ sent' = sent
      /\ head' = head /\ got' = got /\ launches' = launches
  BY GotoHart DEF ProducerInit, IInv, Domains
<1>2. store["producer"] = <<>>
  BY <1>1 DEF IInv, Stores
<1>3. /\ DOMAIN store' = Harts /\ store'["consumer"] = store["consumer"]
      /\ store'["producer"] = <<ToWord(TailWord, 0), ToWord(HeadWord, 0)>>
  <2>1. <<>> \o <<ToWord(TailWord, 0), ToWord(HeadWord, 0)>> = <<ToWord(TailWord, 0), ToWord(HeadWord, 0)>>
    OBVIOUS
  <2>2. QED
    BY <1>2, <2>1 DEF ProducerInit, Store, ToWord, Harts, IInv, Domains
<1>4. ~Released /\ ~Released' /\ Handled' = Handled /\ Freed' = Freed /\ Started' = Started
  BY <1>1, <1>3, ConsumerCounts DEF Released, ConsumerSame
<1>5. sent = 0 /\ Published' = Published
  BY <1>1, <1>4, NotReleased DEF Published
<1>6. Domains'
  BY <1>1, <1>3 DEF IInv, Domains
<1>7. Stores'
  BY <1>1, <1>3 DEF IInv, Stores
<1>8. Counts'
  BY <1>1, <1>4, <1>5 DEF IInv, Counts
<1>9. Shared'
  BY <1>1, <1>3, <1>4, <1>5 DEF IInv, Shared
<1>10. Passed'
  BY <1>1 DEF IInv, Passed
<1>11. QED
  BY <1>6, <1>7, <1>8, <1>9, <1>10 DEF IInv

LEMMA ProducerGoStep ==
  ASSUME IInv, ProducerGo
  PROVE  IInv'
<1>1. /\ pc.producer = "release" /\ pc'.producer = "wait" /\ pc'.consumer = pc.consumer
      /\ DOMAIN pc' = Harts /\ mem' = mem /\ early' = early /\ tail' = tail /\ sent' = sent
      /\ head' = head /\ got' = got /\ launches' = launches
  BY GotoHart DEF ProducerGo, IInv, Domains
<1>2. store["producer"] = <<>>
  BY DEF ProducerGo, Fenced
<1>3. /\ DOMAIN store' = Harts /\ store'["consumer"] = store["consumer"]
      /\ store'["producer"] = <<ToWord(GoWord, 1)>>
  BY <1>2, StoreHart DEF ProducerGo, ToWord, IInv, Domains
<1>4. ~Released /\ Released' /\ Handled' = Handled /\ Freed' = Freed /\ Started' = Started
  BY <1>1, <1>3, ConsumerCounts DEF Released, ConsumerSame
<1>5. sent = 0 /\ Published' = 0 /\ Published = 0 /\ Freed = 0
  BY <1>1, <1>4, NotReleased DEF Published
<1>6. mem[TailWord] = 0 /\ mem[HeadWord] = 0
  BY <1>1, <1>2 DEF IInv, Shared
<1>7. Domains'
  BY <1>1, <1>3 DEF IInv, Domains
<1>8. Stores'
  BY <1>1, <1>3, <1>5 DEF IInv, Stores
<1>9. Counts'
  BY <1>1, <1>4, <1>5 DEF IInv, Counts
<1>10. Shared'
  BY <1>1, <1>3, <1>4, <1>5, <1>6, WrapZero DEF IInv, Shared
<1>11. Passed'
  BY <1>1 DEF IInv, Passed
<1>12. QED
  BY <1>7, <1>8, <1>9, <1>10, <1>11 DEF IInv

LEMMA ProducerFillStep ==
  ASSUME IInv, ProducerFill
  PROVE  IInv'
<1>1. /\ pc.producer = "wait" /\ pc'.producer = "publish" /\ pc'.consumer = pc.consumer
      /\ DOMAIN pc' = Harts /\ mem' = mem /\ early' = early /\ tail' = tail /\ sent' = sent
      /\ head' = head /\ got' = got /\ launches' = launches
  BY GotoHart DEF ProducerFill, IInv, Domains
<1>2. store["producer"] = <<>>
  BY DEF ProducerFill, Fenced
<1>3. tail % Cap = Slot(sent) /\ sent < N
  <2>1. sent \in Nat /\ tail = Wrap(sent)
    BY CountsTyped DEF IInv, Counts
  <2>2. QED
    BY <2>1, WrappedSlot DEF ProducerFill
<1>4. /\ DOMAIN store' = Harts /\ store'["consumer"] = store["consumer"]
      /\ store'["producer"] = <<ToWord(Slot(sent), Payload(sent))>>
  BY <1>2, <1>3, StoreHart DEF ProducerFill, ToWord, IInv, Domains
<1>5. Released /\ Released' /\ Handled' = Handled /\ Freed' = Freed /\ Started' = Started
  BY <1>1, <1>4, ConsumerCounts DEF Released, ConsumerSame
<1>6. Published' = Published /\ Published = sent
  BY <1>1, <1>2 DEF Published
<1>7. sent < Freed + Cap
  <2>1. PICK s \in Nat, f \in Nat : s = sent /\ f = Freed /\ f <= s /\ s - f <= Cap
    BY CountsTyped DEF IInv
  <2>2. Distance(Wrap(s), Wrap(f)) = s - f
    BY <2>1, WrappedDistance
  <2>3. Distance(tail, mem[HeadWord]) < Cap
    BY <1>1, ProducerReads DEF ProducerFill, HasRoom, IInv
  <2>4. s - f < Cap
    BY <1>5, <2>1, <2>2, <2>3 DEF IInv, Counts, Shared
  <2>5. QED
    BY <2>1, <2>4, WidthTyped
<1>8. Domains'
  BY <1>1, <1>3, <1>4 DEF IInv, Domains
<1>9. Slot(sent)' = Slot(sent) /\ Payload(sent)' = Payload(sent)
  BY <1>1 DEF Slot, Payload
<1>10. Stores'
  BY <1>1, <1>4, <1>9 DEF IInv, Stores
<1>11. Counts'
  BY <1>1, <1>5, <1>6, <1>7 DEF IInv, Counts
<1>12. Shared'
  BY <1>1, <1>4, <1>5, <1>6 DEF IInv, Shared
<1>13. Passed'
  BY <1>1 DEF IInv, Passed
<1>14. QED
  BY <1>8, <1>10, <1>11, <1>12, <1>13 DEF IInv

LEMMA ProducerPublishStep ==
  ASSUME IInv, ProducerPublish
  PROVE  IInv'
<1>1. /\ pc.producer = "publish" /\ pc'.producer = "wait" /\ pc'.consumer = pc.consumer
      /\ DOMAIN pc' = Harts /\ mem' = mem /\ early' = early /\ tail' = Next1(tail) /\ sent' = sent + 1
      /\ head' = head /\ got' = got /\ launches' = launches
  BY GotoHart DEF ProducerPublish, IInv, Domains
<1>2. store["producer"] = <<>>
  BY DEF ProducerPublish, SlotVisible, Fenced
<1>3. PICK s \in Nat, f \in Nat, h \in Nat, n \in Nat, cap \in Nat :
        /\ s = sent /\ f = Freed /\ h = Handled /\ n = N /\ cap = Cap
        /\ s < n /\ s < f + cap /\ f <= h
  BY <1>1, CountsTyped DEF IInv, Domains, Counts
<1>4. tail' = Wrap(s + 1) /\ sent' = s + 1 /\ s + 1 \in 0 .. n /\ s + 1 <= f + cap
  BY <1>1, <1>3, Wrapped DEF IInv, Counts
<1>5. /\ DOMAIN store' = Harts /\ store'["consumer"] = store["consumer"]
      /\ store'["producer"] = <<ToWord(TailWord, tail')>>
  BY <1>2, StoreHart DEF ProducerPublish, ToWord, IInv, Domains
<1>6. Released /\ Released' /\ Handled' = Handled /\ Freed' = Freed /\ Started' = Started
  BY <1>1, <1>5, ConsumerCounts DEF Released, ConsumerSame
<1>7. Published' = s /\ Published = s
  <2>1. Published = s
    BY <1>1, <1>3 DEF Published
  <2>2. Published' = (s + 1) - 1
    <3>1. s + 1 > 0
      OBVIOUS
    <3>2. QED
      BY <1>1, <1>4, <1>5, <3>1 DEF Published
  <2>3. QED
    BY <2>1, <2>2
<1>8. Domains'
  BY <1>1, <1>3, <1>4, <1>5 DEF IInv, Domains
<1>9. Stores'
  <2>1. sent' # 0
    BY <1>4
  <2>2. QED
    BY <1>1, <1>5, <2>1 DEF IInv, Stores
<1>10. Counts'
  <2>1. tail' = Wrap(sent') /\ Wrap(Handled)' = Wrap(Handled)
    BY <1>4, <1>6 DEF Wrap
  <2>2. QED
    BY <1>1, <1>3, <1>4, <1>6, <1>7, <2>1 DEF IInv, Counts
<1>11. Shared'
  <2>1. ASSUME NEW i \in h .. s PROVE mem[Slot(i)] = Payload(i)
    <3>1. i = s \/ i \in h .. s - 1
      OBVIOUS
    <3>2. mem[Slot(s)] = Payload(s)
      BY <1>1, <1>2, <1>3 DEF IInv, Shared
    <3>3. \A j \in h .. s - 1 : mem[Slot(j)] = Payload(j)
      BY <1>3 DEF IInv, Shared
    <3>4. QED
      BY <3>1, <3>2, <3>3
  <2>2. (s + 1) - 1 = s
    OBVIOUS
  <2>3. \A i \in Handled' .. sent' - 1 : mem'[Slot(i)] = Payload(i)
    BY <1>1, <1>3, <1>4, <1>6, <2>1, <2>2
  <2>4. QED
    BY <1>1, <1>6, <1>7, <2>3 DEF IInv, Shared, Wrap, Slot, Payload
<1>12. Passed'
  BY <1>1 DEF IInv, Passed
<1>13. QED
  BY <1>8, <1>9, <1>10, <1>11, <1>12 DEF IInv

LEMMA ProducerDoneStep ==
  ASSUME IInv, ProducerEnd \/ ProducerTimesOut
  PROVE  IInv'
<1>1. /\ pc.producer = "wait" /\ pc'.producer = "done" /\ pc'.consumer = pc.consumer
      /\ DOMAIN pc' = Harts /\ mem' = mem /\ early' = early /\ tail' = tail /\ sent' = sent
      /\ head' = head /\ got' = got /\ launches' = launches /\ store' = store
  BY GotoHart DEF ProducerEnd, ProducerTimesOut, IInv, Domains
<1>2. Released /\ Released' /\ Handled' = Handled /\ Freed' = Freed /\ Started' = Started
  BY <1>1, ConsumerCounts DEF Released, ConsumerSame
<1>3. Published' = Published
  BY <1>1 DEF Published
<1>4. Domains'
  BY <1>1 DEF IInv, Domains
<1>5. Stores'
  BY <1>1 DEF IInv, Stores
<1>6. Counts'
  BY <1>1, <1>2, <1>3 DEF IInv, Counts
<1>7. Shared'
  BY <1>1, <1>2, <1>3 DEF IInv, Shared
<1>8. Passed'
  BY <1>1 DEF IInv, Passed
<1>9. QED
  BY <1>4, <1>5, <1>6, <1>7, <1>8 DEF IInv
-----------------------------------------------------------------------------
(***************************************************************************)
(* The steps of the consumer.                                              *)
(***************************************************************************)

\* The consumer moves on without a store: what it is through with stays.
LEMMA ConsumerMoves ==
  ASSUME IInv, DOMAIN pc' = Harts, pc'.producer = pc.producer,
         pc.consumer # "free", pc'.consumer \in {"wait", "fetch", "done"},
         UNCHANGED <<mem, store, tail, sent, head, got, launches>>,
         pc'.consumer = "done" \/ mem[GoWord] = 1,
         pc'.consumer = "fetch" => Len(got) < Published /\ early' = <<>>,
         ToSet(early') \subseteq Values
  PROVE  IInv'
<1>1. Published' = Published /\ Released' = Released
  BY ProducerCounts DEF ProducerSame
<1>2. Handled' = Handled
  BY DEF Handled
<1>3. Freed' = Freed
  BY <1>2 DEF Freed
<1>4. Started' => mem[GoWord] = 1
  BY DEF Started, IInv, Shared
<1>5. Domains'
  BY DEF IInv, Domains
<1>6. Stores'
  BY DEF IInv, Stores
<1>7. Counts'
  BY <1>1, <1>2, <1>3 DEF IInv, Counts
<1>8. Shared'
  BY <1>1, <1>2, <1>3, <1>4 DEF IInv, Shared
<1>9. Passed'
  BY DEF IInv, Passed
<1>10. QED
  BY <1>5, <1>6, <1>7, <1>8, <1>9 DEF IInv

LEMMA ConsumerStartStep ==
  ASSUME IInv, ConsumerStart
  PROVE  IInv'
<1>1. /\ pc.consumer = "go" /\ DOMAIN pc' = Harts /\ pc'.consumer = "wait"
      /\ pc'.producer = pc.producer
      /\ UNCHANGED <<mem, store, early, tail, sent, head, got, launches>>
  BY GotoHart DEF ConsumerStart, IInv, Domains
<1>2. mem[GoWord] = 1
  BY ConsumerReads, WordsDiffer DEF ConsumerStart, IInv
<1>3. ToSet(early') \subseteq Values
  BY <1>1 DEF IInv, Passed
<1>4. QED
  BY <1>1, <1>2, <1>3, ConsumerMoves

LEMMA ConsumerObserveStep ==
  ASSUME IInv, ConsumerObserve
  PROVE  IInv'
<1>1. /\ pc.consumer = "wait" /\ DOMAIN pc' = Harts /\ pc'.consumer = "fetch"
      /\ pc'.producer = pc.producer /\ early' = <<>>
      /\ UNCHANGED <<mem, store, tail, sent, head, got, launches>>
  BY GotoHart DEF ConsumerObserve, ForgetEarly, IInv, Domains
<1>2. mem[GoWord] = 1 /\ Released
  BY <1>1 DEF IInv, Shared, Started
<1>3. mem[TailWord] # head
  BY ConsumerReads, WordsDiffer DEF ConsumerObserve, IInv
<1>4. Wrap(Published) # Wrap(Handled) /\ Handled = Len(got)
  BY <1>1, <1>2, <1>3 DEF IInv, Shared, Counts, Handled
<1>5. Len(got) < Published
  <2>1. PICK g \in Nat, p \in Nat : g = Len(got) /\ p = Published /\ g <= p
    BY CountsTyped DEF IInv
  <2>2. g # p
    BY <1>4, <2>1
  <2>3. g < p
    BY <2>1, <2>2
  <2>4. QED
    BY <2>1, <2>3
<1>6. ToSet(early') \subseteq Values
  BY <1>1 DEF ToSet
<1>7. QED
  BY <1>1, <1>2, <1>5, <1>6, ConsumerMoves

\* The slot the consumer fetches holds the next item.
LEMMA Fetched ==
  ASSUME IInv, ConsumerFetch
  PROVE  /\ got' = Append(got, Payload(Len(got))) /\ Len(got') = Len(got) + 1
         /\ got' \in Seq(Nat) /\ Payload(Len(got)) \in Nat
         /\ Len(got) < Published /\ Handled = Len(got) /\ mem[GoWord] = 1
<1>1. pc.consumer = "fetch" /\ early = <<>>
  BY DEF ConsumerFetch, IInv, Passed
<1>2. PICK g \in Nat, s \in Nat, p \in Nat :
        g = Len(got) /\ s = sent /\ p = Published /\ g < p /\ p <= s
  BY <1>1, CountsTyped DEF IInv, Counts
<1>3. Handled = g /\ mem[GoWord] = 1
  BY <1>1, <1>2 DEF Handled, IInv, Shared, Started
<1>4. head % Cap = Slot(g)
  <2>1. head = Wrap(g)
    BY <1>3 DEF IInv, Counts
  <2>2. QED
    BY <2>1, WrappedSlot
<1>5. mem[Slot(g)] = Payload(g)
  <2>1. g \in g .. s - 1
    BY <1>2
  <2>2. QED
    BY <1>2, <1>3, <2>1 DEF IInv, Shared
<1>6. Slot(g) \in Words /\ Slot(g) # HeadWord
  BY Wrapped, WordsDiffer
<1>7. Read("consumer", head % Cap) = Payload(g)
  BY <1>4, <1>5, <1>6, ConsumerReads DEF IInv
<1>8. ToSet(early) = {}
  BY <1>1 DEF ToSet
<1>9. got' = Append(got, Payload(g))
  BY <1>7, <1>8 DEF ConsumerFetch
<1>10. Payload(g) \in Nat /\ got \in Seq(Nat)
  BY DEF Payload, IInv, Domains
<1>11. QED
  BY <1>2, <1>3, <1>9, <1>10

LEMMA ConsumerFetchStep ==
  ASSUME IInv, ConsumerFetch
  PROVE  IInv'
<1>1. /\ pc.consumer = "fetch" /\ DOMAIN pc' = Harts /\ pc'.consumer = "free"
      /\ pc'.producer = pc.producer /\ early' = <<>>
      /\ UNCHANGED <<mem, store, tail, sent, head, launches>>
  BY GotoHart DEF ConsumerFetch, IInv, Domains
<1>2. PICK g \in Nat : g = Len(got)
  BY CountsTyped DEF IInv
<1>3. /\ got' = Append(got, Payload(g)) /\ Len(got') = g + 1 /\ got' \in Seq(Nat)
      /\ g < Published /\ Handled = g /\ mem[GoWord] = 1 /\ Payload(g) \in Nat
  BY <1>2, Fetched
<1>4. Published' = Published /\ Released' = Released
  BY <1>1, ProducerCounts DEF ProducerSame
<1>5. Handled' = Handled
  <2>1. Handled' = (g + 1) - 1
    BY <1>1, <1>3 DEF Handled
  <2>2. QED
    BY <1>3, <2>1
<1>6. Freed' = Freed
  BY <1>1, <1>5 DEF Freed
<1>7. Domains'
  BY <1>1, <1>3 DEF IInv, Domains
<1>8. Stores'
  BY <1>1 DEF IInv, Stores
<1>9. Counts'
  <2>1. PICK p \in Nat : p = Published
    BY CountsTyped DEF IInv
  <2>2. g + 1 <= p /\ g + 1 > 0
    BY <1>3, <2>1
  <2>3. Wrap(Handled)' = Wrap(Handled) /\ Wrap(sent)' = Wrap(sent)
    BY <1>1, <1>5 DEF Wrap
  <2>4. QED
    BY <1>1, <1>3, <1>4, <1>5, <1>6, <2>1, <2>2, <2>3 DEF IInv, Counts
<1>10. Shared'
  BY <1>1, <1>3, <1>4, <1>5, <1>6 DEF IInv, Shared
<1>11. Passed'
  <2>1. ASSUME NEW i \in 1 .. g + 1 PROVE got'[i] = Payload(i - 1)
    <3>1. i \in 1 .. g \/ (i = g + 1 /\ i - 1 = g)
      OBVIOUS
    <3>2. got \in Seq(Nat) /\ Len(got) = g
      BY <1>2 DEF IInv, Domains
    <3>3. CASE i \in 1 .. g
      <4>1. got'[i] = got[i]
        BY <1>3, <3>2, <3>3
      <4>2. QED
        BY <1>2, <3>3, <4>1 DEF IInv, Passed
    <3>4. CASE i = g + 1 /\ i - 1 = g
      <4>1. got'[g + 1] = Payload(g)
        BY <1>3, <3>2
      <4>2. QED
        BY <3>4, <4>1
    <3>5. QED
      BY <3>1, <3>3, <3>4
  <2>2. QED
    BY <1>1, <1>3, <2>1 DEF Passed, Payload, ToSet
<1>12. QED
  BY <1>7, <1>8, <1>9, <1>10, <1>11 DEF IInv

LEMMA ConsumerFreeStep ==
  ASSUME IInv, ConsumerFree
  PROVE  IInv'
<1>1. /\ pc.consumer = "free" /\ DOMAIN pc' = Harts /\ pc'.consumer = "wait"
      /\ pc'.producer = pc.producer /\ head' = Next1(head)
      /\ UNCHANGED <<mem, early, tail, sent, got, launches>>
  BY GotoHart DEF ConsumerFree, IInv, Domains
<1>2. store["consumer"] = <<>>
  BY DEF ConsumerFree, Fenced
<1>3. /\ DOMAIN store' = Harts /\ store'["producer"] = store["producer"]
      /\ store'["consumer"] = <<ToWord(HeadWord, head')>>
  BY <1>1, <1>2, StoreHart DEF ConsumerFree, FreeSlot, ToWord, IInv, Domains
<1>4. PICK g \in Nat, h \in Nat : g = Len(got) /\ h = Handled /\ h = g - 1 /\ g > 0
  BY <1>1, CountsTyped DEF IInv, Counts, Handled
<1>5. Handled' = h + 1 /\ Handled' = g
  BY <1>1, <1>4 DEF Handled
<1>6. Freed' = h /\ Freed = h
  <2>1. Freed' = (h + 1) - 1
    BY <1>3, <1>5 DEF Freed
  <2>2. QED
    BY <1>2, <1>4, <2>1 DEF Freed
<1>7. head' = Wrap(h + 1)
  BY <1>1, <1>4, Wrapped DEF IInv, Counts
<1>8. Published' = Published /\ Released' = Released
  BY <1>1, <1>3, ProducerCounts DEF ProducerSame
<1>9. mem[GoWord] = 1
  BY <1>1 DEF IInv, Shared, Started
<1>10. Domains'
  BY <1>1, <1>3 DEF IInv, Domains
<1>11. Stores'
  BY <1>1, <1>3 DEF IInv, Stores
<1>12. Counts'
  <2>1. head' = Wrap(Handled)' /\ Wrap(sent)' = Wrap(sent)
    BY <1>1, <1>5, <1>7 DEF Wrap
  <2>2. 0 <= h /\ h <= h + 1
    OBVIOUS
  <2>3. QED
    BY <1>1, <1>5, <1>6, <1>8, <2>1, <2>2 DEF IInv, Counts
<1>13. Shared'
  <2>1. \A i \in Handled' .. sent' - 1 : mem'[Slot(i)] = Payload(i)
    <3>1. PICK s \in Nat : s = sent
      BY CountsTyped DEF IInv
    <3>2. \A i \in h .. s - 1 : mem[Slot(i)] = Payload(i)
      BY <1>4, <3>1 DEF IInv, Shared
    <3>3. \A i \in h + 1 .. s - 1 : i \in h .. s - 1
      OBVIOUS
    <3>4. QED
      BY <1>1, <1>5, <3>1, <3>2, <3>3
  <2>2. Wrap(Freed)' = Wrap(Freed) /\ Wrap(Published)' = Wrap(Published)
    BY <1>6, <1>8 DEF Wrap
  <2>3. QED
    BY <1>1, <1>3, <1>8, <1>9, <2>1, <2>2 DEF IInv, Shared, Slot, Payload
<1>14. Passed'
  BY <1>1 DEF IInv, Passed
<1>15. QED
  BY <1>10, <1>11, <1>12, <1>13, <1>14 DEF IInv

LEMMA ConsumerDoneStep ==
  ASSUME IInv, ConsumerEnd \/ ConsumerTimesOut
  PROVE  IInv'
<1>1. /\ pc.consumer \in {"go", "wait"} /\ DOMAIN pc' = Harts /\ pc'.consumer = "done"
      /\ pc'.producer = pc.producer
      /\ UNCHANGED <<mem, store, early, tail, sent, head, got, launches>>
  BY GotoHart DEF ConsumerEnd, ConsumerTimesOut, IInv, Domains
<1>2. ToSet(early') \subseteq Values
  BY <1>1 DEF IInv, Passed
<1>3. QED
  BY <1>1, <1>2, ConsumerMoves

LEMMA LoadEarlyStep ==
  ASSUME IInv, LoadEarly
  PROVE  IInv'
<1>1. /\ pc.consumer = "wait" /\ early' = <<mem[head % Cap]>>
      /\ UNCHANGED <<mem, store, pc, tail, sent, head, got, launches>>
  BY DEF LoadEarly
<1>2. mem[head % Cap] \in Values
  <2>1. Handled \in Nat /\ head = Wrap(Handled)
    BY CountsTyped DEF IInv, Counts
  <2>2. head % Cap \in Words
    BY <2>1, WrappedSlot, Wrapped, WordsDiffer
  <2>3. QED
    BY <2>2 DEF IInv, Shared
<1>3. ToSet(early') \subseteq Values
  BY <1>1, <1>2 DEF ToSet
<1>4. mem[GoWord] = 1
  BY <1>1 DEF IInv, Shared, Started
<1>5. QED
  BY <1>1, <1>3, <1>4, ConsumerMoves DEF IInv, Domains
-----------------------------------------------------------------------------
(***************************************************************************)
(* Stores reach memory.                                                    *)
(***************************************************************************)
LEMMA ConsumerDrainStep ==
  ASSUME IInv, Drain("consumer")
  PROVE  IInv'
<1>1. /\ store["consumer"] = <<ToWord(HeadWord, head)>> /\ store'["consumer"] = <<>>
      /\ mem'[HeadWord] = head /\ mem' = [mem EXCEPT ![HeadWord] = head] /\ DOMAIN store' = Harts /\ DOMAIN mem' = Words
      /\ store'["producer"] = store["producer"]
      /\ \A u \in Words \ {HeadWord} : mem'[u] = mem[u]
      /\ UNCHANGED <<early, pc, tail, sent, head, got, launches>>
  BY DrainOne, WordsDiffer DEF IInv, Domains, Stores, Harts
<1>2. Published' = Published /\ Released' = Released /\ Handled' = Handled
  BY <1>1, ProducerCounts DEF ProducerSame, Handled
<1>3. Freed' = Handled /\ Freed <= Handled
  BY <1>1, <1>2 DEF Freed, IInv, Counts
<1>4. mem[GoWord] = 1 /\ Released
  BY <1>1 DEF IInv, Shared, Started
<1>5. Domains'
  BY <1>1 DEF IInv, Domains
<1>6. Stores'
  BY <1>1 DEF IInv, Stores, Slot
<1>7. Counts'
  <2>1. PICK f \in Nat, h \in Nat, s \in Nat, cap \in Nat :
          f = Freed /\ h = Handled /\ s = sent /\ cap = Cap /\ f <= h /\ s <= f + cap
    BY CountsTyped DEF IInv
  <2>2. s <= h + cap /\ (s < f + cap => s < h + cap)
    BY <2>1
  <2>3. Wrap(Handled)' = Wrap(Handled) /\ Wrap(sent)' = Wrap(sent)
    BY <1>1, <1>2 DEF Wrap
  <2>4. QED
    BY <1>1, <1>2, <1>3, <2>1, <2>2, <2>3 DEF IInv, Counts
<1>8. Shared'
  <2>1. \A w \in Slots \cup {TailWord, GoWord} : mem'[w] = mem[w]
    BY <1>1, WordsDiffer
  <2>2. \A i \in Nat : mem'[Slot(i)] = mem[Slot(i)]
    BY <2>1, Wrapped
  <2>3. head \in Values
    BY CountsTyped, Wrapped DEF IInv, Counts, Values
  <2>4. mem' \in [Words -> Values]
    BY <1>1, <2>3 DEF IInv, Shared
  <2>5. mem'[HeadWord] = Wrap(Freed)'
    BY <1>1, <1>2, <1>3 DEF IInv, Counts, Wrap
  <2>6. \A i \in Handled' .. sent' - 1 : mem'[Slot(i)] = Payload(i)
    <3>1. Handled \in Nat /\ sent \in Nat
      BY CountsTyped DEF IInv
    <3>2. QED
      BY <1>1, <1>2, <2>2, <3>1 DEF IInv, Shared
  <2>7. sent \in Nat
    BY CountsTyped DEF IInv
  <2>8. Wrap(Published)' = Wrap(Published)
    BY <1>2 DEF Wrap
  <2>9. QED
    BY <1>1, <1>2, <1>4, <2>1, <2>2, <2>4, <2>5, <2>6, <2>7, <2>8, WordsDiffer
       DEF IInv, Shared, Slot, Payload, Released
<1>9. Passed'
  BY <1>1 DEF IInv, Passed
<1>10. QED
  BY <1>5, <1>6, <1>7, <1>8, <1>9 DEF IInv

\* The producer's store reaches memory while its program stands still.
LEMMA ProducerDrainFrame ==
  ASSUME IInv, Drain("producer")
  PROVE  /\ UNCHANGED <<early, pc, tail, sent, head, got, launches>>
         /\ DOMAIN store' = Harts /\ store'["consumer"] = store["consumer"]
         /\ Handled' = Handled /\ Freed' = Freed /\ Started' = Started /\ Released' = Released
         /\ Wrap(Handled)' = Wrap(Handled) /\ Wrap(Freed)' = Wrap(Freed)
         /\ Wrap(sent)' = Wrap(sent) /\ Passed'
<1>1. UNCHANGED <<early, pc, tail, sent, head, got, launches>>
  BY DEF Drain
<1>2. DOMAIN store' = Harts /\ store'["consumer"] = store["consumer"]
  BY DEF Drain, Harts, IInv, Domains
<1>3. Handled' = Handled /\ Freed' = Freed /\ Started' = Started /\ Released' = Released
  BY <1>1, <1>2, ConsumerCounts DEF ConsumerSame, Released
<1>4. Passed'
  BY <1>1 DEF IInv, Passed
<1>5. QED
  BY <1>1, <1>2, <1>3, <1>4 DEF Wrap

LEMMA ZeroDrains ==
  ASSUME IInv, Drain("producer"), pc.producer = "release"
  PROVE  IInv'
<1>1. /\ UNCHANGED <<early, pc, tail, sent, head, got, launches>>
      /\ DOMAIN store' = Harts /\ store'["consumer"] = store["consumer"]
      /\ Handled' = Handled /\ Freed' = Freed /\ Started' = Started /\ Released' = Released
      /\ Wrap(Handled)' = Wrap(Handled) /\ Wrap(Freed)' = Wrap(Freed)
      /\ Wrap(sent)' = Wrap(sent) /\ Passed'
  BY ProducerDrainFrame
<1>2. ~Released /\ sent = 0 /\ mem[GoWord] # 1
  BY NotReleased DEF Released
<1>3. Published' = Published
  BY <1>1, <1>2 DEF Published
<1>4. store["producer"] \in
        {<<>>, <<ToWord(TailWord, 0)>>, <<ToWord(HeadWord, 0)>>,
         <<ToWord(TailWord, 0), ToWord(HeadWord, 0)>>}
  BY DEF IInv, Stores
<1> DEFINE TailDrained == mem' = [mem EXCEPT ![TailWord] = 0] /\ mem'[TailWord] = 0
                            /\ \A u \in Words \ {TailWord} : mem'[u] = mem[u]
           HeadDrained == mem' = [mem EXCEPT ![HeadWord] = 0] /\ mem'[HeadWord] = 0
                            /\ \A u \in Words \ {HeadWord} : mem'[u] = mem[u]
<1>5. /\ DOMAIN mem' = Words
      /\ \/ store["producer"] = <<ToWord(TailWord, 0)>> /\ store'["producer"] = <<>> /\ TailDrained
         \/ store["producer"] = <<ToWord(HeadWord, 0)>> /\ store'["producer"] = <<>> /\ HeadDrained
         \/ /\ store["producer"] = <<ToWord(TailWord, 0), ToWord(HeadWord, 0)>>
            /\ \/ store'["producer"] = <<ToWord(HeadWord, 0)>> /\ TailDrained
               \/ store'["producer"] = <<ToWord(TailWord, 0)>> /\ HeadDrained
  <2>1. "producer" \in Harts /\ DOMAIN store = Harts /\ DOMAIN mem = Words
    BY DEF Harts, IInv, Domains
  <2>2. store["producer"] # <<>>
    BY DEF Drain
  <2>3. CASE store["producer"] = <<ToWord(TailWord, 0)>>
    <3>1. store["producer"] \in {<<>>, <<ToWord(TailWord, 0)>>} /\ TailWord \in Words
      BY <2>3, WordsDiffer
    <3>2. store'["producer"] = <<>> /\ TailDrained /\ DOMAIN mem' = Words
      BY <2>1, <3>1, DrainOne
    <3>3. QED
      BY <2>3, <3>2
  <2>4. CASE store["producer"] = <<ToWord(HeadWord, 0)>>
    <3>1. store["producer"] \in {<<>>, <<ToWord(HeadWord, 0)>>} /\ HeadWord \in Words
      BY <2>4, WordsDiffer
    <3>2. store'["producer"] = <<>> /\ HeadDrained /\ DOMAIN mem' = Words
      BY <2>1, <3>1, DrainOne
    <3>3. QED
      BY <2>4, <3>2
  <2>5. CASE store["producer"] = <<ToWord(TailWord, 0), ToWord(HeadWord, 0)>>
    BY <2>1, <2>5, DrainTwo, WordsDiffer
  <2>6. QED
    BY <1>4, <2>2, <2>3, <2>4, <2>5
<1>6. 0 \in Values
  BY WidthTyped DEF Values
<1>7. mem' \in [Words -> Values] /\ mem'[GoWord] # 1
  BY <1>2, <1>5, <1>6, WordsDiffer DEF IInv, Shared
<1>8. mem'[TailWord] \in {Unwritten, 0}
  BY <1>2, <1>5, WordsDiffer DEF IInv, Shared
<1>9. /\ mem'[TailWord] = 0 \/ store'["producer"] = <<ToWord(TailWord, 0)>>
      /\ mem'[HeadWord] = 0 \/ store'["producer"] = <<ToWord(HeadWord, 0)>>
  <2>1. ToWord(TailWord, 0) # ToWord(HeadWord, 0)
    BY WordsDiffer DEF ToWord
  <2>2. /\ mem[TailWord] = 0 \/ store["producer"] \in {<<ToWord(TailWord, 0)>>, <<ToWord(TailWord, 0), ToWord(HeadWord, 0)>>}
        /\ mem[HeadWord] = 0 \/ store["producer"] \in {<<ToWord(HeadWord, 0)>>, <<ToWord(TailWord, 0), ToWord(HeadWord, 0)>>}
    BY DEF IInv, Shared
  <2>3. /\ <<ToWord(TailWord, 0)>> # <<ToWord(HeadWord, 0)>>
        /\ <<ToWord(TailWord, 0)>> # <<ToWord(TailWord, 0), ToWord(HeadWord, 0)>>
        /\ <<ToWord(HeadWord, 0)>> # <<ToWord(TailWord, 0), ToWord(HeadWord, 0)>>
    BY <2>1
  <2>4. QED
    BY <1>5, <2>2, <2>3, WordsDiffer
<1> HIDE DEF TailDrained, HeadDrained
<1>10. Domains'
  BY <1>1, <1>5 DEF IInv, Domains
<1>11. Stores'
  BY <1>1, <1>5 DEF IInv, Stores
<1>12. Counts'
  BY <1>1, <1>3 DEF IInv, Counts
<1>13. Shared'
  <2>1. \A i \in Handled' .. sent' - 1 : FALSE
    BY <1>1, <1>2, CountsTyped DEF IInv
  <2>2. QED
    BY <1>1, <1>2, <1>7, <1>8, <1>9, <2>1 DEF Shared, Started, IInv
<1>14. QED
  BY <1>1, <1>10, <1>11, <1>12, <1>13 DEF IInv

LEMMA SlotDrains ==
  ASSUME IInv, Drain("producer"), pc.producer = "publish"
  PROVE  IInv'
<1>1. /\ UNCHANGED <<early, pc, tail, sent, head, got, launches>>
      /\ DOMAIN store' = Harts /\ store'["consumer"] = store["consumer"]
      /\ Handled' = Handled /\ Freed' = Freed /\ Started' = Started /\ Released' = Released
      /\ Wrap(Handled)' = Wrap(Handled) /\ Wrap(Freed)' = Wrap(Freed)
      /\ Wrap(sent)' = Wrap(sent) /\ Passed'
  BY ProducerDrainFrame
<1>2. PICK s \in Nat, h \in Nat, f \in Nat, cap \in Nat, n \in Nat :
        /\ s = sent /\ h = Handled /\ f = Freed /\ cap = Cap /\ n = N
        /\ s < n /\ f <= h /\ s < f + cap
  BY CountsTyped DEF IInv, Domains, Counts
<1>3. Slot(s) \in Slots /\ Slot(s) \in Words
  BY Wrapped, WordsDiffer
<1>4. /\ store'["producer"] = <<>> /\ mem'[Slot(s)] = Payload(s)
      /\ mem' = [mem EXCEPT ![Slot(s)] = Payload(s)] /\ DOMAIN mem' = Words
      /\ \A u \in Words \ {Slot(s)} : mem'[u] = mem[u]
  <2>1. "producer" \in Harts /\ DOMAIN store = Harts /\ DOMAIN mem = Words
    BY DEF Harts, IInv, Domains
  <2>2. store["producer"] \in {<<>>, <<ToWord(Slot(s), Payload(s))>>}
    BY <1>2 DEF IInv, Stores
  <2>3. QED
    BY <1>3, <2>1, <2>2, DrainOne
<1>5. Published' = Published
  BY <1>1 DEF Published
<1>6. Domains'
  BY <1>1, <1>4 DEF IInv, Domains
<1>7. Stores'
  BY <1>1, <1>4 DEF IInv, Stores
<1>8. Counts'
  BY <1>1, <1>5 DEF IInv, Counts
<1>9. Shared'
  <2>1. Payload(s) \in Values
    BY <1>2 DEF Payload, Values
  <2>2. mem' \in [Words -> Values]
    BY <1>4, <2>1 DEF IInv, Shared
  <2>3. mem'[TailWord] = mem[TailWord] /\ mem'[HeadWord] = mem[HeadWord] /\ mem'[GoWord] = mem[GoWord]
    BY <1>3, <1>4, WordsDiffer
  <2>4. ASSUME NEW i \in h .. s - 1 PROVE mem'[Slot(i)] = Payload(i)
    <3>1. i \in Nat /\ i <= s /\ s - i < cap /\ i # s
      BY <1>2
    <3>2. Slot(i) # Slot(s)
      BY <1>2, <3>1, SlotsDiffer
    <3>3. Slot(i) \in Words
      BY <3>1, Wrapped, WordsDiffer
    <3>4. mem[Slot(i)] = Payload(i)
      BY <1>2 DEF IInv, Shared
    <3>5. QED
      BY <1>4, <3>2, <3>3, <3>4
  <2>5. \A i \in Handled' .. sent' - 1 : mem'[Slot(i)] = Payload(i)
    BY <1>1, <1>2, <2>4
  <2>6. Wrap(Published)' = Wrap(Published)
    BY <1>5 DEF Wrap
  <2>7. QED
    BY <1>1, <1>2, <1>4, <1>5, <2>2, <2>3, <2>5, <2>6 DEF IInv, Shared, Slot, Payload
<1>10. QED
  BY <1>1, <1>6, <1>7, <1>8, <1>9 DEF IInv

LEMMA IndexDrains ==
  ASSUME IInv, Drain("producer"), pc.producer \in {"wait", "done"}
  PROVE  IInv'
<1>1. /\ UNCHANGED <<early, pc, tail, sent, head, got, launches>>
      /\ DOMAIN store' = Harts /\ store'["consumer"] = store["consumer"]
      /\ Handled' = Handled /\ Freed' = Freed /\ Started' = Started /\ Released' = Released
      /\ Wrap(Handled)' = Wrap(Handled) /\ Wrap(Freed)' = Wrap(Freed)
      /\ Wrap(sent)' = Wrap(sent) /\ Passed'
  BY ProducerDrainFrame
<1>2. PICK w \in {GoWord, TailWord}, v \in {1, tail} :
        /\ w = IF sent = 0 THEN GoWord ELSE TailWord
        /\ v = IF sent = 0 THEN 1 ELSE tail
  OBVIOUS
<1>3. /\ store["producer"] # <<>> /\ store'["producer"] = <<>> /\ mem'[w] = v
      /\ mem' = [mem EXCEPT ![w] = v] /\ DOMAIN mem' = Words
      /\ \A u \in Words \ {w} : mem'[u] = mem[u]
  <2>1. "producer" \in Harts /\ DOMAIN store = Harts /\ DOMAIN mem = Words /\ w \in Words
    BY WordsDiffer DEF Harts, IInv, Domains
  <2>2. store["producer"] \in {<<>>, <<ToWord(w, v)>>}
    BY <1>2 DEF IInv, Stores
  <2>3. store["producer"] # <<>>
    BY DEF Drain
  <2>4. QED
    BY <2>1, <2>2, <2>3, DrainOne
<1>4. PICK s \in Nat, p \in Nat, g \in Nat, n \in Nat :
        s = sent /\ p = Published /\ g = Len(got) /\ n = N /\ g <= p /\ p <= s /\ s <= n
  BY CountsTyped DEF IInv
<1>5. Published' = s
  BY <1>1, <1>3, <1>4 DEF Published
<1>6. Released
  BY DEF Released
<1>7. Domains'
  BY <1>1, <1>3 DEF IInv, Domains
<1>8. Stores'
  BY <1>1, <1>3 DEF IInv, Stores
<1>9. Counts'
  <2>1. g <= s
    BY <1>4
  <2>2. QED
    BY <1>1, <1>4, <1>5, <2>1 DEF IInv, Counts
<1>10. Shared'
  <2>1. v \in Values
    <3>1. CASE sent = 0
      BY <1>2, <3>1, WidthTyped DEF Values, Indices
    <3>2. CASE sent # 0
      BY <1>2, <1>4, <3>2, Wrapped DEF IInv, Counts, Values
    <3>3. QED
      BY <3>1, <3>2
  <2>2. mem' \in [Words -> Values]
    BY <1>3, <2>1 DEF IInv, Shared
  <2>3. mem'[HeadWord] = mem[HeadWord] /\ \A x \in Slots : mem'[x] = mem[x]
    BY <1>2, <1>3, WordsDiffer
  <2>4. mem[GoWord] = 1 => mem'[GoWord] = 1
    BY <1>2, <1>3, WordsDiffer
  <2>5. mem'[TailWord] = Wrap(s)
    <3>1. CASE sent = 0
      <4>1. Published = s
        BY <1>4, <3>1
      <4>2. mem'[TailWord] = mem[TailWord]
        BY <1>2, <1>3, <3>1, WordsDiffer
      <4>3. QED
        BY <1>6, <4>1, <4>2 DEF IInv, Shared
    <3>2. CASE sent # 0
      BY <1>2, <1>3, <1>4, <3>2 DEF IInv, Counts
    <3>3. QED
      BY <3>1, <3>2
  <2>6. \A i \in Handled' .. sent' - 1 : mem'[Slot(i)] = Payload(i)
    <3>1. Handled \in Nat /\ sent \in Nat
      BY CountsTyped DEF IInv
    <3>2. \A i \in Handled .. sent - 1 : Slot(i) \in Slots
      BY <3>1, Wrapped
    <3>3. QED
      BY <1>1, <2>3, <3>2 DEF IInv, Shared
  <2>7. mem'[HeadWord] = Wrap(Freed)'
    BY <1>1, <1>6, <2>3 DEF IInv, Shared
  <2>8. mem'[TailWord] = Wrap(Published)'
    BY <1>5, <2>5 DEF Wrap
  <2>9. pc'.producer \notin {"release", "publish"}
    BY <1>1
  <2>10. QED
    BY <1>1, <1>6, <2>2, <2>4, <2>6, <2>7, <2>8, <2>9 DEF IInv, Shared, Slot, Payload
<1>11. QED
  BY <1>1, <1>7, <1>8, <1>9, <1>10 DEF IInv

LEMMA DrainStep ==
  ASSUME IInv, NEW h \in Harts, Drain(h)
  PROVE  IInv'
<1>1. CASE h = "consumer"
  BY <1>1, ConsumerDrainStep
<1>2. CASE h = "producer"
  <2>1. pc.producer # "init"
    BY <1>2 DEF Drain, IInv, Stores
  <2>2. QED
    BY <1>2, <2>1, ZeroDrains, SlotDrains, IndexDrains DEF IInv, Domains
<1>3. QED
  BY <1>1, <1>2 DEF Harts
-----------------------------------------------------------------------------
(***************************************************************************)
(* The invariant.  A kernel that is launched again starts from a fresh     *)
(* image: what the last launch left in memory would start the consumer.    *)
(***************************************************************************)
FreshImage == Unwritten # 1 /\ (Reloads \/ MaxLaunches = 1)

\* Where a launch starts that finds the image as it was loaded.
Fresh ==
  /\ FreshImage /\ mem = [w \in Words |-> Unwritten] /\ early = <<>>
  /\ DOMAIN store = Harts /\ \A h \in Harts : store[h] = <<>>
  /\ pc = [producer |-> "init", consumer |-> "go"]
  /\ tail = 0 /\ sent = 0 /\ head = 0 /\ got = <<>> /\ launches \in 1 .. MaxLaunches

LEMMA FreshStart == Fresh => IInv
<1> SUFFICES ASSUME Fresh PROVE IInv
  OBVIOUS
<1> USE DEF Fresh
<1>1. Handled = 0 /\ Freed = 0 /\ Published = 0 /\ ~Started /\ ~Released
  BY DEF Handled, Freed, Published, Started, Released, Harts
<1>2. Domains
  <2>1. DOMAIN pc = Harts
    BY DEF Harts
  <2>2. <<>> \in Seq(Nat)
    OBVIOUS
  <2>3. QED
    BY <2>1, <2>2, WidthTyped DEF Domains
<1>3. Stores
  BY DEF Stores, Harts
<1>4. Counts
  BY <1>1, WrapZero, WidthTyped DEF Counts
<1>5. Shared
  BY <1>1, WordsDiffer DEF Shared, Values, FreshImage
<1>6. Passed
  BY DEF Passed, ToSet
<1>7. QED
  BY <1>2, <1>3, <1>4, <1>5, <1>6 DEF IInv

LEMMA RelaunchStep ==
  ASSUME FreshImage, IInv, Relaunch
  PROVE  IInv'
<1>1. Reloads /\ launches + 1 \in 1 .. MaxLaunches
  BY SpscAssumption DEF FreshImage, Relaunch, IInv, Domains
<1>2. mem' = [w \in Words |-> Unwritten]
  BY <1>1 DEF Relaunch
<1>3. DOMAIN store' = Harts /\ \A h \in Harts : store'[h] = <<>>
  BY DEF Relaunch, Fenced, IInv, Domains
<1>4. /\ early' = <<>> /\ pc' = [producer |-> "init", consumer |-> "go"]
      /\ tail' = 0 /\ sent' = 0 /\ head' = 0 /\ got' = <<>> /\ launches' = launches + 1
  BY DEF Relaunch
<1>5. Fresh'
  BY <1>1, <1>2, <1>3, <1>4 DEF Fresh
<1>6. Fresh' => IInv'
  BY FreshStart, PTL
<1>7. QED
  BY <1>5, <1>6

LEMMA StutterStep ==
  ASSUME IInv, UNCHANGED vars
  PROVE  IInv'
<1>1. UNCHANGED <<mem, store, early, pc, tail, sent, head, got, launches>>
  BY DEF vars
<1>2. Handled' = Handled /\ Freed' = Freed /\ Published' = Published /\ Started' = Started
      /\ Released' = Released
  BY <1>1, ConsumerCounts, ProducerCounts DEF ConsumerSame, ProducerSame
<1>3. Domains' /\ Stores' /\ Passed'
  BY <1>1 DEF IInv, Domains, Stores, Passed
<1>4. Counts' /\ Shared'
  BY <1>1, <1>2 DEF IInv, Counts, Shared
<1>5. QED
  BY <1>3, <1>4 DEF IInv

LEMMA NextStep ==
  ASSUME FreshImage, IInv, [Next]_vars
  PROVE  IInv'
<1>1. CASE Producer
  BY <1>1, ProducerInitStep, ProducerGoStep, ProducerFillStep, ProducerPublishStep, ProducerDoneStep
     DEF Producer
<1>2. CASE Consumer
  BY <1>2, ConsumerStartStep, ConsumerObserveStep, ConsumerFetchStep, ConsumerFreeStep,
     ConsumerDoneStep DEF Consumer
<1>3. CASE ProducerTimesOut \/ ConsumerTimesOut \/ LoadEarly
  BY <1>3, ProducerDoneStep, ConsumerDoneStep, LoadEarlyStep
<1>4. CASE \E h \in Harts : Drain(h)
  BY <1>4, DrainStep
<1>5. CASE Relaunch
  BY <1>5, RelaunchStep
<1>6. CASE UNCHANGED vars
  BY <1>6, StutterStep
<1>7. QED
  BY <1>1, <1>2, <1>3, <1>4, <1>5, <1>6 DEF Next

LEMMA InitIInv ==
  ASSUME FreshImage, Init
  PROVE  IInv
BY FreshStart, SpscAssumption DEF Init, Fresh

\* Counts that never wrap stand behind the indices that do: what memory holds of
\* them, and of the items between them, is never further behind than the stores
\* and fences of the two harts allow.
THEOREM Inductive ==
  ASSUME FreshImage
  PROVE  Spec => []IInv
<1>1. Init => IInv
  BY InitIInv
<1>2. IInv /\ [Next]_vars => IInv'
  BY NextStep
<1>3. QED
  BY <1>1, <1>2, PTL DEF Spec

LEMMA InOrderHolds == IInv => InOrder
<1> SUFFICES ASSUME IInv PROVE InOrder
  OBVIOUS
<1>1. PICK g \in Nat, s \in Nat, k \in Nat, n \in Nat, p \in Nat :
        /\ g = Len(got) /\ s = sent /\ k = Handled /\ n = N /\ p = Published
        /\ g <= p /\ p <= s /\ s <= n
  BY CountsTyped DEF IInv
<1>2. tail \in Indices /\ head \in Indices
  <2>1. tail = Wrap(s) /\ head = Wrap(k)
    BY <1>1 DEF IInv, Counts
  <2>2. QED
    BY <2>1, Wrapped
<1>3. ASSUME NEW h \in Harts, NEW e \in ToSet(store[h]) PROVE e.at \in Words /\ e.val \in Values
  <2>1. 0 \in Values /\ 1 \in Values /\ tail \in Values /\ head \in Values
    BY <1>2, WidthTyped DEF Values, Indices
  <2>2. s < n => Payload(s) \in Values
    BY <1>1 DEF Payload, Values
  <2>3. Slot(s) \in Words
    BY Wrapped, WordsDiffer
  <2>4. PICK i \in DOMAIN store[h] : e = store[h][i]
    BY <1>3 DEF ToSet
  <2>5. CASE h = "consumer"
    <3>1. e = ToWord(HeadWord, head)
      BY <2>4, <2>5 DEF IInv, Stores
    <3>2. QED
      BY <2>1, <3>1, WordsDiffer DEF ToWord
  <2>6. CASE h = "producer"
    <3>1. \/ e \in {ToWord(TailWord, 0), ToWord(HeadWord, 0), ToWord(GoWord, 1), ToWord(TailWord, tail)}
          \/ pc.producer = "publish" /\ e = ToWord(Slot(s), Payload(s))
      <4>1. CASE pc.producer = "publish"
        BY <1>1, <2>4, <2>6, <4>1 DEF IInv, Stores
      <4>2. CASE pc.producer = "release"
        <5>1. store[h] \in {<<>>, <<ToWord(TailWord, 0)>>, <<ToWord(HeadWord, 0)>>,
                            <<ToWord(TailWord, 0), ToWord(HeadWord, 0)>>}
          BY <2>6, <4>2 DEF IInv, Stores
        <5>2. QED
          BY <2>4, <5>1
      <4>3. CASE pc.producer \in {"init", "wait", "done"}
        BY <2>4, <2>6, <4>3 DEF IInv, Stores
      <4>4. QED
        BY <4>1, <4>2, <4>3 DEF IInv, Domains
    <3>2. pc.producer = "publish" => s < n
      BY <1>1 DEF IInv, Domains
    <3>3. QED
      BY <2>1, <2>2, <2>3, <3>1, <3>2, WordsDiffer DEF ToWord
  <2>7. QED
    BY <2>5, <2>6 DEF Harts
<1>4. ToSet(got) \subseteq Values
  <2>1. DOMAIN got = 1 .. g
    BY <1>1 DEF IInv, Domains
  <2>2. \A i \in 1 .. g : got[i] = i
    BY <1>1 DEF IInv, Passed, Payload
  <2>3. \A i \in 1 .. g : i \in 0 .. N
    BY <1>1
  <2>4. QED
    BY <2>1, <2>2, <2>3 DEF ToSet, Values
<1>5. sent \in 0 .. N /\ Len(got) \in 0 .. N
  BY <1>1
<1>6. TypeOK
  BY <1>2, <1>3, <1>4, <1>5 DEF TypeOK, IInv, Domains, Shared, Passed
<1>7. QED
  BY <1>6 DEF InOrder, IInv, Passed

\* The consumer reads what the producer wrote, in order, each item once.
THEOREM InOrderAlways ==
  ASSUME FreshImage
  PROVE  Spec => []InOrder
<1>1. Spec => []IInv
  BY Inductive
<1>2. QED
  BY <1>1, InOrderHolds, PTL
-----------------------------------------------------------------------------
(***************************************************************************)
(* The queue is a bounded FIFO.                                            *)
(***************************************************************************)

\* No index a launch gets to looks like a word that was never written.
IndicesWritten == \A i \in 0 .. N : Wrap(i) # Unwritten

\* Items g + 1 to p, of which the consumer has g and memory knows p.
Window(g, p) == [i \in 1 .. p - g |-> Payload(g + i - 1)]

LEMMA SameSequence ==
  ASSUME NEW s \in Seq(Nat), NEW t \in Seq(Nat), Len(s) = Len(t),
         \A i \in 1 .. Len(s) : s[i] = t[i]
  PROVE  s = t
OBVIOUS

LEMMA WindowSteps ==
  ASSUME NEW g \in Nat, NEW p \in Nat, g <= p
  PROVE  /\ Window(g, p) \in Seq(Nat) /\ Len(Window(g, p)) = p - g
         /\ Window(g, p + 1) = Append(Window(g, p), Payload(p))
         /\ g < p => Window(g, p) # <<>> /\ Head(Window(g, p)) = Payload(g)
                     /\ Tail(Window(g, p)) = Window(g + 1, p)
<1>1. ASSUME NEW a \in Nat, NEW b \in Nat, a <= b
      PROVE  /\ Window(a, b) \in Seq(Nat) /\ Len(Window(a, b)) = b - a
             /\ \A i \in 1 .. b - a : Window(a, b)[i] = a + i
  <2>1. \A i \in 1 .. b - a : Payload(a + i - 1) = a + i /\ a + i \in Nat
    BY DEF Payload
  <2>2. Window(a, b) = [i \in 1 .. b - a |-> a + i] /\ b - a \in Nat
    BY <1>1, <2>1 DEF Window
  <2>3. QED
    BY <2>1, <2>2
<1>2. PICK w \in Seq(Nat), longer \in Seq(Nat) : w = Window(g, p) /\ longer = Window(g, p + 1)
  BY <1>1
<1>3. /\ Len(w) = p - g /\ \A i \in 1 .. p - g : w[i] = g + i
      /\ Len(longer) = p + 1 - g /\ \A i \in 1 .. p + 1 - g : longer[i] = g + i
  <2>1. Len(w) = p - g /\ \A i \in 1 .. p - g : w[i] = g + i
    BY <1>1, <1>2
  <2>2. PICK b \in Nat : b = p + 1 /\ g <= b
    OBVIOUS
  <2>3. Len(longer) = b - g /\ \A i \in 1 .. b - g : longer[i] = g + i
    BY <1>1, <1>2, <2>2
  <2>4. QED
    BY <2>1, <2>2, <2>3
<1>4. longer = Append(w, Payload(p))
  <2>1. Payload(p) = p + 1 /\ p + 1 \in Nat
    BY DEF Payload
  <2>2. Append(w, p + 1) \in Seq(Nat) /\ Len(Append(w, p + 1)) = p + 1 - g
    BY <1>3
  <2>3. \A i \in 1 .. p + 1 - g : Append(w, p + 1)[i] = g + i
    BY SMTT(30), <1>3
  <2>4. \A i \in 1 .. p + 1 - g : longer[i] = Append(w, p + 1)[i]
    BY <1>3, <2>3
  <2>5. longer = Append(w, p + 1)
    BY SMTT(30), <1>3, <2>2, <2>4
  <2>6. QED
    BY <2>1, <2>5
<1>5. ASSUME g < p
      PROVE  w # <<>> /\ Head(w) = Payload(g) /\ Tail(w) = Window(g + 1, p)
  <2>1. w # <<>> /\ Head(w) = w[1] /\ w[1] = g + 1
    BY <1>3, <1>5
  <2>2. PICK rest \in Seq(Nat) : rest = Window(g + 1, p) /\ Len(rest) = p - (g + 1)
                                 /\ \A i \in 1 .. p - (g + 1) : rest[i] = (g + 1) + i
    <3>1. g + 1 \in Nat /\ g + 1 <= p
      BY <1>5
    <3>2. QED
      BY <1>1, <3>1
  <2>3. Tail(w) \in Seq(Nat) /\ Len(Tail(w)) = p - (g + 1)
        /\ \A i \in 1 .. p - (g + 1) : Tail(w)[i] = w[i + 1]
    BY <1>3, <1>5, <2>1
  <2>4. \A i \in 1 .. p - (g + 1) : Tail(w)[i] = rest[i]
    BY <1>3, <2>2, <2>3
  <2>5. Tail(w) = rest
    <3>1. PICK t \in Seq(Nat) : t = Tail(w)
      BY <2>3
    <3>2. Len(t) = Len(rest) /\ \A i \in 1 .. Len(t) : t[i] = rest[i]
      BY <2>2, <2>3, <2>4, <3>1
    <3>3. t = rest
      BY <3>2, SameSequence
    <3>4. QED
      BY <3>1, <3>3
  <2>6. QED
    BY <2>1, <2>2, <2>5 DEF Payload
<1>6. QED
  BY <1>2, <1>3, <1>4, <1>5

\* The refinement mapping, in counts.
QueueIsWindow == InFlight = Window(Len(got), Published)

LEMMA InFlightCounts ==
  (IndicesWritten /\ IInv) => QueueIsWindow
<1> SUFFICES ASSUME IndicesWritten, IInv PROVE InFlight = Window(Len(got), Published)
  BY DEF QueueIsWindow
<1> DEFINE next == IF pc.consumer = "free" THEN Next1(head) ELSE head
<1>1. PICK g \in Nat, p \in Nat, h \in Nat :
        /\ g = Len(got) /\ p = Published /\ h = Handled
        /\ g <= p /\ p - g <= Cap /\ p \in 0 .. N
        /\ h = IF pc.consumer = "free" THEN g - 1 ELSE g
  BY CountsTyped DEF IInv, Handled
<1>2. next = Wrap(g)
  <2>1. head = Wrap(h)
    BY <1>1 DEF IInv, Counts
  <2>2. CASE pc.consumer = "free"
    <3>1. h + 1 = g
      BY <1>1, <2>2
    <3>2. Next1(Wrap(h)) = Wrap(h + 1)
      BY Wrapped
    <3>3. QED
      BY <2>1, <2>2, <3>1, <3>2
  <2>3. CASE pc.consumer # "free"
    BY <1>1, <2>1, <2>3
  <2>4. QED
    BY <2>2, <2>3
<1> HIDE DEF next
<1>3. InFlight = IF mem[TailWord] = Unwritten THEN <<>>
                 ELSE [i \in 1 .. Distance(mem[TailWord], next) |-> Payload(g + i - 1)]
  BY <1>1 DEF InFlight, next
<1>4. Distance(Wrap(p), Wrap(g)) = p - g
  BY <1>1, WrappedDistance
<1>5. CASE Released
  <2>1. mem[TailWord] = Wrap(p) /\ Wrap(p) # Unwritten
    BY <1>1, <1>5 DEF IInv, Shared, IndicesWritten
  <2>2. QED
    BY <1>1, <1>2, <1>3, <1>4, <2>1 DEF Window
<1>6. CASE ~Released
  <2>1. Published = 0 /\ got = <<>> /\ mem[TailWord] \in {Unwritten, 0}
    BY <1>6, NotReleased DEF IInv, Shared
  <2>2. p = 0 /\ g = 0
    BY <1>1, <2>1
  <2>3. Window(g, p) = <<>>
    BY <2>2 DEF Window
  <2>4. Distance(0, next) = 0
    BY <1>2, <1>4, <2>2, WrapZero
  <2>5. [i \in 1 .. Distance(0, next) |-> Payload(g + i - 1)] = <<>>
    BY <2>4
  <2>6. QED
    BY <1>1, <1>3, <2>1, <2>3, <2>5
<1>7. QED
  BY <1>5, <1>6

\* What the consumer does, and what the producer does short of a store reaching
\* memory, leaves the queue as it is.
LEMMA QueueKept ==
  ASSUME IInv, mem' = mem, got' = got,
         \/ pc'.consumer = pc.consumer /\ head' = head
         \/ pc.consumer = "free" /\ pc'.consumer # "free" /\ head' = Next1(head)
         \/ pc.consumer # "free" /\ pc'.consumer # "free" /\ head' = head
  PROVE  InFlight' = InFlight
<1>1. (IF pc'.consumer = "free" THEN Next1(head') ELSE head')
      = (IF pc.consumer = "free" THEN Next1(head) ELSE head)
  BY DEF Next1
<1>2. QED
  BY <1>1 DEF InFlight

LEMMA QuietSteps ==
  ASSUME IInv, Producer \/ ProducerTimesOut \/ ConsumerStart \/ ConsumerObserve \/ ConsumerFree
               \/ ConsumerEnd \/ ConsumerTimesOut \/ LoadEarly \/ UNCHANGED vars
  PROVE  UNCHANGED <<InFlight, got>>
<1>1. CASE Producer \/ ProducerTimesOut
  <2>1. mem' = mem /\ got' = got /\ head' = head /\ pc'.consumer = pc.consumer
    BY <1>1, GotoHart DEF Producer, ProducerTimesOut, ProducerInit, ProducerGo, ProducerFill,
       ProducerPublish, ProducerEnd, IInv, Domains
  <2>2. QED
    BY <2>1, QueueKept
<1>2. CASE ConsumerStart \/ ConsumerObserve \/ ConsumerEnd \/ ConsumerTimesOut
  <2>1. /\ mem' = mem /\ got' = got /\ head' = head
        /\ pc.consumer # "free" /\ pc'.consumer # "free"
    BY <1>2, GotoHart DEF ConsumerStart, ConsumerObserve, ConsumerEnd, ConsumerTimesOut, IInv, Domains
  <2>2. QED
    BY <2>1, QueueKept
<1>3. CASE ConsumerFree
  <2>1. /\ mem' = mem /\ got' = got /\ head' = Next1(head)
        /\ pc.consumer = "free" /\ pc'.consumer # "free"
    BY <1>3, GotoHart DEF ConsumerFree, IInv, Domains
  <2>2. QED
    BY <2>1, QueueKept
<1>4. CASE LoadEarly \/ UNCHANGED vars
  <2>1. mem' = mem /\ got' = got /\ head' = head /\ pc' = pc
    BY <1>4 DEF LoadEarly, vars
  <2>2. QED
    BY <2>1, QueueKept
<1>5. QED
  BY <1>1, <1>2, <1>3, <1>4

\* A store that reaches memory publishes one item at most.
LEMMA DrainPublishes ==
  ASSUME NEW h \in Harts, IInv, IInv', Drain(h)
  PROVE  got' = got /\ Published' \in {Published, Published + 1}
<1>1. got' = got /\ pc' = pc /\ sent' = sent /\ store[h] # <<>>
  BY DEF Drain
<1>2. PICK s \in Nat : s = sent
  BY CountsTyped DEF IInv
<1>3. CASE h = "consumer"
  <2>1. "producer" \in Harts \ {h} /\ DOMAIN store = Harts
    BY <1>3 DEF Harts, IInv, Domains
  <2>2. store'["producer"] = store["producer"]
    BY <2>1 DEF Drain
  <2>3. QED
    BY <1>1, <2>2 DEF Published
<1>4. CASE h = "producer"
  <2>1. Published' \in {s - 1, s}
    BY <1>1, <1>2 DEF Published
  <2>2. CASE pc.producer \in {"wait", "done"} /\ sent > 0
    <3>1. Published = s - 1
      BY <1>1, <1>2, <1>4, <2>2 DEF Published
    <3>2. QED
      BY <1>1, <1>2, <2>1, <3>1
  <2>3. CASE ~(pc.producer \in {"wait", "done"} /\ sent > 0)
    <3>1. Published = sent /\ Published' = sent
      BY <1>1, <2>3 DEF Published
    <3>2. QED
      BY <1>1, <3>1
  <2>4. QED
    BY <2>2, <2>3
<1>5. QED
  BY <1>3, <1>4 DEF Harts

LEMMA InitQueue ==
  ASSUME Init
  PROVE  Fifo!Init
<1>1. TailWord \in Words /\ got = <<>>
  BY WordsDiffer DEF Init
<1>2. mem[TailWord] = Unwritten
  BY <1>1 DEF Init
<1>3. QED
  BY <1>1, <1>2 DEF InFlight, Fifo!Init

\* What has been published and not read fits the ring.
InRing == Published <= N /\ Published - Len(got) <= Cap

LEMMA CountsInRing == IInv => InRing
<1> SUFFICES ASSUME IInv PROVE InRing
  OBVIOUS
<1>1. PICK g \in Nat, s \in Nat, f \in Nat, p \in Nat, cap \in Nat, n \in Nat, h \in Nat :
        /\ g = Len(got) /\ s = sent /\ f = Freed /\ p = Published /\ cap = Cap /\ n = N /\ h = Handled
        /\ f <= h /\ h <= g /\ p <= s /\ s <= f + cap /\ s <= n
  BY CountsTyped DEF IInv
<1>2. p <= n /\ p - g <= cap
  BY <1>1
<1>3. QED
  BY <1>1, <1>2 DEF InRing

LEMMA DrainQueue ==
  ASSUME NEW h \in Harts, IndicesWritten, IInv, IInv', QueueIsWindow', Drain(h)
  PROVE  Fifo!Put \/ UNCHANGED <<InFlight, got>>
<1>1. PICK g \in Nat, p \in Nat :
        /\ g = Len(got) /\ p = Published /\ g <= p /\ p - g <= Cap /\ p \in 0 .. N
  BY CountsTyped DEF IInv
<1>2. InFlight = Window(g, p)
  BY <1>1, InFlightCounts DEF QueueIsWindow
<1>3. got' = got /\ Published' \in {p, p + 1} /\ InFlight' = Window(Len(got)', Published')
  BY <1>1, DrainPublishes DEF QueueIsWindow
<1>4. Len(got)' = g
  BY <1>1, <1>3
<1>5. CASE Published' = p
  BY <1>2, <1>3, <1>4, <1>5
<1>6. CASE Published' = p + 1
  <2>1. InFlight' = Append(InFlight, Payload(p)) /\ Len(InFlight) = p - g
    <3>1. InFlight' = Window(g, p + 1)
      BY <1>3, <1>4, <1>6
    <3>2. Window(g, p + 1) = Append(Window(g, p), Payload(p)) /\ Len(Window(g, p)) = p - g
      BY <1>1, WindowSteps
    <3>3. QED
      BY <1>2, <3>1, <3>2
  <2>2. p + 1 <= N /\ (p + 1) - g <= Cap
    <3>1. IInv' => InRing'
      BY CountsInRing, PTL
    <3>2. QED
      BY <1>1, <1>4, <1>6, <3>1 DEF InRing
  <2>3. Len(got) + Len(InFlight) = p /\ p < N /\ Len(InFlight) < Cap
    BY <1>1, <2>1, <2>2, WidthTyped
  <2>4. QED
    BY <1>3, <2>1, <2>3 DEF Fifo!Put
<1>7. QED
  BY <1>3, <1>5, <1>6

LEMMA FetchQueue ==
  ASSUME IndicesWritten, IInv, IInv', QueueIsWindow', ConsumerFetch
  PROVE  Fifo!Take
<1>1. PICK g \in Nat, p \in Nat : g = Len(got) /\ p = Published /\ g < p
  BY Fetched, CountsTyped DEF IInv
<1>2. got' = Append(got, Payload(g)) /\ Len(got)' = g + 1
  BY <1>1, Fetched
<1>3. Published' = p /\ InFlight' = Window(Len(got)', Published')
  BY <1>1 DEF Published, ConsumerFetch, Goto, IInv, Domains, QueueIsWindow
<1>4. InFlight # <<>> /\ Head(InFlight) = Payload(g) /\ Tail(InFlight) = Window(g + 1, p)
  <2>1. InFlight = Window(g, p)
    BY <1>1, InFlightCounts DEF QueueIsWindow
  <2>2. g <= p
    BY <1>1
  <2>3. Window(g, p) # <<>> /\ Head(Window(g, p)) = Payload(g)
        /\ Tail(Window(g, p)) = Window(g + 1, p)
    BY <1>1, <2>2, WindowSteps
  <2>4. QED
    BY <2>1, <2>3
<1>5. QED
  BY <1>2, <1>3, <1>4 DEF Fifo!Take

LEMMA RelaunchQueue ==
  ASSUME FreshImage, IInv, Relaunch
  PROVE  Fifo!Restart
<1>1. Reloads /\ got' = <<>>
  BY SpscAssumption DEF Relaunch, FreshImage, IInv, Domains
<1>2. mem' = [w \in Words |-> Unwritten]
  BY <1>1 DEF Relaunch
<1>3. mem'[TailWord] = Unwritten
  BY <1>2, WordsDiffer
<1>4. InFlight' = <<>>
  BY <1>3 DEF InFlight
<1>5. QED
  BY <1>1, <1>4 DEF Fifo!Restart

LEMMA StepQueue ==
  ASSUME FreshImage, IndicesWritten, IInv, IInv', QueueIsWindow',
         [Next]_vars
  PROVE  [Fifo!Next]_(Fifo!vars)
<1>1. CASE \/ Producer \/ ProducerTimesOut \/ ConsumerStart \/ ConsumerObserve \/ ConsumerFree
           \/ ConsumerEnd \/ ConsumerTimesOut \/ LoadEarly \/ UNCHANGED vars
  BY <1>1, QuietSteps DEF Fifo!vars
<1>2. CASE ConsumerFetch
  BY <1>2, FetchQueue DEF Fifo!Next
<1>3. CASE \E h \in Harts : Drain(h)
  BY <1>3, DrainQueue DEF Fifo!Next, Fifo!vars
<1>4. CASE Relaunch
  BY <1>4, RelaunchQueue DEF Fifo!Next
<1>5. QED
  BY <1>1, <1>2, <1>3, <1>4 DEF Next, Consumer

\* Stores, fences and wrapping indices together make a bounded FIFO: an item is
\* put when the store of `tail` reaches memory, and taken when its slot is read.
THEOREM ImplementsFifoAlways ==
  ASSUME FreshImage, IndicesWritten
  PROVE  Spec => ImplementsFifo
<1>1. Init => Fifo!Init
  BY InitQueue
<1>2. IInv => QueueIsWindow
  BY InFlightCounts
<1>3. IInv /\ IInv' /\ QueueIsWindow' /\ [Next]_vars
        => [Fifo!Next]_(Fifo!vars)
  BY StepQueue
<1>4. Spec => []IInv
  BY Inductive
<1>5. QED
  BY <1>1, <1>2, <1>3, <1>4, PTL DEF Spec, ImplementsFifo, Fifo!Spec
=============================================================================
