-------------------------- MODULE CacheChannel_proof --------------------------
(***************************************************************************)
(* Proofs about CacheChannel, for every length of the messages and of a    *)
(* line, number of iterations and launches, and all pairs of levels.       *)
(*                                                                         *)
(* The copies of one line a Minion meets on its way to DDR are its path to *)
(* that line.  What the caches do is proved about paths first, without the *)
(* kernel; then the kernel is proved to put the right words on them.       *)
(***************************************************************************)
EXTENDS CacheChannel, TLAPS

Copies(D) == [data : D, dirty : BOOLEAN]
Modified(z) == z # None /\ z.dirty

\* A path holds copies of a line with data of D; DDR, its last level, always
\* has one.
IsPath(x, D) ==
  /\ x \in [0 .. 3 -> {None} \cup Copies(D)]
  /\ x[3] # None /\ ~Modified(x[3])
  /\ None \notin Copies(D)

\* What is read at the near end of a path.
IsTop(x, f) == f \in 0 .. 3 /\ x[f] # None /\ \A k \in 0 .. 3 : k < f => x[k] = None
Top(x) == x[CHOOSE f \in 0 .. 3 : IsTop(x, f)].data

\* No dirty copy lies before level n.
Quiet(x, n) == \A k \in 0 .. n - 1 : ~Modified(x[k])

\* All copies up to one that is dirty, or up to DDR, agree; the one is at level d
\* or further on.
SettledAt(x, e) ==
  /\ e \in 0 .. 3
  /\ e < 3 => x[e] # None /\ Modified(x[e])
  /\ \A k \in 0 .. 3 : k <= e /\ x[k] # None => x[k].data = Top(x)
Settled(x, d) == \E e \in d .. 3 : SettledAt(x, e)

\* Path y joins path x at level s.
Joined(x, y, s) == s \in {1, 2} /\ \A k \in 0 .. 3 : k >= s => y[k] = x[k]

\* The copies on path y before that level are what is read on path x.
Fresh(x, y, s) == \A k \in 0 .. s - 1 : y[k] # None => y[k].data = Top(x)

\* The path that joins y at level s, before that as it was in x.
Beside(x, y, s) == [k \in 0 .. 3 |-> IF k < s THEN x[k] ELSE y[k]]

\* A load leaves copies at the levels that it missed.
Loaded(x) == [k \in 0 .. 3 |->
                IF \A j \in 0 .. 3 : j <= k => x[j] = None THEN Line(Top(x), FALSE) ELSE x[k]]

\* The first dirty copy of a path before level d is written back to level d.
IsDirty(x, d, j) ==
  /\ j \in 0 .. 3 /\ j < d /\ x[j] # None /\ Modified(x[j])
  /\ \A k \in 0 .. 3 : k < j => ~Modified(x[k])
BackFrom(x, d, j, x2) ==
  /\ IsDirty(x, d, j)
  /\ x2 = [k \in 0 .. 3 |-> x2[k]]
  /\ \A k \in 0 .. 3 :
       /\ k < j \/ k > d => x2[k] = x[k]
       /\ j <= k /\ k <= d /\ ~(k = d /\ d < 3) => x2[k] = Line(x[j].data, FALSE)
       /\ k = d /\ d < 3 => x2[k] = Line(x[j].data, TRUE)
WrittenBack(x, d, x2) == (Quiet(x, d) /\ x2 = x) \/ \E j \in 0 .. 3 : BackFrom(x, d, j, x2)

\* The same, and all copies before level d are dropped.
Dropped(x, d, x2) ==
  \E y : /\ WrittenBack(x, d, y)
         /\ x2 = [k \in 0 .. 3 |-> IF k < d THEN None ELSE y[k]]

\* Level i of a path is replaced; a dirty copy goes one level on.
Replaced(x, i) ==
  [k \in 0 .. 3 |->
     IF k = i THEN None
     ELSE IF k = i + 1 /\ Modified(x[i])
          THEN (IF k < 3 THEN x[i] ELSE Line(x[i].data, FALSE))
     ELSE x[k]]

\* A line with data v is stored at the near end.
Stored(x, v) == [k \in 0 .. 3 |-> IF k = 0 THEN Line(v, TRUE) ELSE Loaded(x)[k]]

\* The host puts a line with data v in DDR.
Uploaded(x, v) == [k \in 0 .. 3 |-> IF k = 3 THEN Line(v, FALSE) ELSE x[k]]

\* What every step but a store of the line's owner keeps of a line: x is the path
\* of the owner, y that of its peer.
Carried(x, y, s, x2, y2) ==
  /\ Joined(x2, y2, s)
  /\ Quiet(y2, s)
  /\ Quiet(x, 3) /\ Quiet(y, 3) => Quiet(x2, 3) /\ Quiet(y2, 3) /\ x2[3] = x[3]
  /\ \A d \in 0 .. 3 : Settled(x, d) => Settled(x2, d) /\ Top(x2) = Top(x)
  /\ Settled(x, s) /\ Fresh(x, y, s) => Fresh(x2, y2, s)
-----------------------------------------------------------------------------
(***************************************************************************)
(* Paths.                                                                  *)
(***************************************************************************)
LEMMA CopyTyped ==
  ASSUME NEW D, NEW z \in {None} \cup Copies(D), z # None PROVE z.data \in D /\ z \in Copies(D)
BY DEF Copies

LEMMA TopIs ==
  ASSUME NEW D, NEW x, IsPath(x, D)
  PROVE  \E f \in 0 .. 3 : IsTop(x, f) /\ Top(x) = x[f].data /\ Top(x) \in D
<1>1. \E f \in 0 .. 3 : IsTop(x, f)
  <2>1. x[3] # None
    BY DEF IsPath
  <2>2. \/ x[0] # None
        \/ x[0] = None /\ x[1] # None
        \/ x[0] = None /\ x[1] = None /\ x[2] # None
        \/ x[0] = None /\ x[1] = None /\ x[2] = None
    OBVIOUS
  <2>3. IsTop(x, 0) \/ IsTop(x, 1) \/ IsTop(x, 2) \/ IsTop(x, 3)
    BY <2>1, <2>2 DEF IsTop
  <2>4. QED
    BY <2>3
<1> DEFINE f == CHOOSE f \in 0 .. 3 : IsTop(x, f)
<1>2. f \in 0 .. 3 /\ IsTop(x, f)
  BY <1>1
<1>3. Top(x) = x[f].data
  BY DEF Top
<1> HIDE DEF f
<1>4. x[f].data \in D
  BY <1>2, CopyTyped DEF IsPath, IsTop
<1>5. QED
  BY <1>2, <1>3, <1>4

\* Copies that agree up to one that is there are what is read.
LEMMA TopFrom ==
  ASSUME NEW D, NEW x, IsPath(x, D), NEW t, NEW e \in 0 .. 3, x[e] # None,
         \A k \in 0 .. 3 : k <= e /\ x[k] # None => x[k].data = t
  PROVE  Top(x) = t
<1>1. PICK f \in 0 .. 3 : IsTop(x, f) /\ Top(x) = x[f].data
  BY TopIs
<1>2. f <= e
  BY <1>1 DEF IsTop
<1>3. QED
  BY <1>1, <1>2 DEF IsTop

LEMMA SettledBy ==
  ASSUME NEW D, NEW x, IsPath(x, D), NEW t, NEW d \in 0 .. 3, NEW e \in 0 .. 3, d <= e,
         x[e] # None, e < 3 => Modified(x[e]),
         \A k \in 0 .. 3 : k <= e /\ x[k] # None => x[k].data = t
  PROVE  Settled(x, d) /\ Top(x) = t
<1>1. Top(x) = t
  BY TopFrom
<1>2. SettledAt(x, e)
  BY <1>1 DEF SettledAt
<1>3. QED
  BY <1>1, <1>2 DEF Settled

\* A path that is settled has a place up to which all copies agree.
LEMMA SettledEnd ==
  ASSUME NEW D, NEW x, IsPath(x, D), NEW d \in 0 .. 3, Settled(x, d)
  PROVE  \E e \in 0 .. 3 :
           /\ d <= e /\ x[e] # None /\ (e < 3 => Modified(x[e]))
           /\ \A k \in 0 .. 3 : k <= e /\ x[k] # None => x[k].data = Top(x)
<1>1. PICK e \in d .. 3 : SettledAt(x, e)
  BY DEF Settled
<1>2. e \in 0 .. 3 /\ d <= e
  BY <1>1
<1>3. x[e] # None
  BY <1>1, <1>2 DEF SettledAt, IsPath
<1>4. QED
  BY <1>1, <1>2, <1>3 DEF SettledAt

\* A line with data of D is a copy that is there.
LEMMA LineTyped ==
  ASSUME NEW D, NEW d \in D, None \notin Copies(D)
  PROVE  /\ Line(d, FALSE) \in Copies(D) /\ Line(d, FALSE) # None
         /\ Line(d, FALSE).data = d /\ ~Modified(Line(d, FALSE))
         /\ Line(d, TRUE) \in Copies(D) /\ Line(d, TRUE) # None
         /\ Line(d, TRUE).data = d /\ Modified(Line(d, TRUE))
<1>1. /\ Line(d, FALSE) \in Copies(D) /\ Line(d, TRUE) \in Copies(D)
      /\ Line(d, FALSE).data = d /\ Line(d, TRUE).data = d
  BY DEF Line, Copies
<1>2. /\ ~Modified(Line(d, FALSE))
      /\ Line(d, TRUE) # None => Modified(Line(d, TRUE))
  BY DEF Line, Modified
<1>3. QED
  BY <1>1, <1>2

\* A load of the peer.
LEMMA LoadCarries ==
  ASSUME NEW D, NEW x, NEW y, IsPath(x, D), IsPath(y, D), NEW s, Joined(x, y, s), Quiet(y, s),
         NEW x2, NEW y2, y2 = Loaded(y), x2 = Beside(x, y2, s)
  PROVE  IsPath(x2, D) /\ IsPath(y2, D) /\ Carried(x, y, s, x2, y2)
<1>1. PICK f \in 0 .. 3 : IsTop(y, f) /\ Top(y) = y[f].data /\ Top(y) \in D
  BY TopIs
<1> DEFINE new == Line(Top(y), FALSE)
<1>2. new \in Copies(D) /\ new # None /\ new.data = Top(y) /\ ~Modified(new)
  BY <1>1, LineTyped DEF IsPath
<1>3. \A k \in 0 .. 3 : y2[k] = IF k < f THEN new ELSE y[k]
  <2> SUFFICES ASSUME NEW k \in 0 .. 3 PROVE y2[k] = IF k < f THEN new ELSE y[k]
    OBVIOUS
  <2>1. (\A j \in 0 .. 3 : j <= k => y[j] = None) <=> k < f
    BY <1>1 DEF IsTop
  <2>2. QED
    BY <2>1 DEF Loaded
<1> HIDE DEF new
<1>4. s \in {1, 2} /\ \A k \in 0 .. 3 : k >= s => y[k] = x[k]
  BY DEF Joined
<1>5. \A k \in 0 .. 3 : x2[k] = IF k < s THEN x[k] ELSE y2[k]
  BY DEF Beside
<1>6. IsPath(y2, D)
  <2>1. y2 = [k \in 0 .. 3 |-> y2[k]]
    BY DEF Loaded
  <2>2. \A k \in 0 .. 3 : y2[k] \in {None} \cup Copies(D)
    BY <1>2, <1>3 DEF IsPath
  <2>3. 3 \in 0 .. 3 /\ ~(3 < f)
    BY <1>1
  <2>4. QED
    BY <1>3, <2>1, <2>2, <2>3 DEF IsPath
<1>7. IsPath(x2, D)
  <2>1. x2 = [k \in 0 .. 3 |-> x2[k]]
    BY DEF Beside
  <2>2. \A k \in 0 .. 3 : x2[k] \in {None} \cup Copies(D)
    BY <1>5, <1>6 DEF IsPath
  <2>3. 3 \in 0 .. 3 /\ ~(3 < s)
    BY <1>4
  <2>4. QED
    BY <1>5, <1>6, <2>1, <2>2, <2>3 DEF IsPath
<1>8. Joined(x2, y2, s) /\ Quiet(y2, s)
  <2>1. \A k \in 0 .. 3 : k >= s => x2[k] = y2[k]
    BY <1>4, <1>5
  <2>2. Quiet(y2, s)
    BY <1>2, <1>3, <1>4 DEF Quiet
  <2>3. QED
    BY <1>4, <2>1, <2>2 DEF Joined
<1>9. Quiet(x, 3) /\ Quiet(y, 3) => Quiet(x2, 3) /\ Quiet(y2, 3) /\ x2[3] = x[3]
  <2> SUFFICES ASSUME Quiet(x, 3), Quiet(y, 3)
               PROVE  Quiet(x2, 3) /\ Quiet(y2, 3) /\ x2[3] = x[3]
    OBVIOUS
  <2>1. Quiet(y2, 3)
    BY <1>2, <1>3 DEF Quiet
  <2>2. Quiet(x2, 3)
    BY <1>4, <1>5, <2>1 DEF Quiet
  <2>3. x2[3] = x[3]
    BY <1>1, <1>3, <1>4, <1>5
  <2>4. QED
    BY <2>1, <2>2, <2>3
<1>10. ASSUME NEW d \in 0 .. 3, Settled(x, d)
       PROVE  Settled(x2, d) /\ Top(x2) = Top(x)
  <2>1. PICK e \in 0 .. 3 :
           /\ d <= e /\ x[e] # None /\ (e < 3 => Modified(x[e]))
           /\ \A k \in 0 .. 3 : k <= e /\ x[k] # None => x[k].data = Top(x)
    BY <1>10, SettledEnd
  <2>2. x2[e] = x[e]
    BY <1>1, <1>3, <1>4, <1>5, <2>1 DEF IsTop
  <2>3. \A k \in 0 .. 3 : k <= e /\ x2[k] # None => x2[k].data = Top(x)
    <3> SUFFICES ASSUME NEW k \in 0 .. 3, k <= e, x2[k] # None, k >= s, k < f
                 PROVE  x2[k].data = Top(x)
      BY <1>3, <1>4, <1>5, <2>1
    <3>1. e >= s /\ y[e] = x[e]
      BY <1>4, <2>1
    <3>2. f <= e /\ f >= s
      BY <1>1, <1>4, <2>1, <3>1 DEF IsTop
    <3>3. y[f] = x[f] /\ y[f].data = Top(x)
      BY <1>1, <1>4, <2>1, <3>2 DEF IsTop
    <3>4. QED
      BY <1>1, <1>2, <1>3, <1>4, <1>5, <3>3
  <2>4. x2[e] # None /\ (e < 3 => Modified(x2[e])) /\ d <= e
    BY <2>1, <2>2
  <2>5. QED
    BY <1>7, <2>3, <2>4, SettledBy
<1>11. ASSUME Settled(x, s), Fresh(x, y, s) PROVE Fresh(x2, y2, s)
  <2>1. s \in 0 .. 3 /\ Top(x2) = Top(x)
    BY <1>4, <1>10, <1>11
  <2>2. Top(y) = Top(x)
    <3>1. PICK e \in 0 .. 3 :
             /\ s <= e /\ x[e] # None /\ (e < 3 => Modified(x[e]))
             /\ \A k \in 0 .. 3 : k <= e /\ x[k] # None => x[k].data = Top(x)
      BY <1>11, <2>1, SettledEnd
    <3>2. f <= e
      BY <1>1, <1>4, <3>1 DEF IsTop
    <3>3. QED
      BY <1>1, <1>4, <1>11, <3>1, <3>2 DEF Fresh, IsTop
  <2>3. QED
    BY <1>2, <1>3, <1>4, <1>11, <2>1, <2>2 DEF Fresh
<1>12. QED
  BY <1>6, <1>7, <1>8, <1>9, <1>10, <1>11 DEF Carried

\* What a write-back leaves at each level.
LEMMA BackLevels ==
  ASSUME NEW D, NEW x, IsPath(x, D), NEW d \in 1 .. 3, NEW j \in 0 .. 3, NEW x2,
         BackFrom(x, d, j, x2)
  PROVE  /\ j < d /\ x[j].data \in D
         /\ \A k \in 0 .. 3 :
              /\ k < j \/ k > d => x2[k] = x[k]
              /\ k >= j /\ k <= d =>
                   /\ x2[k] \in Copies(D)
                   /\ x2[k] # None /\ x2[k].data = x[j].data
                   /\ k < d \/ d = 3 => ~Modified(x2[k])
                   /\ k = d /\ d < 3 => Modified(x2[k])
<1>1. j < d /\ x[j].data \in D
  BY CopyTyped DEF BackFrom, IsDirty, IsPath
<1>2. PICK a : /\ a = Line(x[j].data, FALSE)
               /\ a \in Copies(D) /\ a # None /\ a.data = x[j].data /\ ~Modified(a)
  BY <1>1, LineTyped DEF IsPath
<1>3. PICK b : /\ b = Line(x[j].data, TRUE)
               /\ b \in Copies(D) /\ b # None /\ b.data = x[j].data /\ Modified(b)
  BY <1>1, LineTyped DEF IsPath
<1>4. \A k \in 0 .. 3 :
        /\ k < j \/ k > d => x2[k] = x[k]
        /\ j <= k /\ k <= d /\ ~(k = d /\ d < 3) => x2[k] = a
        /\ k = d /\ d < 3 => x2[k] = b
  BY <1>2, <1>3 DEF BackFrom
<1>5. ASSUME NEW k \in 0 .. 3, k >= j, k <= d
      PROVE  /\ x2[k] \in Copies(D)
             /\ x2[k] # None /\ x2[k].data = x[j].data
             /\ k < d \/ d = 3 => ~Modified(x2[k])
             /\ k = d /\ d < 3 => Modified(x2[k])
  <2>1. CASE ~(k = d /\ d < 3)
    <3>1. x2[k] = a
      BY <1>4, <1>5, <2>1
    <3>2. QED
      BY <1>2, <2>1, <3>1
  <2>2. CASE k = d /\ d < 3
    <3>1. x2[k] = b
      BY <1>4, <2>2
    <3>2. ~(k < d \/ d = 3)
      BY <2>2
    <3>3. QED
      BY <1>3, <3>1, <3>2
  <2>3. QED
    BY <2>1, <2>2
<1>6. QED
  BY <1>1, <1>4, <1>5

LEMMA BackTyped ==
  ASSUME NEW D, NEW x, IsPath(x, D), NEW d \in 1 .. 3, NEW x2, WrittenBack(x, d, x2)
  PROVE  IsPath(x2, D)
<1>1. CASE x2 = x
  BY <1>1
<1>2. ASSUME NEW j \in 0 .. 3, BackFrom(x, d, j, x2)
      PROVE  IsPath(x2, D)
  <2>1. /\ j < d
        /\ \A k \in 0 .. 3 :
             /\ k < j \/ k > d => x2[k] = x[k]
             /\ k >= j /\ k <= d => /\ x2[k] \in Copies(D)
                                    /\ x2[k] # None
                                    /\ k < d \/ d = 3 => ~Modified(x2[k])
    BY <1>2, BackLevels
  <2>2. x2 = [k \in 0 .. 3 |-> x2[k]]
    BY <1>2 DEF BackFrom
  <2>3. ASSUME NEW k \in 0 .. 3 PROVE x2[k] \in {None} \cup Copies(D)
    <3>1. CASE k < j \/ k > d
      BY <2>1, <3>1 DEF IsPath
    <3>2. CASE k >= j /\ k <= d
      BY <2>1, <3>2
    <3>3. QED
      BY <3>1, <3>2
  <2>4. x2[3] # None /\ ~Modified(x2[3])
    <3>1. 3 \in 0 .. 3 /\ (d = 3 \/ d < 3) /\ j <= 3
      OBVIOUS
    <3>2. CASE d = 3
      BY <2>1, <3>1, <3>2
    <3>3. CASE d < 3
      BY <2>1, <3>1, <3>3 DEF IsPath
    <3>4. QED
      BY <3>1, <3>2, <3>3
  <2>5. QED
    BY <2>2, <2>3, <2>4 DEF IsPath
<1>3. QED
  BY <1>1, <1>2 DEF WrittenBack

\* A path of the same copies from level s on, and of typed ones before.
LEMMA BesideTyped ==
  ASSUME NEW D, NEW x, NEW y, IsPath(x, D), IsPath(y, D), NEW s \in {1, 2},
         NEW x2, x2 = Beside(x, y, s)
  PROVE  /\ IsPath(x2, D) /\ Joined(x2, y, s) /\ Joined(y, x2, s)
         /\ \A k \in 0 .. 3 : x2[k] = IF k < s THEN x[k] ELSE y[k]
<1>1. \A k \in 0 .. 3 : x2[k] = IF k < s THEN x[k] ELSE y[k]
  BY DEF Beside
<1>2. x2 \in [0 .. 3 -> {None} \cup Copies(D)]
  BY DEF Beside, IsPath
<1>3. 3 \in 0 .. 3 /\ ~(3 < s)
  OBVIOUS
<1>4. IsPath(x2, D)
  BY <1>1, <1>2, <1>3 DEF IsPath
<1>5. \A k \in 0 .. 3 : k >= s => ~(k < s)
  OBVIOUS
<1>6. QED
  BY <1>1, <1>4, <1>5 DEF Joined

\* The owner writes a line back.
LEMMA BackCarries ==
  ASSUME NEW D, NEW x, NEW y, IsPath(x, D), IsPath(y, D), NEW s, Joined(x, y, s), Quiet(y, s),
         NEW d \in 1 .. 3, NEW x2, WrittenBack(x, d, x2), NEW y2, y2 = Beside(y, x2, s)
  PROVE  /\ IsPath(x2, D) /\ IsPath(y2, D) /\ Carried(x, y, s, x2, y2)
         /\ Settled(x, 0) => Settled(x2, d)
         /\ d = 3 => Quiet(x2, 3) /\ Quiet(y2, 3)
<1>0. s \in {1, 2}
  BY DEF Joined
<1>1. s \in {1, 2} /\ \A k \in 0 .. 3 : k >= s => y[k] = x[k]
  BY DEF Joined
<1>2. IsPath(x2, D)
  BY BackTyped
<1>3. /\ IsPath(y2, D) /\ Joined(x2, y2, s)
      /\ \A k \in 0 .. 3 : y2[k] = IF k < s THEN y[k] ELSE x2[k]
  BY <1>0, <1>2, BesideTyped
<1>4. Quiet(y2, s)
  <2>1. \A k \in 0 .. s - 1 : k \in 0 .. 3 /\ k < s
    BY <1>1
  <2>2. \A k \in 0 .. s - 1 : y2[k] = y[k]
    BY <1>3, <2>1
  <2>3. QED
    BY <2>2 DEF Quiet
<1>6. Quiet(x, 3) /\ Quiet(y, 3) => Quiet(x2, 3) /\ Quiet(y2, 3) /\ x2[3] = x[3]
  <2> SUFFICES ASSUME Quiet(x, 3), Quiet(y, 3)
               PROVE  Quiet(x2, 3) /\ Quiet(y2, 3) /\ x2[3] = x[3]
    OBVIOUS
  <2>1. \A j \in 0 .. 3 : ~BackFrom(x, d, j, x2)
    <3> SUFFICES ASSUME NEW j \in 0 .. 3, IsDirty(x, d, j) PROVE FALSE
      BY DEF BackFrom
    <3>1. j \in 0 .. 3 - 1 /\ Modified(x[j])
      BY DEF IsDirty
    <3>2. QED
      BY <3>1 DEF Quiet
  <2>0. x2 = x
    BY <2>1 DEF WrittenBack
  <2>2. QED
    BY <1>1, <1>3, <2>0 DEF Quiet
<1>7. ASSUME NEW n \in 0 .. 3, Settled(x, n)
      PROVE  Settled(x2, n) /\ Settled(x2, d) /\ Top(x2) = Top(x)
  <2>1. PICK e \in 0 .. 3 :
           /\ n <= e /\ x[e] # None /\ (e < 3 => Modified(x[e]))
           /\ \A k \in 0 .. 3 : k <= e /\ x[k] # None => x[k].data = Top(x)
    BY <1>7, SettledEnd
  <2>2. CASE Quiet(x, d) /\ x2 = x
    <3>1. d <= e
      BY <2>1, <2>2 DEF Quiet
    <3>2. d \in 0 .. 3
      OBVIOUS
    <3>3. Settled(x, d)
      BY <2>1, <3>1, <3>2, SettledBy
    <3>4. QED
      BY <1>7, <2>2, <3>3
  <2>3. ASSUME NEW j \in 0 .. 3, BackFrom(x, d, j, x2)
        PROVE  Settled(x2, n) /\ Settled(x2, d) /\ Top(x2) = Top(x)
    <3>1. /\ j < d
          /\ \A k \in 0 .. 3 :
               /\ k < j \/ k > d => x2[k] = x[k]
               /\ k >= j /\ k <= d => /\ x2[k] # None /\ x2[k].data = x[j].data
                                      /\ k = d /\ d < 3 => Modified(x2[k])
      BY <2>3, BackLevels
    <3>2. j <= e
      <4>1. x[j] # None /\ Modified(x[j]) /\ \A k \in 0 .. 3 : k < j => ~Modified(x[k])
        BY <2>3 DEF BackFrom, IsDirty
      <4>2. j < 3
        BY <2>3 DEF BackFrom, IsDirty
      <4>3. QED
        BY <2>1, <4>1, <4>2
    <3>3. x[j].data = Top(x)
      BY <2>1, <2>3, <3>2 DEF BackFrom, IsDirty
    <3>4. d \in 0 .. 3 /\ x2[d] # None /\ (d < 3 => Modified(x2[d]))
      BY <3>1
    <3>5. \A k \in 0 .. 3 : k <= d /\ x2[k] # None => x2[k].data = Top(x)
      BY <2>1, <3>1, <3>2, <3>3
    <3>6. d <= d
      OBVIOUS
    <3>7. Settled(x2, d) /\ Top(x2) = Top(x)
      BY <1>2, <3>4, <3>5, <3>6, SettledBy
    <3>8. CASE n <= d
      BY <1>2, <3>4, <3>5, <3>7, <3>8, SettledBy
    <3>9. CASE n > d
      <4>1. e > d /\ x2[e] = x[e]
        BY <2>1, <3>1, <3>9
      <4>2. \A k \in 0 .. 3 : k <= e /\ x2[k] # None => x2[k].data = Top(x)
        BY <2>1, <3>1, <3>5
      <4>3. x2[e] # None /\ (e < 3 => Modified(x2[e])) /\ n <= e
        BY <2>1, <4>1
      <4>4. Settled(x2, n)
        BY <1>2, <4>2, <4>3, SettledBy
      <4>5. QED
        BY <3>7, <4>4
    <3>10. QED
      BY <3>7, <3>8, <3>9
  <2>4. QED
    BY <2>2, <2>3 DEF WrittenBack
<1>8. ASSUME Settled(x, s), Fresh(x, y, s) PROVE Fresh(x2, y2, s)
  <2>1. Top(x2) = Top(x)
    BY <1>1, <1>7, <1>8
  <2>2. QED
    BY <1>1, <1>3, <1>8, <2>1 DEF Fresh
<1>9. Carried(x, y, s, x2, y2)
  BY <1>3, <1>4, <1>6, <1>7, <1>8 DEF Carried
<1>10. Settled(x, 0) => Settled(x2, d)
  BY <1>7
<1>11. ASSUME d = 3 PROVE Quiet(x2, 3) /\ Quiet(y2, 3)
  <2>1. CASE Quiet(x, d) /\ x2 = x
    BY <1>1, <1>3, <1>4, <1>11, <2>1 DEF Quiet
  <2>2. ASSUME NEW j \in 0 .. 3, BackFrom(x, d, j, x2)
        PROVE  Quiet(x2, 3) /\ Quiet(y2, 3)
    <3>1. \A k \in 0 .. 3 : /\ k < j => x2[k] = x[k]
                            /\ k >= j /\ k <= d => ~Modified(x2[k])
      BY <1>11, <2>2, BackLevels
    <3>0. \A k \in 0 .. 3 : k < j => ~Modified(x[k])
      BY <2>2 DEF BackFrom, IsDirty
    <3>2. Quiet(x2, 3)
      <4> SUFFICES ASSUME NEW k \in 0 .. 3 PROVE ~Modified(x2[k]) \/ k = 3
        BY DEF Quiet
      <4>1. k < j \/ k >= j
        OBVIOUS
      <4>2. QED
        BY <1>11, <3>0, <3>1, <4>1, d \in 1 .. 3
    <3>3. QED
      BY <1>1, <1>3, <1>4, <3>2 DEF Quiet
  <2>3. QED
    BY <2>1, <2>2 DEF WrittenBack
<1>12. QED
  BY <1>2, <1>3, <1>9, <1>10, <1>11

\* The peer invalidates a line.
LEMMA DropCarries ==
  ASSUME NEW D, NEW x, NEW y, IsPath(x, D), IsPath(y, D), NEW s, Joined(x, y, s), Quiet(y, s),
         NEW d \in 1 .. 3, s <= d, NEW y2, Dropped(y, d, y2), NEW x2, x2 = Beside(x, y2, s)
  PROVE  IsPath(x2, D) /\ IsPath(y2, D) /\ Carried(x, y, s, x2, y2) /\ Fresh(x2, y2, s)
<1>0. s \in {1, 2}
  BY DEF Joined
<1>1. \A k \in 0 .. 3 : k >= s => y[k] = x[k]
  BY DEF Joined
<1>2. PICK z : WrittenBack(y, d, z) /\ y2 = [k \in 0 .. 3 |-> IF k < d THEN None ELSE z[k]]
  BY DEF Dropped
<1>3. IsPath(z, D)
  BY <1>2, BackTyped
<1>4. \A k \in 0 .. 3 : y2[k] = IF k < d THEN None ELSE z[k]
  BY <1>2
<1>5. IsPath(y2, D)
  <2>1. y2 = [k \in 0 .. 3 |-> y2[k]]
    BY <1>2
  <2>2. \A k \in 0 .. 3 : y2[k] \in {None} \cup Copies(D)
    BY <1>3, <1>4 DEF IsPath
  <2>3. y2[3] = z[3]
    BY <1>4
  <2>4. QED
    BY <1>3, <2>1, <2>2, <2>3 DEF IsPath
<1>6. /\ IsPath(x2, D) /\ Joined(x2, y2, s)
      /\ \A k \in 0 .. 3 : x2[k] = IF k < s THEN x[k] ELSE y2[k]
  BY <1>0, <1>5, BesideTyped
<1>7. \A k \in 0 .. 3 : k < s => y2[k] = None
  BY <1>0, <1>4
<1>8. Quiet(y2, s)
  BY <1>0, <1>7 DEF Quiet, Modified
<1>9. Fresh(x2, y2, s)
  BY <1>0, <1>7 DEF Fresh
<1>10. ASSUME Quiet(x, 3), Quiet(y, 3)
       PROVE  Quiet(x2, 3) /\ Quiet(y2, 3) /\ x2[3] = x[3]
  <2>1. \A j \in 0 .. 3 : ~BackFrom(y, d, j, z)
    <3> SUFFICES ASSUME NEW j \in 0 .. 3, IsDirty(y, d, j) PROVE FALSE
      BY DEF BackFrom
    <3>1. j \in 0 .. 3 - 1 /\ Modified(y[j])
      BY DEF IsDirty
    <3>2. QED
      BY <1>10, <3>1 DEF Quiet
  <2>2. z = y
    BY <1>2, <2>1 DEF WrittenBack
  <2>3. \A k \in 0 .. 3 - 1 : ~Modified(x[k]) /\ ~Modified(y[k])
    BY <1>10 DEF Quiet
  <2>4. ~Modified(None)
    BY DEF Modified
  <2>5. \A k \in 0 .. 3 - 1 : ~Modified(y2[k])
    BY <1>4, <2>2, <2>3, <2>4
  <2>6. \A k \in 0 .. 3 - 1 : ~Modified(x2[k])
    BY <1>6, <2>3, <2>5
  <2>7. x2[3] = x[3]
    BY <1>0, <1>1, <1>4, <1>6, <2>2
  <2>8. QED
    BY <2>5, <2>6, <2>7 DEF Quiet
<1>11. ASSUME NEW n \in 0 .. 3, Settled(x, n)
       PROVE  Settled(x2, n) /\ Top(x2) = Top(x)
  <2>1. PICK e \in 0 .. 3 :
           /\ n <= e /\ x[e] # None /\ (e < 3 => Modified(x[e]))
           /\ \A k \in 0 .. 3 : k <= e /\ x[k] # None => x[k].data = Top(x)
    BY <1>11, SettledEnd
  <2>2. CASE e < s
    <3>1. \A k \in 0 .. 3 : k <= e => x2[k] = x[k]
      BY <1>0, <1>6, <2>2
    <3>2. /\ x2[e] # None /\ (e < 3 => Modified(x2[e]))
          /\ \A k \in 0 .. 3 : k <= e /\ x2[k] # None => x2[k].data = Top(x)
      BY <2>1, <3>1
    <3>3. QED
      BY <1>6, <2>1, <3>2, SettledBy
  <2>3. CASE e >= s /\ z = y
    <3>1. CASE e >= d
      <4>1. x2[e] = x[e]
        BY <1>0, <1>1, <1>4, <1>6, <2>3, <3>1
      <4>2. \A k \in 0 .. 3 : x2[k] = x[k] \/ x2[k] = None
        BY <1>0, <1>1, <1>4, <1>6, <2>3
      <4>3. /\ x2[e] # None /\ (e < 3 => Modified(x2[e]))
            /\ \A k \in 0 .. 3 : k <= e /\ x2[k] # None => x2[k].data = Top(x)
        BY <2>1, <4>1, <4>2
      <4>4. QED
        BY <1>6, <2>1, <4>3, SettledBy
    <3>2. CASE Quiet(y, d)
      <4>1. e >= d
        <5> SUFFICES ASSUME e < d PROVE FALSE
          OBVIOUS
        <5>1. e \in 0 .. d - 1 /\ e < 3 /\ y[e] = x[e]
          BY <1>1, <2>3
        <5>2. QED
          BY <2>1, <3>2, <5>1 DEF Quiet
      <4>2. QED
        BY <3>1, <4>1
    <3>3. ASSUME NEW j \in 0 .. 3, BackFrom(y, d, j, z) PROVE FALSE
      <4>1. j < d /\ Modified(y[j]) /\ (j <= j /\ j <= d)
        BY <3>3 DEF BackFrom, IsDirty
      <4>2. ~Modified(z[j])
        BY <3>3, <4>1, BackLevels
      <4>3. QED
        BY <2>3, <4>1, <4>2
    <3>4. QED
      BY <1>2, <3>2, <3>3 DEF WrittenBack
  <2>4. ASSUME e >= s, NEW j \in 0 .. 3, BackFrom(y, d, j, z)
        PROVE  Settled(x2, n) /\ Top(x2) = Top(x)
    <3>1. /\ j < d
          /\ \A k \in 0 .. 3 :
               /\ k < j \/ k > d => z[k] = y[k]
               /\ k >= j /\ k <= d => /\ z[k] # None /\ z[k].data = y[j].data
                                      /\ k = d /\ d < 3 => Modified(z[k])
      BY <2>4, BackLevels
    <3>2. Modified(y[j]) /\ y[j] # None /\ \A k \in 0 .. 3 : k < j => ~Modified(y[k])
      BY <2>4 DEF BackFrom, IsDirty
    <3>3. j >= s
      <4> SUFFICES ASSUME j < s PROVE FALSE
        BY <1>0
      <4>1. j \in 0 .. s - 1
        BY <1>0
      <4>2. QED
        BY <3>2, <4>1 DEF Quiet
    <3>4. j <= e
      <4> SUFFICES ASSUME e < j PROVE FALSE
        OBVIOUS
      <4>1. y[e] = x[e] /\ e < 3
        BY <1>1, <2>4, <3>1
      <4>2. QED
        BY <2>1, <3>2, <4>1
    <3>5. y[j].data = Top(x)
      BY <1>1, <2>1, <3>2, <3>3, <3>4
    <3>6. d \in 0 .. 3 /\ x2[d] = z[d]
      BY <1>0, <1>4, <1>6
    <3>7. x2[d] # None /\ x2[d].data = Top(x) /\ (d < 3 => Modified(x2[d]))
      BY <3>1, <3>5, <3>6
    <3>8. \A k \in 0 .. 3 : k < d => x2[k] = None \/ (k < s /\ x2[k] = x[k])
      BY <1>0, <1>4, <1>6
    <3>9. \A k \in 0 .. 3 : k < d /\ x2[k] # None => x2[k].data = Top(x)
      BY <1>0, <2>1, <2>4, <3>8
    <3>10. \A k \in 0 .. 3 : k <= d /\ x2[k] # None => x2[k].data = Top(x)
      BY <3>7, <3>9
    <3>11. CASE n <= d
      BY <1>6, <3>6, <3>7, <3>10, <3>11, SettledBy
    <3>12. CASE n > d
      <4>1. \A k \in 0 .. 3 : k > d => x2[k] = x[k]
        BY <1>0, <1>1, <1>4, <1>6, <3>1
      <4>2. /\ x2[e] # None /\ (e < 3 => Modified(x2[e]))
            /\ \A k \in 0 .. 3 : k <= e /\ x2[k] # None => x2[k].data = Top(x)
        BY <2>1, <3>10, <3>12, <4>1
      <4>3. QED
        BY <1>6, <2>1, <4>2, SettledBy
    <3>13. QED
      BY <3>11, <3>12
  <2>5. QED
    BY <1>0, <1>2, <2>2, <2>3, <2>4 DEF WrittenBack
<1>12. QED
  BY <1>5, <1>6, <1>8, <1>9, <1>10, <1>11 DEF Carried

\* Level i of the owner's path is replaced.
LEMMA ReplaceCarries ==
  ASSUME NEW D, NEW x, NEW y, IsPath(x, D), IsPath(y, D), NEW s, Joined(x, y, s), Quiet(y, s),
         NEW i \in 0 .. 2, x[i] # None, NEW x2, x2 = Replaced(x, i), NEW y2, y2 = Beside(y, x2, s)
  PROVE  IsPath(x2, D) /\ IsPath(y2, D) /\ Carried(x, y, s, x2, y2)
<1>0. s \in {1, 2}
  BY DEF Joined
<1>1. \A k \in 0 .. 3 : k >= s => y[k] = x[k]
  BY DEF Joined
<1>2. i \in 0 .. 3 /\ x[i].data \in D /\ x[i] \in Copies(D)
  BY CopyTyped DEF IsPath
<1>3. PICK c : c = Line(x[i].data, FALSE) /\ c \in Copies(D) /\ c # None /\ c.data = x[i].data
               /\ ~Modified(c)
  BY <1>2, LineTyped DEF IsPath
<1>4. \A k \in 0 .. 3 :
        x2[k] = IF k = i THEN None
                ELSE IF k = i + 1 /\ Modified(x[i]) THEN (IF k < 3 THEN x[i] ELSE c)
                ELSE x[k]
  BY <1>3 DEF Replaced
<1>5. IsPath(x2, D)
  <2>1. x2 = [k \in 0 .. 3 |-> x2[k]]
    BY DEF Replaced
  <2>2. \A k \in 0 .. 3 : x2[k] \in {None} \cup Copies(D)
    BY <1>2, <1>3, <1>4 DEF IsPath
  <2>3. x2[3] = x[3] \/ x2[3] = c
    BY <1>4
  <2>4. x2[3] # None /\ ~Modified(x2[3])
    BY <1>3, <2>3 DEF IsPath
  <2>5. QED
    BY <2>1, <2>2, <2>4 DEF IsPath
<1>6. /\ IsPath(y2, D) /\ Joined(x2, y2, s)
      /\ \A k \in 0 .. 3 : y2[k] = IF k < s THEN y[k] ELSE x2[k]
  BY <1>0, <1>5, BesideTyped
<1>7. \A k \in 0 .. 3 : k < s => y2[k] = y[k]
  BY <1>6
<1>8. Quiet(y2, s)
  <2>1. \A k \in 0 .. s - 1 : k \in 0 .. 3 /\ k < s
    BY <1>0
  <2>2. QED
    BY <1>7, <2>1 DEF Quiet
<1>9. ASSUME Quiet(x, 3), Quiet(y, 3)
      PROVE  Quiet(x2, 3) /\ Quiet(y2, 3) /\ x2[3] = x[3]
  <2>1. \A k \in 0 .. 3 - 1 : ~Modified(x[k]) /\ ~Modified(y[k])
    BY <1>9 DEF Quiet
  <2>2. ~Modified(None)
    BY DEF Modified
  <2>3. \A k \in 0 .. 3 : x2[k] = IF k = i THEN None ELSE x[k]
    BY <1>4, <2>1
  <2>4. \A k \in 0 .. 3 - 1 : ~Modified(x2[k])
    BY <2>1, <2>2, <2>3
  <2>5. \A k \in 0 .. 3 - 1 : ~Modified(y2[k])
    BY <1>6, <2>1, <2>4
  <2>6. x2[3] = x[3]
    BY <2>3
  <2>7. QED
    BY <2>4, <2>5, <2>6 DEF Quiet
<1>10. ASSUME NEW n \in 0 .. 3, Settled(x, n)
       PROVE  Settled(x2, n) /\ Top(x2) = Top(x)
  <2>1. PICK e \in 0 .. 3 :
           /\ n <= e /\ x[e] # None /\ (e < 3 => Modified(x[e]))
           /\ \A k \in 0 .. 3 : k <= e /\ x[k] # None => x[k].data = Top(x)
    BY <1>10, SettledEnd
  <2>2. CASE e < i \/ (i < e /\ ~Modified(x[i]))
    <3>1. x2[e] = x[e] /\ \A k \in 0 .. 3 : k <= e => x2[k] = x[k] \/ x2[k] = None
      BY <1>4, <2>2
    <3>2. /\ x2[e] # None /\ (e < 3 => Modified(x2[e]))
          /\ \A k \in 0 .. 3 : k <= e /\ x2[k] # None => x2[k].data = Top(x)
      BY <2>1, <3>1
    <3>3. QED
      BY <1>5, <2>1, <3>2, SettledBy
  <2>3. CASE i <= e /\ Modified(x[i])
    <3>1. PICK g \in 0 .. 3 : g = IF i = e THEN i + 1 ELSE e
      BY <1>2
    <3>2. x[i].data = Top(x) /\ n <= g
      BY <1>2, <2>1, <2>3, <3>1
    <3>3. CASE g = i + 1
      <4>1. x2[g] = IF g < 3 THEN x[i] ELSE c
        BY <1>4, <2>3, <3>3
      <4>2. x2[g] # None /\ x2[g].data = Top(x) /\ (g < 3 => Modified(x2[g]))
        BY <1>3, <2>3, <3>2, <4>1
      <4>3. \A k \in 0 .. 3 : k < g => x2[k] = None \/ (x2[k] = x[k] /\ k <= e)
        BY <1>4, <2>3, <3>1, <3>3
      <4>4. \A k \in 0 .. 3 : k <= g /\ x2[k] # None => x2[k].data = Top(x)
        BY <2>1, <4>2, <4>3
      <4>5. QED
        BY <1>5, <3>2, <4>2, <4>4, SettledBy
    <3>4. CASE g # i + 1
      <4>1. g = e /\ x2[e] = x[e]
        BY <1>4, <2>3, <3>1, <3>4
      <4>2. \A k \in 0 .. 3 : k <= e => x2[k] = None \/ x2[k] = x[k] \/ x2[k] = x[i]
        BY <1>4, <2>3, <3>1, <3>4
      <4>3. \A k \in 0 .. 3 : k <= e /\ x2[k] # None => x2[k].data = Top(x)
        BY <2>1, <3>2, <4>2
      <4>4. x2[e] # None /\ (e < 3 => Modified(x2[e]))
        BY <2>1, <4>1
      <4>5. QED
        BY <1>5, <2>1, <4>3, <4>4, SettledBy
    <3>5. QED
      BY <3>3, <3>4
  <2>4. QED
    BY <1>2, <2>1, <2>2, <2>3
<1>11. ASSUME Settled(x, s), Fresh(x, y, s) PROVE Fresh(x2, y2, s)
  <2>1. Top(x2) = Top(x)
    BY <1>0, <1>10, <1>11
  <2>2. \A k \in 0 .. s - 1 : k \in 0 .. 3 /\ k < s
    BY <1>0
  <2>3. QED
    BY <1>7, <1>11, <2>1, <2>2 DEF Fresh
<1>12. QED
  BY <1>5, <1>6, <1>8, <1>9, <1>10, <1>11 DEF Carried

\* A cache of the peer's own drops its copy, which is clean.
LEMMA PeerDropCarries ==
  ASSUME NEW D, NEW x, NEW y, IsPath(x, D), IsPath(y, D), NEW s, Joined(x, y, s), Quiet(y, s),
         NEW i \in 0 .. 2, i < s, NEW y2, y2 = Replaced(y, i)
  PROVE  IsPath(y2, D) /\ Carried(x, y, s, x, y2)
<1>0. s \in {1, 2} /\ i \in 0 .. s - 1
  BY DEF Joined
<1>1. ~Modified(y[i]) /\ ~Modified(None)
  BY <1>0 DEF Quiet, Modified
<1>2. \A k \in 0 .. 3 : y2[k] = IF k = i THEN None ELSE y[k]
  BY <1>1 DEF Replaced
<1>3. IsPath(y2, D)
  <2>1. y2 = [k \in 0 .. 3 |-> y2[k]]
    BY DEF Replaced
  <2>2. \A k \in 0 .. 3 : y2[k] \in {None} \cup Copies(D)
    BY <1>2 DEF IsPath
  <2>3. y2[3] = y[3]
    BY <1>2
  <2>4. QED
    BY <2>1, <2>2, <2>3 DEF IsPath
<1>4. Joined(x, y2, s)
  BY <1>0, <1>2 DEF Joined
<1>5. \A k \in 0 .. s - 1 : k \in 0 .. 3
  BY <1>0
<1>6. Quiet(y2, s)
  BY <1>1, <1>2, <1>5 DEF Quiet
<1>7. Quiet(y, 3) => Quiet(y2, 3)
  <2>1. \A k \in 0 .. 3 - 1 : k \in 0 .. 3
    OBVIOUS
  <2>2. QED
    BY <1>1, <1>2, <2>1 DEF Quiet
<1>8. Fresh(x, y, s) => Fresh(x, y2, s)
  BY <1>2, <1>5 DEF Fresh
<1>9. QED
  BY <1>3, <1>4, <1>6, <1>7, <1>8 DEF Carried

\* The owner stores.
LEMMA StoreSettles ==
  ASSUME NEW D, NEW x, NEW y, IsPath(x, D), IsPath(y, D), NEW s, Joined(x, y, s), Quiet(y, s),
         NEW v \in D, NEW x2, x2 = Stored(x, v), NEW y2, y2 = Beside(y, x2, s)
  PROVE  /\ IsPath(x2, D) /\ IsPath(y2, D) /\ Joined(x2, y2, s) /\ Quiet(y2, s)
         /\ Settled(x2, 0) /\ Top(x2) = v
<1>0. s \in {1, 2}
  BY DEF Joined
<1>1. PICK f \in 0 .. 3 : IsTop(x, f) /\ Top(x) = x[f].data /\ Top(x) \in D
  BY TopIs
<1>2. PICK new : new = Line(Top(x), FALSE) /\ new \in Copies(D) /\ new # None /\ ~Modified(new)
  BY <1>1, LineTyped DEF IsPath
<1>3. PICK c : c = Line(v, TRUE) /\ c \in Copies(D) /\ c # None /\ c.data = v /\ Modified(c)
  BY LineTyped DEF IsPath
<1>4. \A k \in 0 .. 3 : k # 0 => x2[k] = new \/ x2[k] = x[k]
  BY <1>2 DEF Stored, Loaded
<1>5. x2[0] = c
  BY <1>3 DEF Stored
<1>6. x2[3] = x[3]
  <2>1. x[3] # None
    BY DEF IsPath
  <2>2. QED
    BY <2>1 DEF Stored, Loaded
<1>7. IsPath(x2, D)
  <2>1. x2 = [k \in 0 .. 3 |-> x2[k]]
    BY DEF Stored
  <2>2. \A k \in 0 .. 3 : x2[k] \in {None} \cup Copies(D)
    BY <1>2, <1>3, <1>4, <1>5 DEF IsPath
  <2>3. QED
    BY <1>6, <2>1, <2>2 DEF IsPath
<1>8. /\ IsPath(y2, D) /\ Joined(x2, y2, s)
      /\ \A k \in 0 .. 3 : y2[k] = IF k < s THEN y[k] ELSE x2[k]
  BY <1>0, <1>7, BesideTyped
<1>9. Quiet(y2, s)
  <2>1. \A k \in 0 .. s - 1 : k \in 0 .. 3 /\ k < s
    BY <1>0
  <2>2. \A k \in 0 .. s - 1 : y2[k] = y[k]
    BY <1>8, <2>1
  <2>3. QED
    BY <2>2 DEF Quiet
<1>10. Settled(x2, 0) /\ Top(x2) = v
  <2>1. \A k \in 0 .. 3 : k <= 0 /\ x2[k] # None => x2[k].data = v
    <3>1. \A k \in 0 .. 3 : k <= 0 => k = 0
      OBVIOUS
    <3>2. x2[0].data = v
      BY <1>3, <1>5
    <3>3. QED
      BY <3>1, <3>2
  <2>2. x2[0] # None /\ Modified(x2[0])
    BY <1>3, <1>5
  <2>3. QED
    BY <1>7, <2>1, <2>2, SettledBy
<1>11. QED
  BY <1>7, <1>8, <1>9, <1>10

\* The host writes DDR while no cache has anything to write back.
LEMMA UploadQuiet ==
  ASSUME NEW D, NEW x, IsPath(x, D), NEW v \in D,
         NEW x2, x2 = Uploaded(x, v)
  PROVE  IsPath(x2, D) /\ \A n \in {1, 2, 3} : Quiet(x, n) => Quiet(x2, n)
<1>1. PICK c : c = Line(v, FALSE) /\ c \in Copies(D) /\ c # None /\ ~Modified(c)
  BY LineTyped DEF IsPath
<1>2. \A k \in 0 .. 3 : x2[k] = IF k = 3 THEN c ELSE x[k]
  BY <1>1 DEF Uploaded
<1>3. IsPath(x2, D)
  <2>1. x2 = [k \in 0 .. 3 |-> x2[k]]
    BY DEF Uploaded
  <2>2. \A k \in 0 .. 3 : x2[k] \in {None} \cup Copies(D)
    BY <1>1, <1>2 DEF IsPath
  <2>3. QED
    BY <1>1, <1>2, <2>1, <2>2 DEF IsPath
<1>4. ASSUME NEW n \in {1, 2, 3} PROVE Quiet(x, n) => Quiet(x2, n)
  <2>1. \A k \in 0 .. n - 1 : k \in 0 .. 3 /\ k # 3
    OBVIOUS
  <2>2. QED
    BY <1>2, <2>1 DEF Quiet
<1>5. QED
  BY <1>3, <1>4

\* What is settled further on is settled, and what is settled to the end is in DDR.
LEMMA SettledNearer ==
  ASSUME NEW x, NEW d \in 0 .. 3, NEW n \in 0 .. 3, n <= d, Settled(x, d) PROVE Settled(x, n)
<1>1. PICK e \in d .. 3 : SettledAt(x, e)
  BY DEF Settled
<1>2. e \in n .. 3
  BY <1>1
<1>3. QED
  BY <1>1, <1>2 DEF Settled

LEMMA SettledInDdr ==
  ASSUME NEW D, NEW x, IsPath(x, D), Settled(x, 3) PROVE x[3].data = Top(x)
<1>1. PICK e \in 0 .. 3 :
         /\ 3 <= e /\ x[e] # None /\ (e < 3 => Modified(x[e]))
         /\ \A k \in 0 .. 3 : k <= e /\ x[k] # None => x[k].data = Top(x)
  BY SettledEnd
<1>2. e = 3
  BY <1>1
<1>3. QED
  BY <1>1, <1>2

\* A Minion whose copies are fresh reads what the owner reads.
LEMMA FreshRead ==
  ASSUME NEW D, NEW x, NEW y, IsPath(x, D), IsPath(y, D), NEW s, Joined(x, y, s),
         Settled(x, s), Fresh(x, y, s)
  PROVE  Top(y) = Top(x)
<1>0. s \in {1, 2} /\ \A k \in 0 .. 3 : k >= s => y[k] = x[k]
  BY DEF Joined
<1>1. PICK f \in 0 .. 3 : IsTop(y, f) /\ Top(y) = y[f].data
  BY TopIs
<1>2. PICK e \in 0 .. 3 :
         /\ s <= e /\ x[e] # None /\ (e < 3 => Modified(x[e]))
         /\ \A k \in 0 .. 3 : k <= e /\ x[k] # None => x[k].data = Top(x)
  BY <1>0, SettledEnd
<1>3. f <= e
  BY <1>0, <1>1, <1>2 DEF IsTop
<1>4. CASE f < s
  BY <1>0, <1>1, <1>4 DEF Fresh, IsTop
<1>5. CASE f >= s
  BY <1>0, <1>1, <1>2, <1>3, <1>5 DEF IsTop
<1>6. QED
  BY <1>0, <1>4, <1>5
-----------------------------------------------------------------------------
(***************************************************************************)
(* The lines of the buffer.                                                *)
(***************************************************************************)
FlagLine(m) == LineOf(SendFlag(m))
DataLines(m) == LinesOf(SendData(m), PayloadWords)
\* The lines Minion m stores in; no other Minion does.
OwnLines(m) == {FlagLine(m)} \cup DataLines(m)

LEMMA Division ==
  ASSUME NEW a \in Int, NEW b \in Nat \ {0}, NEW c \in Int
  PROVE  /\ a \div b \in Int
         /\ b * c <= a => c <= a \div b
         /\ a < b * c => a \div b < c
<1>1. a \div b \in Int /\ a % b \in 0 .. b - 1 /\ a = b * (a \div b) + (a % b)
  OBVIOUS
<1>2. PICK q \in Int, r \in 0 .. b - 1 : q = a \div b /\ a = b * q + r
  <2> DEFINE q == a \div b
             r == a % b
  <2>1. q \in Int /\ r \in 0 .. b - 1 /\ q = a \div b /\ a = b * q + r
    BY <1>1
  <2> HIDE DEF q, r
  <2>2. QED
    BY <2>1
<1>3. ASSUME b * c <= a PROVE c <= q
  <2>1. PICK d \in Int : d = q - c
    OBVIOUS
  <2>2. b * d + b > 0
    BY <1>2, <1>3, <2>1
  <2>3. ASSUME NEW g \in Int, b * g + b > 0 PROVE g >= 0
    BY <2>3
  <2>4. d >= 0
    BY <2>2, <2>3
  <2>5. QED
    BY <2>1, <2>4
<1>4. ASSUME a < b * c PROVE q < c
  <2>1. PICK d \in Int : d = c - q
    OBVIOUS
  <2>2. b * d > 0
    BY <1>2, <1>4, <2>1
  <2>3. ASSUME NEW g \in Int, b * g > 0 PROVE g > 0
    BY <2>3
  <2>4. d > 0
    BY <2>2, <2>3
  <2>5. QED
    BY <2>1, <2>4
<1>5. QED
  BY <1>2, <1>3, <1>4

\* The flags have the first two lines, and the payloads begin at lines 2 and R.
LEMMA LinePlaces ==
  \E R \in Int :
    /\ R >= 2
    /\ FlagLine("ping") = 0 /\ FlagLine("pong") = 1
    /\ \A l \in DataLines("ping") : l \in Int /\ 2 <= l /\ l < R
    /\ \A l \in DataLines("pong") : l \in Int /\ R <= l
<1>1. PICK b \in Nat \ {0} : b = LineWords
  BY ChannelAssumption
<1>2. PICK p \in Nat : p = PayloadWords
  BY ChannelAssumption
<1>3. PICK n \in Int : n = (p + b - 1) \div b /\ n >= 0 /\ p <= b * n
  <2>1. PICK n \in Int : n = (p + b - 1) \div b
    BY <1>1, <1>2, Division
  <2>2. n >= 0
    BY <1>1, <1>2, <2>1, Division, b * 0 <= p + b - 1
  <2>3. p <= b * n
    <3> SUFFICES ASSUME b * n < p PROVE FALSE
      BY <1>1, <1>2, <2>1
    <3>1. PICK c \in Int : c = n + 1
      OBVIOUS
    <3>2. b * c <= p + b - 1
      <4>1. b * c = b * n + b
        BY <3>1
      <4>2. PICK t \in Int : t = b * n
        OBVIOUS
      <4>3. QED
        BY <4>1, <4>2
    <3>3. c <= n
      BY <2>1, <3>2, Division
    <3>4. QED
      BY <3>1, <3>3
  <2>4. QED
    BY <2>1, <2>2, <2>3
<1>4. PICK R \in Int : R = n + 2
  OBVIOUS
<1>5. PICK t \in Int : t = b * n /\ p <= t
  BY <1>3
<1>6. ForwardData = 2 * b /\ ReplyData = 2 * b + t /\ b * R = t + 2 * b
  <2>1. ReplyData = 2 * b + n * b
    BY <1>1, <1>2, <1>3, Zenon DEF ReplyData, ForwardData, NextLine
  <2>2. n * b = t /\ b * R = t + 2 * b
    BY <1>4, <1>5
  <2>3. QED
    BY <1>1, <2>1, <2>2 DEF ForwardData
<1>7. LineOf(ForwardFlag) = 0
  <2>1. 0 \div b \in Int /\ 0 <= 0 \div b
    BY Division, b * 0 <= 0
  <2>2. 0 \div b < 1
    BY Division, 0 < b * 1
  <2>3. PICK q \in Int : q = 0 \div b
    BY <2>1
  <2>4. q = 0
    BY <2>1, <2>2, <2>3
  <2>5. QED
    BY <1>1, <2>3, <2>4, Zenon DEF LineOf, ForwardFlag
<1>8. LineOf(ReplyFlag) = 1
  <2>1. b \div b \in Int /\ 1 <= b \div b
    BY Division, b * 1 <= b
  <2>2. b \div b < 2
    BY Division, b < b * 2
  <2>3. PICK q \in Int : q = b \div b
    BY <2>1
  <2>4. q = 1
    BY <2>1, <2>2, <2>3
  <2>5. QED
    BY <1>1, <2>3, <2>4, Zenon DEF LineOf, ReplyFlag
<1>9. ASSUME NEW w \in Area(ForwardData, PayloadWords)
      PROVE  LineOf(w) \in Int /\ 2 <= LineOf(w) /\ LineOf(w) < R
  <2>1. w \in Int /\ 2 * b <= w /\ w < 2 * b + p
    BY <1>2, <1>6 DEF Area
  <2>2. b * 2 <= w /\ w < b * R
    BY <1>5, <1>6, <2>1
  <2>3. w \div b \in Int /\ 2 <= w \div b /\ w \div b < R
    BY <2>1, <2>2, Division
  <2>4. LineOf(w) = w \div b
    BY <1>1, Zenon DEF LineOf
  <2>5. QED
    BY <2>3, <2>4, Zenon
<1>10. ASSUME NEW w \in Area(ReplyData, PayloadWords)
       PROVE  LineOf(w) \in Int /\ R <= LineOf(w)
  <2>1. w \in Int /\ b * R <= w
    BY <1>2, <1>5, <1>6 DEF Area
  <2>2. w \div b \in Int /\ R <= w \div b
    BY <2>1, Division
  <2>3. LineOf(w) = w \div b
    BY <1>1, Zenon DEF LineOf
  <2>4. QED
    BY <2>2, <2>3, Zenon
<1>11. R >= 2
  BY <1>3, <1>4
<1>12. FlagLine("ping") = 0 /\ FlagLine("pong") = 1
  BY <1>7, <1>8 DEF FlagLine, SendFlag
<1>13. \A l \in DataLines("ping") : l \in Int /\ 2 <= l /\ l < R
  BY <1>9 DEF DataLines, LinesOf, SendData
<1>14. \A l \in DataLines("pong") : l \in Int /\ R <= l
  BY <1>10 DEF DataLines, LinesOf, SendData
<1>15. QED
  BY <1>11, <1>12, <1>13, <1>14

\* Each line has one owner, and its flag is apart from its payload.
LEMMA LinesShared ==
  /\ Lines = OwnLines("ping") \cup OwnLines("pong")
  /\ \A m \in Minions : \A l \in OwnLines(m) : l \notin OwnLines(Peer(m))
  /\ \A m \in Minions : FlagLine(m) \notin DataLines(m)
<1>1. Lines = OwnLines("ping") \cup OwnLines("pong")
  <2>1. Words = {SendFlag("ping"), SendFlag("pong")} \cup Area(SendData("ping"), PayloadWords)
                  \cup Area(SendData("pong"), PayloadWords)
    BY DEF Words, Flags, Payload, SendFlag
  <2>2. QED
    BY <2>1, Zenon DEF Lines, OwnLines, FlagLine, DataLines, LinesOf
<1>2. PICK R \in Int :
        /\ R >= 2
        /\ FlagLine("ping") = 0 /\ FlagLine("pong") = 1
        /\ \A l \in DataLines("ping") : l \in Int /\ 2 <= l /\ l < R
        /\ \A l \in DataLines("pong") : l \in Int /\ R <= l
  BY LinePlaces
<1>3. \A l \in OwnLines("ping") : l = 0 \/ (l \in Int /\ 2 <= l /\ l < R)
  BY <1>2 DEF OwnLines
<1>4. \A l \in OwnLines("pong") : l = 1 \/ (l \in Int /\ R <= l)
  BY <1>2 DEF OwnLines
<1>5. \A l \in OwnLines("ping") : l \notin OwnLines("pong")
  BY <1>2, <1>3, <1>4
<1>6. \A m \in Minions : \A l \in OwnLines(m) : l \notin OwnLines(Peer(m))
  BY <1>5 DEF Minions, Peer
<1>7. 0 \notin DataLines("ping") /\ 1 \notin DataLines("pong")
  BY <1>2
<1>8. \A m \in Minions : FlagLine(m) \notin DataLines(m)
  BY <1>2, <1>7 DEF Minions
<1>9. QED
  BY <1>1, <1>6, <1>8

\* Where the words of a message and its flag are.
LEMMA WordPlaces ==
  ASSUME NEW m \in Minions
  PROVE  /\ SendFlag(m) \in WordsOf(FlagLine(m))
         /\ \A k \in 0 .. PayloadWords - 1 :
              /\ SendData(m) + k \in WordsOf(LineOf(SendData(m) + k))
              /\ LineOf(SendData(m) + k) \in DataLines(m)
         /\ SendData(m) \in Int
<1>1. SendFlag(m) \in Flags
  BY DEF SendFlag, Flags, Minions
<1>2. SendFlag(m) \in WordsOf(FlagLine(m))
  BY <1>1 DEF WordsOf, Words, FlagLine
<1>3. SendData(m) \in Int
  <2>1. NextLine(PayloadWords) \in Int
    <3>1. PICK b \in Nat \ {0}, p \in Nat : b = LineWords /\ p = PayloadWords
      BY ChannelAssumption
    <3>2. PICK q \in Int : q = (p + b - 1) \div b
      BY Division
    <3>3. NextLine(PayloadWords) = q * b
      BY <3>1, <3>2, Zenon DEF NextLine
    <3>4. QED
      BY <3>1, <3>2, <3>3
  <2>2. QED
    BY <2>1, ChannelAssumption DEF SendData, ForwardData, ReplyData
<1>4. ASSUME NEW k \in 0 .. PayloadWords - 1
      PROVE  /\ SendData(m) + k \in WordsOf(LineOf(SendData(m) + k))
             /\ LineOf(SendData(m) + k) \in DataLines(m)
  <2>1. SendData(m) + k \in Area(SendData(m), PayloadWords)
    BY <1>3, ChannelAssumption DEF Area
  <2>2. SendData(m) + k \in Words
    BY <2>1 DEF Words, Payload, Minions
  <2>3. QED
    BY <2>1, <2>2 DEF WordsOf, DataLines, LinesOf
<1>5. QED
  BY <1>2, <1>3, <1>4

LEMMA NextWord ==
  ASSUME NEW n \in 0 .. PayloadWords - 1
  PROVE  /\ n + 1 = PayloadWords => (n + 1) % PayloadWords = 0
         /\ n + 1 # PayloadWords => (n + 1) % PayloadWords = n + 1
<1>1. PICK b \in Nat \ {0} : b = PayloadWords
  BY ChannelAssumption
<1>2. PICK a \in 1 .. b : a = n + 1
  BY <1>1
<1>3. a \div b \in Int /\ a % b \in 0 .. b - 1 /\ a = b * (a \div b) + (a % b)
  OBVIOUS
<1>4. PICK q \in Int, r \in 0 .. b - 1 : r = a % b /\ a = b * q + r
  <2> DEFINE q == a \div b
             r == a % b
  <2>1. q \in Int /\ r \in 0 .. b - 1 /\ r = a % b /\ a = b * q + r
    BY <1>3
  <2> HIDE DEF q, r
  <2>2. QED
    BY <2>1
<1>5. q = 0 \/ q = 1
  <2>1. b * q <= b /\ b * q > -b
    BY <1>2, <1>4
  <2>2. ASSUME NEW g \in Int, b * g <= b, b * g > -b PROVE g = 0 \/ g = 1
    BY <2>2
  <2>3. QED
    BY <2>1, <2>2
<1>6. r = IF a = b THEN 0 ELSE a
  BY <1>2, <1>4, <1>5
<1>7. (n + 1) % PayloadWords = r
  BY <1>1, <1>2, <1>4, Zenon
<1>8. n + 1 = PayloadWords => r = 0
  BY <1>1, <1>2, <1>6
<1>9. n + 1 # PayloadWords => r = n + 1
  BY <1>1, <1>2, <1>6
<1>10. QED
  BY <1>7, <1>8, <1>9, Zenon
-----------------------------------------------------------------------------
(***************************************************************************)
(* What the caches do to the paths.                                        *)
(***************************************************************************)
\* The caches from this level on serve both Minions.
Shared == IF sameShire THEN 1 ELSE 2

Path(m, l) ==
  [k \in 0 .. 3 |-> IF k = 3 THEN Line(InDdr(l), FALSE) ELSE copy[Cache(m, k)][l]]

\* The caches hold the lines of the buffer, DDR its words, and an L2 that no
\* Minion uses nothing.
Held ==
  /\ sameShire \in BOOLEAN
  /\ copy = [c \in Caches |-> [l \in Lines |-> copy[c][l]]]
  /\ ddr = [w \in Words |-> ddr[w]]
  /\ sameShire => \A l \in Lines : copy[<<"L2", "pong">>][l] = None

\* A step only touches caches of Minion m.
Elsewhere(m) == \A c \in Caches : (\A k \in 0 .. 2 : c # Cache(m, k)) => copy'[c] = copy[c]

LEMMA CacheIs ==
  ASSUME NEW m \in Minions
  PROVE  /\ Cache(m, 0) = <<"L1", m>>
         /\ Cache(m, 1) = <<"L2", IF sameShire THEN "ping" ELSE m>>
         /\ Cache(m, 2) = <<"L3", "ping">>
         /\ \A k \in 0 .. 2 : Cache(m, k) \in Caches
<1>1. /\ Cache(m, 0) = <<"L1", m>>
      /\ Cache(m, 1) = <<"L2", IF sameShire THEN "ping" ELSE m>>
      /\ Cache(m, 2) = <<"L3", "ping">>
  BY DEF Cache
<1>2. /\ <<"L1", m>> \in Caches
      /\ <<"L2", IF sameShire THEN "ping" ELSE m>> \in Caches
      /\ <<"L3", "ping">> \in Caches
  BY DEF Caches, Minions
<1>3. \A k \in 0 .. 2 : k = 0 \/ k = 1 \/ k = 2
  OBVIOUS
<1>4. QED
  BY <1>1, <1>2, <1>3

LEMMA CacheKept ==
  ASSUME UNCHANGED sameShire
  PROVE  \A m, k : Cache(m, k)' = Cache(m, k)
BY DEF Cache

\* A Minion has one cache at each level, and the shared ones are its peer's too.
LEMMA CachesApart ==
  ASSUME sameShire \in BOOLEAN, NEW m \in Minions, NEW k \in 0 .. 2, NEW j \in 0 .. 2
  PROVE  /\ Cache(m, k) = Cache(m, j) => k = j
         /\ Cache(Peer(m), k) = Cache(m, j) => k = j /\ k >= Shared
         /\ k >= Shared => Cache(Peer(m), k) = Cache(m, k)
<1>1. Peer(m) \in Minions /\ Peer(m) # m
  BY DEF Minions, Peer
<1>2. /\ k = 0 \/ k = 1 \/ k = 2
      /\ j = 0 \/ j = 1 \/ j = 2
  OBVIOUS
<1>3. Cache(m, k) = Cache(m, j) => k = j
  BY <1>2, CacheIs
<1>4. Cache(Peer(m), k) = Cache(m, j) => k = j
  BY <1>1, <1>2, CacheIs
<1>5. Cache(Peer(m), 0) # Cache(m, 0)
  BY <1>1, CacheIs
<1>6. Cache(Peer(m), 1) = Cache(m, 1) <=> sameShire
  BY <1>1, CacheIs
<1>7. Cache(Peer(m), 2) = Cache(m, 2)
  BY <1>1, CacheIs
<1>8. Shared = IF sameShire THEN 1 ELSE 2
  BY DEF Shared
<1>9. Cache(Peer(m), k) = Cache(m, k) <=> k >= Shared
  <2>1. CASE sameShire
    BY <1>2, <1>5, <1>6, <1>7, <1>8, <2>1
  <2>2. CASE ~sameShire
    BY <1>2, <1>5, <1>6, <1>7, <1>8, <2>2
  <2>3. QED
    BY <2>1, <2>2
<1>10. QED
  BY <1>3, <1>4, <1>9

LEMMA PathAt ==
  ASSUME NEW m, NEW l, NEW k \in 0 .. 2
  PROVE  Path(m, l)[k] = copy[Cache(m, k)][l]
BY k # 3 DEF Path

LEMMA PathEnd ==
  ASSUME NEW m, NEW l PROVE Path(m, l)[3] = Line(InDdr(l), FALSE)
BY DEF Path

LEMMA NextPathAt ==
  ASSUME NEW m, NEW l, NEW k \in 0 .. 2, UNCHANGED sameShire
  PROVE  Path(m, l)'[k] = copy'[Cache(m, k)][l]
<1>1. Cache(m, k)' = Cache(m, k)
  BY CacheKept
<1>2. QED
  BY <1>1, k # 3 DEF Path

LEMMA NextPathEnd ==
  ASSUME NEW m, NEW l PROVE Path(m, l)'[3] = Line(InDdr(l)', FALSE)
BY DEF Path, Line

LEMMA NextPathDomain ==
  ASSUME NEW m, NEW l
  PROVE  Path(m, l)' = [k \in 0 .. 3 |-> Path(m, l)'[k]]
BY DEF Path

LEMMA SharedIs == ASSUME sameShire \in BOOLEAN PROVE Shared \in {1, 2}
BY DEF Shared

\* The paths of both Minions to a line join.
LEMMA PathsJoined ==
  ASSUME Held, NEW m \in Minions, NEW l
  PROVE  Joined(Path(m, l), Path(Peer(m), l), Shared)
<1>1. Shared \in {1, 2} /\ sameShire \in BOOLEAN
  BY SharedIs DEF Held
<1>2. ASSUME NEW k \in 0 .. 3, k >= Shared PROVE Path(Peer(m), l)[k] = Path(m, l)[k]
  <2>1. CASE k = 3
    BY <2>1, PathEnd
  <2>2. CASE k \in 0 .. 2
    <3>1. Cache(Peer(m), k) = Cache(m, k)
      BY <1>1, <1>2, <2>2, CachesApart
    <3>2. Path(m, l)[k] = copy[Cache(m, k)][l]
      BY <2>2, PathAt
    <3>3. Path(Peer(m), l)[k] = copy[Cache(Peer(m), k)][l]
      BY <2>2, PathAt
    <3>4. QED
      BY <3>1, <3>2, <3>3
  <2>3. QED
    BY <2>1, <2>2
<1>3. QED
  BY <1>1, <1>2 DEF Joined

LEMMA PeerPath ==
  ASSUME sameShire \in BOOLEAN, UNCHANGED sameShire, NEW m \in Minions, Elsewhere(m), NEW l
  PROVE  Path(Peer(m), l)' = Beside(Path(Peer(m), l), Path(m, l)', Shared)
<1>1. Shared \in {1, 2} /\ Peer(m) \in Minions
  BY SharedIs DEF Peer, Minions
<1>2. ASSUME NEW k \in 0 .. 3
      PROVE  Path(Peer(m), l)'[k] = IF k < Shared THEN Path(Peer(m), l)[k] ELSE Path(m, l)'[k]
  <2>1. CASE k = 3
    <3>1. ~(k < Shared)
      BY <1>1, <2>1
    <3>2. QED
      BY <2>1, <3>1, NextPathEnd
  <2>2. CASE k \in 0 .. 2 /\ k < Shared
    <3>1. \A j \in 0 .. 2 : Cache(Peer(m), k) # Cache(m, j)
      BY <1>1, <2>2, CachesApart
    <3>2. copy'[Cache(Peer(m), k)] = copy[Cache(Peer(m), k)]
      BY <1>1, <2>2, <3>1, CacheIs DEF Elsewhere
    <3>3. QED
      BY <2>2, <3>2, PathAt, NextPathAt
  <2>3. CASE k \in 0 .. 2 /\ ~(k < Shared)
    <3>1. Cache(Peer(m), k) = Cache(m, k)
      BY <1>1, <2>3, CachesApart
    <3>2. QED
      BY <2>3, <3>1, NextPathAt
  <2>4. QED
    BY <2>1, <2>2, <2>3
<1>3. Path(Peer(m), l)' = [k \in 0 .. 3 |-> Path(Peer(m), l)'[k]]
  BY NextPathDomain
<1>4. QED
  BY <1>2, <1>3 DEF Beside

LEMMA MinIs ==
  ASSUME NEW S \in SUBSET (0 .. 2), NEW f \in S, \A k \in S : f <= k
  PROVE  Min(S) = f
<1> DEFINE g == CHOOSE x \in S : \A y \in S : x <= y
<1>1. g \in S /\ \A y \in S : g <= y
  OBVIOUS
<1>2. Min(S) = g
  BY Zenon DEF Min
<1> HIDE DEF g
<1>3. g = f
  BY <1>1
<1>4. QED
  BY <1>2, <1>3

\* What is read is the top of the path.
LEMMA SeenTop ==
  ASSUME NEW m, NEW l, NEW D, IsPath(Path(m, l), D), NEW f \in 0 .. 3, IsTop(Path(m, l), f)
  PROVE  /\ Seen(m, l) = Path(m, l)[f].data
         /\ Seen(m, l) = Top(Path(m, l))
         /\ IF Holding(m, l, Mem) = {} THEN f = 3 ELSE f < 3 /\ Min(Holding(m, l, Mem)) = f
<1>1. PICK x : x = Path(m, l)
  OBVIOUS
<1>2. Holding(m, l, Mem) = {k \in 0 .. 2 : x[k] # None}
  <2>1. Mem - 1 = 2
    BY DEF Mem
  <2>2. QED
    BY <1>1, <2>1, PathAt DEF Holding
<1>3. PICK g \in 0 .. 3 : IsTop(x, g) /\ Top(x) = x[g].data
  BY <1>1, TopIs
<1>4. g = f /\ IsTop(x, f)
  BY <1>1, <1>3 DEF IsTop
<1>5. CASE f = 3
  <2>1. Holding(m, l, Mem) = {}
    BY <1>2, <1>4, <1>5 DEF IsTop
  <2>2. Seen(m, l) = InDdr(l)
    BY <2>1 DEF Seen
  <2>3. x[3] = Line(InDdr(l), FALSE)
    BY <1>1, PathEnd
  <2>4. x[3].data = InDdr(l)
    BY <2>3 DEF Line
  <2>5. QED
    BY <1>1, <1>3, <1>4, <1>5, <2>1, <2>2, <2>4
<1>6. CASE f # 3
  <2>1. f \in 0 .. 2 /\ x[f] # None
    BY <1>4, <1>6 DEF IsTop
  <2>2. f \in Holding(m, l, Mem) /\ Holding(m, l, Mem) \in SUBSET (0 .. 2)
    BY <1>2, <2>1
  <2>3. \A k \in Holding(m, l, Mem) : f <= k
    BY <1>2, <1>4, <2>1 DEF IsTop
  <2>4. Min(Holding(m, l, Mem)) = f
    BY <2>2, <2>3, MinIs
  <2>5. Seen(m, l) = copy[Cache(m, f)][l].data
    BY <2>2, <2>4 DEF Seen
  <2>6. x[f] = copy[Cache(m, f)][l]
    BY <1>1, <2>1, PathAt
  <2>7. QED
    BY <1>1, <1>3, <1>4, <2>1, <2>2, <2>4, <2>5, <2>6
<1>7. QED
  BY <1>5, <1>6

\* A miss fills the caches before the first copy.
LEMMA FilledIs ==
  ASSUME Held, NEW m \in Minions, NEW L \in Lines, NEW D, IsPath(Path(m, L), D)
  PROVE  /\ \A k \in 0 .. 2, l \in Lines :
              Filled(m, L)[Cache(m, k)][l] =
                IF l = L THEN Loaded(Path(m, L))[k] ELSE copy[Cache(m, k)][l]
         /\ \A c \in Caches : (\A k \in 0 .. 2 : c # Cache(m, k)) => Filled(m, L)[c] = copy[c]
         /\ Filled(m, L) = [c \in Caches |-> [l \in Lines |-> Filled(m, L)[c][l]]]
<1>1. PICK x : x = Path(m, L)
  OBVIOUS
<1>2. PICK f \in 0 .. 3 : IsTop(x, f) /\ Top(x) = x[f].data
  BY <1>1, TopIs
<1>3. /\ Seen(m, L) = Top(x)
      /\ IF Holding(m, L, Mem) = {} THEN f = 3 ELSE f < 3 /\ Min(Holding(m, L, Mem)) = f
  BY <1>1, <1>2, SeenTop
<1>4. PICK new : new = Line(Top(x), FALSE)
  OBVIOUS
<1> DEFINE missed == IF Holding(m, L, Mem) = {} THEN 0 .. Mem - 1
                     ELSE 0 .. Min(Holding(m, L, Mem)) - 1
<1>5. Filled(m, L) = [c \in Caches |->
                        IF \E k \in missed : c = Cache(m, k)
                        THEN [copy[c] EXCEPT ![L] = new] ELSE copy[c]]
  BY <1>3, <1>4, Zenon DEF Filled
<1>6. missed = 0 .. f - 1
  <2>1. CASE Holding(m, L, Mem) = {}
    BY <1>3, <2>1 DEF Mem
  <2>2. CASE Holding(m, L, Mem) # {}
    BY <1>3, <2>2
  <2>3. QED
    BY <2>1, <2>2
<1> HIDE DEF missed
<1>7. /\ \A c \in Caches : copy[c] = [l \in Lines |-> copy[c][l]]
      /\ sameShire \in BOOLEAN
  BY DEF Held
<1>8. ASSUME NEW c \in Caches
      PROVE  Filled(m, L)[c] = IF \E k \in 0 .. f - 1 : c = Cache(m, k)
                               THEN [copy[c] EXCEPT ![L] = new] ELSE copy[c]
  BY <1>5, <1>6
<1>9. ASSUME NEW k \in 0 .. 2, NEW l \in Lines
      PROVE  Filled(m, L)[Cache(m, k)][l] =
               IF l = L THEN Loaded(x)[k] ELSE copy[Cache(m, k)][l]
  <2>1. Cache(m, k) \in Caches
    BY CacheIs
  <2>2. (\E j \in 0 .. f - 1 : Cache(m, k) = Cache(m, j)) <=> k < f
    <3>1. ASSUME NEW j \in 0 .. f - 1, Cache(m, k) = Cache(m, j) PROVE k < f
      <4>1. j \in 0 .. 2 /\ j < f
        OBVIOUS
      <4>2. k = j
        BY <1>7, <3>1, <4>1, CachesApart
      <4>3. QED
        BY <4>1, <4>2
    <3>2. ASSUME k < f PROVE k \in 0 .. f - 1
      BY <3>2
    <3>3. QED
      BY <3>1, <3>2
  <2>3. (\A j \in 0 .. 3 : j <= k => x[j] = None) <=> k < f
    BY <1>2 DEF IsTop
  <2>4. Loaded(x)[k] = IF k < f THEN new ELSE x[k]
    <3>1. k \in 0 .. 3
      OBVIOUS
    <3>2. Loaded(x)[k] = IF \A j \in 0 .. 3 : j <= k => x[j] = None THEN Line(Top(x), FALSE)
                         ELSE x[k]
      BY <3>1, Zenon DEF Loaded
    <3>3. QED
      BY <1>4, <2>3, <3>2
  <2>5. x[k] = copy[Cache(m, k)][L]
    BY <1>1, PathAt
  <2>6. Filled(m, L)[Cache(m, k)] = IF k < f THEN [copy[Cache(m, k)] EXCEPT ![L] = new]
                                    ELSE copy[Cache(m, k)]
    BY <1>8, <2>1, <2>2
  <2>7. L \in DOMAIN copy[Cache(m, k)] /\ l \in DOMAIN copy[Cache(m, k)]
    BY <1>7, <2>1
  <2>8. QED
    BY <2>4, <2>5, <2>6, <2>7
<1>10. ASSUME NEW c \in Caches, \A k \in 0 .. 2 : c # Cache(m, k)
       PROVE  Filled(m, L)[c] = copy[c]
  <2>1. \A k \in 0 .. f - 1 : k \in 0 .. 2
    OBVIOUS
  <2>2. QED
    BY <1>8, <1>10, <2>1
<1>11. \A c \in Caches : Filled(m, L)[c] = [l \in Lines |-> Filled(m, L)[c][l]]
  <2> SUFFICES ASSUME NEW c \in Caches PROVE Filled(m, L)[c] = [l \in Lines |-> Filled(m, L)[c][l]]
    OBVIOUS
  <2>1. copy[c] = [l \in Lines |-> copy[c][l]]
    BY <1>7
  <2>2. [copy[c] EXCEPT ![L] = new] = [l \in Lines |-> IF l = L THEN new ELSE copy[c][l]]
    BY <2>1
  <2>3. QED
    BY <1>8, <2>1, <2>2
<1>12. Filled(m, L) = [c \in Caches |-> Filled(m, L)[c]]
  BY <1>5
<1>13. Filled(m, L) = [c \in Caches |-> [l \in Lines |-> Filled(m, L)[c][l]]]
  BY <1>11, <1>12
<1>14. QED
  BY <1>1, <1>9, <1>10, <1>13

LEMMA HeldKept ==
  ASSUME Held, NEW m \in Minions, Elsewhere(m), UNCHANGED sameShire,
         copy' = [c \in Caches |-> [l \in Lines |-> copy'[c][l]]],
         ddr' = [w \in Words |-> ddr'[w]]
  PROVE  Held'
<1>1. ASSUME sameShire, NEW l \in Lines PROVE copy'[<<"L2", "pong">>][l] = None
  <2>1. <<"L2", "pong">> \in Caches
    BY DEF Caches, Minions
  <2>2. \A k \in 0 .. 2 : k = 0 \/ k = 1 \/ k = 2
    OBVIOUS
  <2>3. \A k \in 0 .. 2 : <<"L2", "pong">> # Cache(m, k)
    BY <1>1, <2>2, CacheIs
  <2>4. copy'[<<"L2", "pong">>] = copy[<<"L2", "pong">>]
    BY <2>1, <2>3 DEF Elsewhere
  <2>5. QED
    BY <1>1, <2>4 DEF Held
<1>2. QED
  BY <1>1 DEF Held

\* Two paths that agree at every level are one.
LEMMA PathEqual ==
  ASSUME NEW x, NEW y, x = [k \in 0 .. 3 |-> x[k]], y = [k \in 0 .. 3 |-> y[k]],
         \A k \in 0 .. 2 : x[k] = y[k], x[3] = y[3]
  PROVE  x = y
<1>1. \A k \in 0 .. 3 : k \in 0 .. 2 \/ k = 3
  OBVIOUS
<1>2. \A k \in 0 .. 3 : x[k] = y[k]
  BY <1>1
<1>3. QED
  BY <1>2

LEMMA PathDomain ==
  ASSUME NEW m, NEW l
  PROVE  Path(m, l) = [k \in 0 .. 3 |-> Path(m, l)[k]]
BY DEF Path

\* A path whose copies do not change.
LEMMA PathKept ==
  ASSUME NEW m, NEW l, UNCHANGED <<sameShire, ddr>>,
         \A k \in 0 .. 2 : copy'[Cache(m, k)][l] = copy[Cache(m, k)][l]
  PROVE  Path(m, l)' = Path(m, l)
<1>1. InDdr(l)' = InDdr(l)
  BY DEF InDdr, WordsOf, Words
<1>2. Path(m, l)'[3] = Path(m, l)[3]
  <2>1. Path(m, l)'[3] = Line(InDdr(l)', FALSE)
    BY NextPathEnd
  <2>2. Path(m, l)[3] = Line(InDdr(l), FALSE)
    BY PathEnd
  <2>3. QED
    BY <1>1, <2>1, <2>2, Zenon
<1>3. \A k \in 0 .. 2 : Path(m, l)'[k] = Path(m, l)[k]
  BY PathAt, NextPathAt
<1>4. QED
  BY <1>2, <1>3, PathDomain, NextPathDomain, PathEqual

LEMMA LoadPaths ==
  ASSUME Held, NEW m \in Minions, NEW w, NEW L \in Lines, L = LineOf(w), NEW D,
         IsPath(Path(m, L), D), Load(m, w), UNCHANGED sameShire
  PROVE  /\ Held' /\ Elsewhere(m)
         /\ Path(m, L)' = Loaded(Path(m, L))
         /\ \A l \in Lines : l # L => Path(m, l)' = Path(m, l)
<1>1. /\ copy' = Filled(m, L) /\ ddr' = ddr
      /\ \A k \in 0 .. 2, l \in Lines :
           copy'[Cache(m, k)][l] = IF l = L THEN Loaded(Path(m, L))[k] ELSE copy[Cache(m, k)][l]
      /\ Elsewhere(m)
      /\ copy' = [c \in Caches |-> [l \in Lines |-> copy'[c][l]]]
  BY FilledIs DEF Load, Elsewhere
<1>2. Held'
  BY <1>1, HeldKept DEF Held
<1>3. ASSUME NEW l \in Lines, l # L PROVE Path(m, l)' = Path(m, l)
  BY <1>1, <1>3, PathKept
<1>4. Path(m, L)' = Loaded(Path(m, L))
  <2>1. PICK y : y = Loaded(Path(m, L))
    OBVIOUS
  <2>2. y = [k \in 0 .. 3 |-> y[k]]
    BY <2>1 DEF Loaded
  <2>3. y[3] = Path(m, L)[3]
    <3>1. Path(m, L)[3] # None
      BY DEF IsPath
    <3>2. QED
      BY <2>1, <3>1 DEF Loaded
  <2>4. InDdr(L)' = InDdr(L)
    BY <1>1 DEF InDdr, WordsOf, Words
  <2>5. Path(m, L)'[3] = y[3]
    BY <2>3, <2>4, PathEnd, NextPathEnd
  <2>6. \A k \in 0 .. 2 : Path(m, L)'[k] = y[k]
    <3> SUFFICES ASSUME NEW k \in 0 .. 2 PROVE Path(m, L)'[k] = y[k]
      OBVIOUS
    <3>1. Path(m, L)'[k] = copy'[Cache(m, k)][L]
      BY NextPathAt
    <3>2. QED
      BY <1>1, <2>1, <3>1
  <2>7. QED
    BY <2>1, <2>2, <2>5, <2>6, NextPathDomain, PathEqual
<1>5. QED
  BY <1>1, <1>2, <1>3, <1>4

\* What is read on a path, with one word changed.
Put(x, w, v) == [Top(x) EXCEPT ![w] = v]

LEMMA StorePaths ==
  ASSUME Held, NEW m \in Minions, NEW w, NEW v, NEW L \in Lines, L = LineOf(w), NEW D,
         IsPath(Path(m, L), D), Store(m, w, v), UNCHANGED sameShire
  PROVE  /\ Held' /\ Elsewhere(m)
         /\ Path(m, L)' = Stored(Path(m, L), Put(Path(m, L), w, v))
         /\ \A l \in Lines : l # L => Path(m, l)' = Path(m, l)
<1>1. PICK x, F, t, new : /\ x = Path(m, L) /\ F = Filled(m, L)
                          /\ t = Put(x, w, v) /\ new = Line(t, TRUE)
  OBVIOUS
<1>2. Seen(m, L) = Top(x)
  <2>1. PICK f \in 0 .. 3 : IsTop(x, f)
    BY <1>1, TopIs
  <2>2. QED
    BY <1>1, <2>1, SeenTop
<1>3. copy' = [F EXCEPT ![Cache(m, 0)][L] = new] /\ ddr' = ddr
  BY <1>1, <1>2 DEF Store, Put
<1>4. /\ \A k \in 0 .. 2, l \in Lines :
           F[Cache(m, k)][l] = IF l = L THEN Loaded(x)[k] ELSE copy[Cache(m, k)][l]
      /\ \A c \in Caches : (\A k \in 0 .. 2 : c # Cache(m, k)) => F[c] = copy[c]
      /\ F = [c \in Caches |-> [l \in Lines |-> F[c][l]]]
  BY <1>1, FilledIs
<1>5. Cache(m, 0) \in Caches /\ \A k \in 0 .. 2 : Cache(m, k) \in Caches
  BY CacheIs
<1>6. \A c \in Caches : F[c] = [l \in Lines |-> F[c][l]]
  BY <1>4
<1>7. /\ DOMAIN copy' = Caches
      /\ \A c \in Caches : c # Cache(m, 0) => copy'[c] = F[c]
      /\ copy'[Cache(m, 0)] = [F[Cache(m, 0)] EXCEPT ![L] = new]
  BY <1>3, <1>4, <1>5
<1>8. copy'[Cache(m, 0)] = [l \in Lines |-> IF l = L THEN new ELSE F[Cache(m, 0)][l]]
  BY <1>5, <1>6, <1>7
<1>9. copy' = [c \in Caches |-> [l \in Lines |-> copy'[c][l]]]
  <2>1. \A c \in Caches : copy'[c] = [l \in Lines |-> copy'[c][l]]
    <3> SUFFICES ASSUME NEW c \in Caches PROVE copy'[c] = [l \in Lines |-> copy'[c][l]]
      OBVIOUS
    <3>1. CASE c = Cache(m, 0)
      <4>1. PICK g : g = [l \in Lines |-> IF l = L THEN new ELSE F[Cache(m, 0)][l]]
        OBVIOUS
      <4>2. g = [l \in Lines |-> g[l]]
        BY <4>1
      <4>3. copy'[c] = g
        BY <1>8, <3>1, <4>1
      <4>4. QED
        BY <4>2, <4>3
    <3>2. CASE c # Cache(m, 0)
      <4>1. copy'[c] = F[c]
        BY <1>7, <3>2
      <4>2. F[c] = [l \in Lines |-> F[c][l]]
        BY <1>6
      <4>3. QED
        BY <4>1, <4>2
    <3>3. QED
      BY <3>1, <3>2
  <2>2. copy' = [c \in Caches |-> copy'[c]]
    BY <1>3, <1>4
  <2>3. QED
    BY <2>1, <2>2
<1>10. Elsewhere(m)
  <2> SUFFICES ASSUME NEW c \in Caches, \A k \in 0 .. 2 : c # Cache(m, k) PROVE copy'[c] = copy[c]
    BY DEF Elsewhere
  <2>1. c # Cache(m, 0)
    OBVIOUS
  <2>2. QED
    BY <1>4, <1>7, <2>1
<1>11. Held'
  BY <1>3, <1>9, <1>10, HeldKept DEF Held
<1>12. sameShire \in BOOLEAN
  BY DEF Held
<1>13. ASSUME NEW k \in 0 .. 2, NEW l \in Lines
       PROVE  copy'[Cache(m, k)][l] = IF k = 0 /\ l = L THEN new ELSE F[Cache(m, k)][l]
  <2>1. CASE k = 0
    BY <1>8, <2>1
  <2>2. CASE k # 0
    <3>1. Cache(m, k) # Cache(m, 0)
      BY <1>12, <2>2, CachesApart
    <3>2. QED
      BY <1>5, <1>7, <2>2, <3>1
  <2>3. QED
    BY <2>1, <2>2
<1>14. ASSUME NEW l \in Lines, l # L PROVE Path(m, l)' = Path(m, l)
  <2>1. \A k \in 0 .. 2 : copy'[Cache(m, k)][l] = copy[Cache(m, k)][l]
    <3> SUFFICES ASSUME NEW k \in 0 .. 2
                 PROVE  copy'[Cache(m, k)][l] = copy[Cache(m, k)][l]
      OBVIOUS
    <3>1. copy'[Cache(m, k)][l] = F[Cache(m, k)][l]
      BY <1>13, <1>14
    <3>2. F[Cache(m, k)][l] = copy[Cache(m, k)][l]
      BY <1>4, <1>14
    <3>3. QED
      BY <3>1, <3>2
  <2>2. UNCHANGED <<sameShire, ddr>>
    BY <1>3
  <2>3. QED
    BY <2>1, <2>2, PathKept
<1>15. Path(m, L)' = Stored(x, t)
  <2>1. PICK y : y = Stored(x, t)
    OBVIOUS
  <2>2. y = [k \in 0 .. 3 |-> y[k]]
    BY <2>1 DEF Stored
  <2>3. y[3] = x[3]
    <3>1. x[3] # None
      BY <1>1 DEF IsPath
    <3>2. QED
      BY <2>1, <3>1 DEF Stored, Loaded
  <2>4. InDdr(L)' = InDdr(L)
    BY <1>3 DEF InDdr, WordsOf, Words
  <2>5. Path(m, L)'[3] = y[3]
    BY <1>1, <2>3, <2>4, PathEnd, NextPathEnd
  <2>6. \A k \in 0 .. 2 : Path(m, L)'[k] = y[k]
    <3> SUFFICES ASSUME NEW k \in 0 .. 2 PROVE Path(m, L)'[k] = y[k]
      OBVIOUS
    <3>1. Path(m, L)'[k] = copy'[Cache(m, k)][L]
      BY NextPathAt
    <3>2. y[k] = IF k = 0 THEN new ELSE Loaded(x)[k]
      <4>1. y = [j \in 0 .. 3 |-> IF j = 0 THEN new ELSE Loaded(x)[j]]
        BY <1>1, <2>1, Zenon DEF Stored
      <4>2. QED
        BY <4>1
    <3>3. copy'[Cache(m, k)][L] = IF k = 0 THEN new ELSE Loaded(x)[k]
      BY <1>4, <1>13
    <3>4. QED
      BY <3>1, <3>2, <3>3
  <2>7. QED
    BY <2>1, <2>2, <2>5, <2>6, NextPathDomain, PathEqual
<1>16. QED
  BY <1>1, <1>10, <1>11, <1>14, <1>15

\* The levels before d with a dirty copy.
LEMMA DirtyIs ==
  ASSUME NEW m, NEW l, NEW d \in 1 .. 3
  PROVE  /\ Dirty(m, l, d) \in SUBSET (0 .. 2)
         /\ \A k \in 0 .. 2 : k \in Dirty(m, l, d) <=> k < d /\ Modified(Path(m, l)[k])
<1>1. \A k : k \in Dirty(m, l, d) <=>
               k \in 0 .. d - 1 /\ copy[Cache(m, k)][l] # None /\ copy[Cache(m, k)][l].dirty
  BY Zenon DEF Dirty, Holding
<1>2. \A k \in 0 .. 2 : Modified(Path(m, l)[k]) <=>
                          copy[Cache(m, k)][l] # None /\ copy[Cache(m, k)][l].dirty
  <2> SUFFICES ASSUME NEW k \in 0 .. 2
               PROVE  Modified(Path(m, l)[k]) <=>
                        copy[Cache(m, k)][l] # None /\ copy[Cache(m, k)][l].dirty
    OBVIOUS
  <2>1. Path(m, l)[k] = copy[Cache(m, k)][l]
    BY PathAt
  <2>2. QED
    BY <2>1, Zenon DEF Modified
<1>3. \A k : k \in 0 .. d - 1 <=> k \in 0 .. 2 /\ k < d
  OBVIOUS
<1>4. \A k \in 0 .. 2 : k \in Dirty(m, l, d) <=> k < d /\ Modified(Path(m, l)[k])
  BY <1>1, <1>2, <1>3, Zenon
<1>5. \A k : k \in Dirty(m, l, d) => k \in 0 .. 2
  BY <1>1, <1>3, Zenon
<1>6. QED
  BY <1>4, <1>5

\* The dirty level nearest to the Minion.
LEMMA DirtyLeast ==
  ASSUME NEW m, NEW l, NEW d \in 1 .. 3, Dirty(m, l, d) # {}
  PROVE  \E j \in 0 .. 2 : /\ IsDirty(Path(m, l), d, j)
                           /\ Min(Dirty(m, l, d)) = j
                           /\ Written(m, l, d) = Path(m, l)[j].data
<1>1. PICK S : S = Dirty(m, l, d)
  OBVIOUS
<1>2. S \in SUBSET (0 .. 2) /\ \A k \in 0 .. 2 : k \in S <=> k < d /\ Modified(Path(m, l)[k])
  BY <1>1, DirtyIs
<1>3. PICK j \in S : \A k \in S : j <= k
  <2>1. 0 \in S \/ (0 \notin S /\ 1 \in S) \/ (0 \notin S /\ 1 \notin S /\ 2 \in S)
    BY <1>1, <1>2
  <2>2. \A k \in S : k = 0 \/ k = 1 \/ k = 2
    BY <1>2
  <2>3. CASE 0 \in S
    BY <2>2, <2>3
  <2>4. CASE 0 \notin S /\ 1 \in S
    BY <2>2, <2>4
  <2>5. CASE 0 \notin S /\ 1 \notin S /\ 2 \in S
    BY <2>2, <2>5
  <2>6. QED
    BY <2>1, <2>3, <2>4, <2>5
<1>4. j \in 0 .. 2 /\ j \in 0 .. 3 /\ j < d /\ Modified(Path(m, l)[j])
  BY <1>2, <1>3
<1>5. Min(Dirty(m, l, d)) = j
  BY <1>1, <1>2, <1>3, MinIs
<1>6. ASSUME NEW k \in 0 .. 3, k < j PROVE ~Modified(Path(m, l)[k])
  <2>1. k \in 0 .. 2 /\ k < d
    BY <1>4, <1>6
  <2>2. k \notin S
    BY <1>2, <1>3, <1>4, <1>6, <2>1
  <2>3. QED
    BY <1>2, <2>1, <2>2, Zenon
<1>7. IsDirty(Path(m, l), d, j)
  BY <1>4, <1>6, Zenon DEF IsDirty, Modified
<1>8. Written(m, l, d) = Path(m, l)[j].data
  BY <1>4, <1>5, PathAt, Zenon DEF Written
<1>9. QED
  BY <1>4, <1>5, <1>7, <1>8

\* What a write-back to level d leaves on the path to a line.
DdrBack(m, l, ls, d) == [w \in WordsOf(l) |-> FlushedDdr(m, ls, d)[w]]
Back(m, l, ls, d) ==
  [k \in 0 .. 3 |-> IF k = 3 THEN Line(DdrBack(m, l, ls, d), FALSE)
                    ELSE Flushed(m, ls, d, Cache(m, k))[l]]

LEMMA BackEnd ==
  ASSUME NEW m, NEW l, NEW ls, NEW d
  PROVE  Back(m, l, ls, d)[3] = Line(DdrBack(m, l, ls, d), FALSE)
<1>1. 3 \in 0 .. 3
  OBVIOUS
<1>2. QED
  BY <1>1, Zenon DEF Back

LEMMA BackAt ==
  ASSUME NEW m, NEW l, NEW ls, NEW d, NEW k \in 0 .. 2
  PROVE  Back(m, l, ls, d)[k] = Flushed(m, ls, d, Cache(m, k))[l]
<1>1. k \in 0 .. 3 /\ k # 3
  OBVIOUS
<1>2. QED
  BY <1>1, Zenon DEF Back

LEMMA BackIs ==
  ASSUME Held, NEW m \in Minions, NEW d \in 1 .. 3, NEW ls, NEW l \in Lines, NEW D,
         D \subseteq [WordsOf(l) -> Int], IsPath(Path(m, l), D)
  PROVE  IF l \in ls THEN WrittenBack(Path(m, l), d, Back(m, l, ls, d))
         ELSE Back(m, l, ls, d) = Path(m, l)
<1>1. PICK x, z : x = Path(m, l) /\ z = Back(m, l, ls, d)
  OBVIOUS
<1>2. /\ z = [k \in 0 .. 3 |-> z[k]]
      /\ z[3] = Line(DdrBack(m, l, ls, d), FALSE)
      /\ \A k \in 0 .. 2 : z[k] = Flushed(m, ls, d, Cache(m, k))[l]
  <2>1. Back(m, l, ls, d)[3] = Line(DdrBack(m, l, ls, d), FALSE)
    BY BackEnd
  <2>2. \A k \in 0 .. 2 : Back(m, l, ls, d)[k] = Flushed(m, ls, d, Cache(m, k))[l]
    BY BackAt
  <2>3. z = [k \in 0 .. 3 |-> z[k]]
    BY <1>1 DEF Back
  <2>4. QED
    BY <1>1, <2>1, <2>2, <2>3, Zenon
<1>3. \A w \in WordsOf(l) : w \in Words /\ LineOf(w) = l
  BY DEF WordsOf
<1>4. CASE ~(l \in ls /\ Dirty(m, l, d) # {})
  <2>1. ASSUME NEW k \in 0 .. 2 PROVE z[k] = x[k]
    <3>1. Flushed(m, ls, d, Cache(m, k))[l] = copy[Cache(m, k)][l]
      BY <1>4, Zenon DEF Flushed
    <3>2. QED
      BY <1>1, <1>2, <3>1, PathAt
  <2>2. z[3] = x[3]
    <3>1. \A w \in WordsOf(l) : FlushedDdr(m, ls, d)[w] = ddr[w]
      BY <1>3, <1>4, Zenon DEF FlushedDdr
    <3>2. DdrBack(m, l, ls, d) = InDdr(l)
      BY <3>1 DEF InDdr, DdrBack
    <3>3. x[3] = Line(InDdr(l), FALSE)
      BY <1>1, PathEnd
    <3>4. QED
      BY <1>2, <3>2, <3>3, Zenon
  <2>3. z = x
    BY <1>1, <1>2, <2>1, <2>2, PathDomain, PathEqual
  <2>4. ASSUME l \in ls PROVE Quiet(x, d)
    <3>1. ASSUME NEW k \in 0 .. d - 1 PROVE ~Modified(x[k])
      <4>1. k \in 0 .. 2 /\ k < d
        OBVIOUS
      <4>2. QED
        BY <1>1, <1>4, <2>4, <4>1, DirtyIs, Zenon
    <3>2. QED
      BY <3>1 DEF Quiet
  <2>5. QED
    BY <1>1, <2>3, <2>4, Zenon DEF WrittenBack
<1>5. CASE l \in ls /\ Dirty(m, l, d) # {}
  <2>1. PICK j \in 0 .. 2 : /\ IsDirty(x, d, j)
                            /\ Min(Dirty(m, l, d)) = j
                            /\ Written(m, l, d) = x[j].data
    BY <1>1, <1>5, DirtyLeast
  <2>2. j < d /\ j \in 0 .. 3 /\ x[j] # None
    BY <2>1 DEF IsDirty
  <2>3. x[j].data \in [WordsOf(l) -> Int]
    <3>1. x[j] \in {None} \cup Copies(D)
      BY <1>1, <2>2 DEF IsPath
    <3>2. QED
      BY <2>2, <3>1, CopyTyped
  <2>4. ASSUME NEW k \in 0 .. 2
        PROVE  /\ (\E i \in j .. d - 1 : Cache(m, k) = Cache(m, i)) <=> j <= k /\ k < d
               /\ d < Mem /\ Cache(m, k) = Cache(m, d) <=> d < 3 /\ k = d
    <3>1. ASSUME NEW i \in 0 .. 2, Cache(m, k) = Cache(m, i) PROVE k = i
      BY <3>1, CachesApart DEF Held
    <3>2. ASSUME NEW i \in j .. d - 1 PROVE i \in 0 .. 2 /\ j <= i /\ i < d
      BY <2>2
    <3>3. j <= k /\ k < d => k \in j .. d - 1
      BY <2>2
    <3>4. (\E i \in j .. d - 1 : Cache(m, k) = Cache(m, i)) <=> j <= k /\ k < d
      BY <3>1, <3>2, <3>3, Zenon
    <3>5. d < 3 => d \in 0 .. 2
      OBVIOUS
    <3>6. d < Mem /\ Cache(m, k) = Cache(m, d) <=> d < 3 /\ k = d
      BY <3>1, <3>5 DEF Mem
    <3>7. QED
      BY <3>4, <3>6
  <2>5. ASSUME NEW k \in 0 .. 2
        PROVE  z[k] = IF j <= k /\ k < d THEN Line(x[j].data, FALSE)
                      ELSE IF d < 3 /\ k = d THEN Line(x[j].data, TRUE) ELSE x[k]
    <3>1. Flushed(m, ls, d, Cache(m, k))[l] =
            IF \E i \in Min(Dirty(m, l, d)) .. d - 1 : Cache(m, k) = Cache(m, i)
            THEN Line(Written(m, l, d), FALSE)
            ELSE IF d < Mem /\ Cache(m, k) = Cache(m, d)
                 THEN Line(Written(m, l, d), TRUE) ELSE copy[Cache(m, k)][l]
      BY <1>5, Zenon DEF Flushed
    <3>2. x[k] = copy[Cache(m, k)][l]
      BY <1>1, PathAt
    <3>3. QED
      BY <1>2, <2>1, <2>4, <3>1, <3>2, Zenon
  <2>6. z[3] = IF d = 3 THEN Line(x[j].data, FALSE) ELSE x[3]
    <3>1. CASE d = 3
      <4>1. \A w \in WordsOf(l) : FlushedDdr(m, ls, d)[w] = x[j].data[w]
        BY <1>3, <1>5, <2>1, <3>1, Zenon DEF FlushedDdr, Mem
      <4>2. DdrBack(m, l, ls, d) = x[j].data
        BY <2>3, <4>1 DEF DdrBack
      <4>3. QED
        BY <1>2, <3>1, <4>2, Zenon
    <3>2. CASE d # 3
      <4>1. \A w \in WordsOf(l) : FlushedDdr(m, ls, d)[w] = ddr[w]
        BY <1>3, <3>2, Zenon DEF FlushedDdr, Mem
      <4>2. DdrBack(m, l, ls, d) = InDdr(l)
        BY <4>1 DEF InDdr, DdrBack
      <4>3. x[3] = Line(InDdr(l), FALSE)
        BY <1>1, PathEnd
      <4>4. QED
        BY <1>2, <3>2, <4>2, <4>3, Zenon
    <3>3. QED
      BY <3>1, <3>2, Zenon
  <2>7. ASSUME NEW k \in 0 .. 3
        PROVE  /\ k < j \/ k > d => z[k] = x[k]
               /\ j <= k /\ k <= d /\ ~(k = d /\ d < 3) => z[k] = Line(x[j].data, FALSE)
               /\ k = d /\ d < 3 => z[k] = Line(x[j].data, TRUE)
    <3>1. CASE k \in 0 .. 2
      <4>1. /\ k < j \/ k > d => ~(j <= k /\ k < d) /\ ~(d < 3 /\ k = d)
            /\ j <= k /\ k <= d /\ ~(k = d /\ d < 3) => j <= k /\ k < d
            /\ k = d /\ d < 3 => ~(j <= k /\ k < d)
        BY <2>2, <3>1
      <4>2. QED
        BY <2>5, <3>1, <4>1, Zenon
    <3>2. CASE k = 3
      <4>1. /\ k < j \/ k > d => d # 3
            /\ j <= k /\ k <= d /\ ~(k = d /\ d < 3) => d = 3
            /\ ~(k = d /\ d < 3)
        BY <3>2
      <4>2. QED
        BY <2>6, <3>2, <4>1, Zenon
    <3>3. k \in 0 .. 2 \/ k = 3
      OBVIOUS
    <3>4. QED
      BY <3>1, <3>2, <3>3, Zenon
  <2>8. BackFrom(x, d, j, z)
    BY <1>2, <2>1, <2>7, Zenon DEF BackFrom
  <2>9. QED
    BY <1>1, <1>5, <2>2, <2>8, Zenon DEF WrittenBack
<1>6. QED
  BY <1>4, <1>5

LEMMA FlushedElsewhere ==
  ASSUME Held, NEW m \in Minions, NEW d \in 1 .. 3, NEW ls, NEW c \in Caches,
         \A k \in 0 .. 2 : c # Cache(m, k)
  PROVE  Flushed(m, ls, d, c) = copy[c]
<1>1. ASSUME NEW l \in Lines PROVE Flushed(m, ls, d, c)[l] = copy[c][l]
  <2>1. CASE l \in ls /\ Dirty(m, l, d) # {}
    <3>1. PICK j \in 0 .. 2 : Min(Dirty(m, l, d)) = j
      BY <2>1, DirtyLeast
    <3>2. ~(\E k \in Min(Dirty(m, l, d)) .. d - 1 : c = Cache(m, k))
      <4>1. \A k \in j .. d - 1 : k \in 0 .. 2
        OBVIOUS
      <4>2. QED
        BY <3>1, <4>1, Zenon
    <3>3. ~(d < Mem /\ c = Cache(m, d))
      <4>1. d < 3 => d \in 0 .. 2
        OBVIOUS
      <4>2. QED
        BY <4>1, Zenon DEF Mem
    <3>4. QED
      BY <3>2, <3>3, Zenon DEF Flushed
  <2>2. CASE ~(l \in ls /\ Dirty(m, l, d) # {})
    BY <2>2, Zenon DEF Flushed
  <2>3. QED
    BY <2>1, <2>2
<1>2. Flushed(m, ls, d, c) = [l \in Lines |-> Flushed(m, ls, d, c)[l]]
  <2>1. PICK f : f = Flushed(m, ls, d, c)
    OBVIOUS
  <2>2. f = [l \in Lines |-> f[l]]
    BY <2>1 DEF Flushed
  <2>3. QED
    BY <2>1, <2>2
<1>3. copy[c] = [l \in Lines |-> copy[c][l]]
  BY DEF Held
<1>4. QED
  BY <1>1, <1>2, <1>3

LEMMA FlushedLines ==
  ASSUME NEW m, NEW d, NEW ls, NEW c
  PROVE  Flushed(m, ls, d, c) = [l \in Lines |-> Flushed(m, ls, d, c)[l]]
<1>1. PICK f : f = Flushed(m, ls, d, c)
  OBVIOUS
<1>2. f = [l \in Lines |-> f[l]]
  BY <1>1 DEF Flushed
<1>3. QED
  BY <1>1, <1>2

\* What a step that writes back leaves of a line in DDR.
LEMMA BackDdr ==
  ASSUME NEW m, NEW l, NEW ls, NEW d, ddr' = FlushedDdr(m, ls, d)
  PROVE  InDdr(l)' = DdrBack(m, l, ls, d) /\ ddr' = [w \in Words |-> ddr'[w]]
<1>1. PICK f : f = FlushedDdr(m, ls, d)
  OBVIOUS
<1>2. f = [w \in Words |-> f[w]]
  BY <1>1 DEF FlushedDdr
<1>3. WordsOf(l)' = WordsOf(l)
  BY DEF WordsOf, Words, Payload, Flags, Area
<1>4. InDdr(l)' = [w \in WordsOf(l) |-> f[w]]
  BY <1>1, <1>3 DEF InDdr
<1>5. DdrBack(m, l, ls, d) = [w \in WordsOf(l) |-> f[w]]
  BY <1>1 DEF DdrBack
<1>6. QED
  BY <1>1, <1>2, <1>4, <1>5, Zenon

LEMMA WritebackPaths ==
  ASSUME Held, NEW m \in Minions, NEW d \in 1 .. 3, NEW ls, WritebackTo(m, d, ls),
         UNCHANGED sameShire
  PROVE  /\ Held' /\ Elsewhere(m)
         /\ \A l \in Lines : Path(m, l)' = Back(m, l, ls, d)
<1>1. /\ copy' = [c \in Caches |-> Flushed(m, ls, d, c)]
      /\ ddr' = FlushedDdr(m, ls, d)
  BY DEF WritebackTo
<1>2. \A c \in Caches : copy'[c] = Flushed(m, ls, d, c)
  BY <1>1
<1>3. copy' = [c \in Caches |-> [l \in Lines |-> copy'[c][l]]]
  <2>1. \A c \in Caches : copy'[c] = [l \in Lines |-> copy'[c][l]]
    <3> SUFFICES ASSUME NEW c \in Caches PROVE copy'[c] = [l \in Lines |-> copy'[c][l]]
      OBVIOUS
    <3>1. QED
      BY <1>2, FlushedLines
  <2>2. copy' = [c \in Caches |-> copy'[c]]
    BY <1>1
  <2>3. QED
    BY <2>1, <2>2
<1>4. Elsewhere(m)
  <2> SUFFICES ASSUME NEW c \in Caches, \A k \in 0 .. 2 : c # Cache(m, k) PROVE copy'[c] = copy[c]
    BY DEF Elsewhere
  <2>1. Flushed(m, ls, d, c) = copy[c]
    BY FlushedElsewhere
  <2>2. QED
    BY <1>2, <2>1
<1>5. Held'
  BY <1>1, <1>3, <1>4, BackDdr, HeldKept
<1>6. ASSUME NEW l \in Lines PROVE Path(m, l)' = Back(m, l, ls, d)
  <2>1. PICK z : z = Back(m, l, ls, d)
    OBVIOUS
  <2>2. z = [k \in 0 .. 3 |-> z[k]]
    BY <2>1 DEF Back
  <2>3. Path(m, l)'[3] = z[3]
    <3>1. Path(m, l)'[3] = Line(InDdr(l)', FALSE)
      BY NextPathEnd
    <3>2. InDdr(l)' = DdrBack(m, l, ls, d)
      BY <1>1, BackDdr
    <3>3. z[3] = Line(DdrBack(m, l, ls, d), FALSE)
      BY <2>1, BackEnd
    <3>4. QED
      BY <3>1, <3>2, <3>3, Zenon
  <2>4. ASSUME NEW k \in 0 .. 2 PROVE Path(m, l)'[k] = z[k]
    <3>1. Path(m, l)'[k] = copy'[Cache(m, k)][l]
      BY NextPathAt
    <3>2. copy'[Cache(m, k)] = Flushed(m, ls, d, Cache(m, k))
      BY <1>2, CacheIs
    <3>3. z[k] = Flushed(m, ls, d, Cache(m, k))[l]
      BY <2>1, BackAt
    <3>4. QED
      BY <3>1, <3>2, <3>3, Zenon
  <2>5. QED
    BY <2>1, <2>2, <2>3, <2>4, NextPathDomain, PathEqual
<1>7. QED
  BY <1>4, <1>5, <1>6

LEMMA InvalidatePaths ==
  ASSUME Held, NEW m \in Minions, NEW d \in 1 .. 3, NEW ls, InvalidateTo(m, d, ls),
         UNCHANGED sameShire
  PROVE  /\ Held' /\ Elsewhere(m)
         /\ \A l \in Lines : Path(m, l)' =
              [k \in 0 .. 3 |-> IF l \in ls /\ k < d THEN None ELSE Back(m, l, ls, d)[k]]
<1>1. /\ copy' = [c \in Caches |->
                    IF \E k \in 0 .. d - 1 : c = Cache(m, k)
                    THEN [l \in Lines |-> IF l \in ls THEN None ELSE copy[c][l]]
                    ELSE Flushed(m, ls, d, c)]
      /\ ddr' = FlushedDdr(m, ls, d)
  BY DEF InvalidateTo
<1>2. \A c \in Caches :
        copy'[c] = IF \E k \in 0 .. d - 1 : c = Cache(m, k)
                   THEN [l \in Lines |-> IF l \in ls THEN None ELSE copy[c][l]]
                   ELSE Flushed(m, ls, d, c)
  BY <1>1
<1>3. copy' = [c \in Caches |-> [l \in Lines |-> copy'[c][l]]]
  <2>1. ASSUME NEW c \in Caches PROVE copy'[c] = [l \in Lines |-> copy'[c][l]]
    <3>1. CASE \E k \in 0 .. d - 1 : c = Cache(m, k)
      <4>1. copy'[c] = [l \in Lines |-> IF l \in ls THEN None ELSE copy[c][l]]
        BY <1>2, <3>1, Zenon
      <4>2. QED
        BY <4>1
    <3>2. CASE ~(\E k \in 0 .. d - 1 : c = Cache(m, k))
      <4>1. copy'[c] = Flushed(m, ls, d, c)
        BY <1>2, <3>2, Zenon
      <4>2. QED
        BY <4>1, FlushedLines
    <3>3. QED
      BY <3>1, <3>2
  <2>2. copy' = [c \in Caches |-> copy'[c]]
    BY <1>1
  <2>3. QED
    BY <2>1, <2>2
<1>4. Elsewhere(m)
  <2> SUFFICES ASSUME NEW c \in Caches, \A k \in 0 .. 2 : c # Cache(m, k) PROVE copy'[c] = copy[c]
    BY DEF Elsewhere
  <2>1. Flushed(m, ls, d, c) = copy[c]
    BY FlushedElsewhere
  <2>2. ~(\E k \in 0 .. d - 1 : c = Cache(m, k))
    OBVIOUS
  <2>3. QED
    BY <1>2, <2>1, <2>2, Zenon
<1>5. Held'
  BY <1>1, <1>3, <1>4, BackDdr, HeldKept
<1>6. ASSUME NEW l \in Lines
      PROVE  Path(m, l)' =
               [k \in 0 .. 3 |-> IF l \in ls /\ k < d THEN None ELSE Back(m, l, ls, d)[k]]
  <2>1. PICK b, z : /\ b = Back(m, l, ls, d)
                    /\ z = [k \in 0 .. 3 |-> IF l \in ls /\ k < d THEN None ELSE b[k]]
    OBVIOUS
  <2>2. z = [k \in 0 .. 3 |-> z[k]]
    BY <2>1
  <2>3. Path(m, l)'[3] = z[3]
    <3>1. Path(m, l)'[3] = Line(InDdr(l)', FALSE)
      BY NextPathEnd
    <3>2. InDdr(l)' = DdrBack(m, l, ls, d)
      BY <1>1, BackDdr
    <3>3. b[3] = Line(DdrBack(m, l, ls, d), FALSE)
      BY <2>1, BackEnd
    <3>4. z[3] = b[3]
      BY <2>1
    <3>5. QED
      BY <3>1, <3>2, <3>3, <3>4, Zenon
  <2>4. ASSUME NEW k \in 0 .. 2 PROVE Path(m, l)'[k] = z[k]
    <3>1. Path(m, l)'[k] = copy'[Cache(m, k)][l]
      BY NextPathAt
    <3>2. Cache(m, k) \in Caches
      BY CacheIs
    <3>3. z[k] = IF l \in ls /\ k < d THEN None ELSE b[k]
      BY <2>1
    <3>4. b[k] = Flushed(m, ls, d, Cache(m, k))[l]
      BY <2>1, BackAt
    <3>5. (\E i \in 0 .. d - 1 : Cache(m, k) = Cache(m, i)) <=> k < d
      <4>1. ASSUME NEW i \in 0 .. d - 1, Cache(m, k) = Cache(m, i) PROVE k = i
        <5>1. i \in 0 .. 2
          OBVIOUS
        <5>2. QED
          BY <4>1, <5>1, CachesApart DEF Held
      <4>2. \A i \in 0 .. d - 1 : i < d
        OBVIOUS
      <4>3. k < d => k \in 0 .. d - 1
        OBVIOUS
      <4>4. QED
        BY <4>1, <4>2, <4>3, Zenon
    <3>6. CASE k < d
      <4>1. copy'[Cache(m, k)] =
              [q \in Lines |-> IF q \in ls THEN None ELSE copy[Cache(m, k)][q]]
        BY <1>2, <3>2, <3>5, <3>6, Zenon
      <4>2. copy'[Cache(m, k)][l] = IF l \in ls THEN None ELSE copy[Cache(m, k)][l]
        BY <4>1, Zenon
      <4>3. l \notin ls => Flushed(m, ls, d, Cache(m, k))[l] = copy[Cache(m, k)][l]
        BY Zenon DEF Flushed
      <4>4. QED
        BY <3>1, <3>3, <3>4, <3>6, <4>2, <4>3, Zenon
    <3>7. CASE ~(k < d)
      BY <1>2, <3>1, <3>2, <3>3, <3>4, <3>5, <3>7, Zenon
    <3>8. QED
      BY <3>6, <3>7
  <2>5. Path(m, l)' = z
    BY <2>1, <2>2, <2>3, <2>4, NextPathDomain, PathEqual
  <2>6. QED
    BY <2>1, <2>5, Zenon
<1>7. QED
  BY <1>4, <1>5, <1>6

\* A table with one entry replaced.
IsTable(f, S, T) == f = [c \in S |-> [l \in T |-> f[c][l]]]
WithEntry(f, a, b, v) == [f EXCEPT ![a][b] = v]

LEMMA EntryReplaced ==
  ASSUME NEW S, NEW T, NEW f, IsTable(f, S, T), NEW a \in S, NEW b \in T,
         NEW v, NEW g, g = WithEntry(f, a, b, v)
  PROVE  /\ IsTable(g, S, T)
         /\ \A c \in S, l \in T : g[c][l] = IF c = a /\ l = b THEN v ELSE f[c][l]
         /\ \A c \in S : c # a => g[c] = f[c]
<1> DEFINE row(c) == [l \in T |-> f[c][l]]
<1>0. f = [c \in S |-> row(c)]
  BY DEF IsTable
<1>1. \A c \in S : f[c] = [l \in T |-> f[c][l]]
  BY <1>0
<1> HIDE DEF row
<1>2. DOMAIN f = S /\ f = [c \in S |-> f[c]]
  <2>1. f = [c \in S |-> f[c]]
    BY <1>0
  <2>2. QED
    BY <2>1
<1>3. g[a] = [f[a] EXCEPT ![b] = v] /\ \A c \in S : c # a => g[c] = f[c]
  BY <1>2 DEF WithEntry
<1>4. g[a] = [l \in T |-> IF l = b THEN v ELSE f[a][l]]
  BY <1>1, <1>3
<1>5. \A c \in S, l \in T : g[c][l] = IF c = a /\ l = b THEN v ELSE f[c][l]
  BY <1>3, <1>4
<1>6. \A c \in S : g[c] = [l \in T |-> g[c][l]]
  BY <1>1, <1>3, <1>4
<1>7. g = [c \in S |-> g[c]]
  BY <1>2 DEF WithEntry
<1>8. g = [c \in S |-> [l \in T |-> g[c][l]]]
  BY <1>6, <1>7
<1>9. QED
  BY <1>3, <1>5, <1>8 DEF IsTable

LEMMA ReplacePaths ==
  ASSUME Held, NEW m \in Minions, NEW k \in 0 .. 2, NEW L \in Lines, NEW D,
         D \subseteq [WordsOf(L) -> Int], IsPath(Path(m, L), D), Replace(m, k, L)
  PROVE  /\ Held' /\ Elsewhere(m)
         /\ Path(m, L)[k] # None
         /\ Path(m, L)' = Replaced(Path(m, L), k)
         /\ \A l \in Lines : l # L => Path(m, l)' = Path(m, l)
<1>1. PICK x, c, out : /\ x = Path(m, L) /\ c = Cache(m, k)
                       /\ out = [copy EXCEPT ![c][L] = None]
  OBVIOUS
<1>2. sameShire' = sameShire
  BY DEF Replace, argVars
<1>3. x[k] = copy[c][L] /\ c \in Caches
  BY <1>1, PathAt, CacheIs
<1>4. x[k] # None
  <2>1. k \in Holding(m, L, Mem)
    BY Zenon DEF Replace
  <2>2. QED
    BY <1>1, <1>3, <2>1, Zenon DEF Holding
<1>5. /\ copy' = IF Modified(x[k]) /\ k + 1 < Mem
                 THEN [out EXCEPT ![Cache(m, k + 1)][L] = x[k]] ELSE out
      /\ ddr' = [w \in Words |-> IF Modified(x[k]) /\ k + 1 = Mem /\ LineOf(w) = L
                                 THEN x[k].data[w] ELSE ddr[w]]
  <2>1. /\ copy' = IF copy[c][L].dirty /\ k + 1 < Mem
                   THEN [out EXCEPT ![Cache(m, k + 1)][L] = copy[c][L]] ELSE out
        /\ ddr' = [w \in Words |-> IF copy[c][L].dirty /\ k + 1 = Mem /\ LineOf(w) = L
                                   THEN copy[c][L].data[w] ELSE ddr[w]]
    BY <1>1, Zenon DEF Replace
  <2>2. Modified(x[k]) <=> copy[c][L].dirty
    BY <1>3, <1>4, Zenon DEF Modified
  <2>3. QED
    BY <1>3, <2>1, <2>2, Zenon
<1>6. copy = [q \in Caches |-> [l \in Lines |-> copy[q][l]]] /\ sameShire \in BOOLEAN
  BY DEF Held
<1>7. /\ IsTable(out, Caches, Lines)
      /\ \A q \in Caches, l \in Lines : out[q][l] = IF q = c /\ l = L THEN None ELSE copy[q][l]
      /\ \A q \in Caches : q # c => out[q] = copy[q]
  <2>1. PICK f : f = copy
    OBVIOUS
  <2>2. IsTable(f, Caches, Lines) /\ out = WithEntry(f, c, L, None)
    BY <1>1, <1>6, <2>1, Zenon DEF IsTable, WithEntry
  <2>3. /\ IsTable(out, Caches, Lines)
        /\ \A q \in Caches, l \in Lines : out[q][l] = IF q = c /\ l = L THEN None ELSE f[q][l]
        /\ \A q \in Caches : q # c => out[q] = f[q]
    BY <1>3, <2>2, EntryReplaced
  <2>4. QED
    BY <2>1, <2>3
<1>8. /\ IsTable(copy', Caches, Lines)
      /\ \A i \in 0 .. 2, l \in Lines :
           copy'[Cache(m, i)][l] =
             IF l # L THEN copy[Cache(m, i)][l]
             ELSE IF i = k THEN None
             ELSE IF i = k + 1 /\ Modified(x[k]) THEN x[k] ELSE copy[Cache(m, i)][l]
      /\ Elsewhere(m)
  <2>1. \A i \in 0 .. 2 : Cache(m, i) = c <=> i = k
    BY <1>1, <1>6, CachesApart
  <2>2. \A i \in 0 .. 2 : Cache(m, i) \in Caches
    BY CacheIs
  <2>3. CASE Modified(x[k]) /\ k + 1 < Mem
    <3>1. PICK c2, n : c2 = Cache(m, k + 1) /\ n = copy'
      OBVIOUS
    <3>2. k + 1 \in 0 .. 2
      BY <2>3 DEF Mem
    <3>3. c2 \in Caches /\ \A i \in 0 .. 2 : Cache(m, i) = c2 <=> i = k + 1
      BY <1>6, <2>2, <3>1, <3>2, CachesApart
    <3>4. n = WithEntry(out, c2, L, x[k])
      BY <1>5, <2>3, <3>1, Zenon DEF WithEntry
    <3>5. /\ IsTable(n, Caches, Lines)
          /\ \A q \in Caches, l \in Lines : n[q][l] = IF q = c2 /\ l = L THEN x[k] ELSE out[q][l]
          /\ \A q \in Caches : q # c2 => n[q] = out[q]
      BY <1>7, <3>3, <3>4, EntryReplaced
    <3>6. ASSUME NEW i \in 0 .. 2, NEW l \in Lines
          PROVE  n[Cache(m, i)][l] =
                   IF l # L THEN copy[Cache(m, i)][l]
                   ELSE IF i = k THEN None
                   ELSE IF i = k + 1 /\ Modified(x[k]) THEN x[k] ELSE copy[Cache(m, i)][l]
      <4>1. k # k + 1
        OBVIOUS
      <4>2. QED
        <5>1. n[Cache(m, i)][l] =
                IF Cache(m, i) = c2 /\ l = L THEN x[k] ELSE out[Cache(m, i)][l]
          BY <2>2, <3>5
        <5>2. out[Cache(m, i)][l] =
                IF Cache(m, i) = c /\ l = L THEN None ELSE copy[Cache(m, i)][l]
          BY <1>7, <2>2
        <5>3. (Cache(m, i) = c <=> i = k) /\ (Cache(m, i) = c2 <=> i = k + 1)
          BY <2>1, <3>3
        <5>4. QED
          BY <2>3, <4>1, <5>1, <5>2, <5>3
    <3>7. ASSUME NEW q \in Caches, \A i \in 0 .. 2 : q # Cache(m, i) PROVE n[q] = copy[q]
      <4>1. q # c /\ q # c2
        BY <1>1, <3>1, <3>2, <3>7, Zenon
      <4>2. QED
        BY <1>7, <3>5, <4>1
    <3>8. QED
      BY <3>1, <3>5, <3>6, <3>7 DEF Elsewhere
  <2>4. CASE ~(Modified(x[k]) /\ k + 1 < Mem)
    <3>1. copy' = out
      BY <1>5, <2>4, Zenon
    <3>2. ASSUME NEW i \in 0 .. 2, NEW l \in Lines
          PROVE  out[Cache(m, i)][l] =
                   IF l # L THEN copy[Cache(m, i)][l]
                   ELSE IF i = k THEN None
                   ELSE IF i = k + 1 /\ Modified(x[k]) THEN x[k] ELSE copy[Cache(m, i)][l]
      <4>1. i = k + 1 => k + 1 < Mem
        BY DEF Mem
      <4>2. QED
        BY <1>7, <2>1, <2>2, <2>4, <4>1, Zenon
    <3>3. ASSUME NEW q \in Caches, \A i \in 0 .. 2 : q # Cache(m, i) PROVE out[q] = copy[q]
      <4>1. q # c
        BY <1>1, <3>3, Zenon
      <4>2. QED
        BY <1>7, <4>1
    <3>4. QED
      BY <1>7, <3>1, <3>2, <3>3 DEF Elsewhere
  <2>5. QED
    BY <2>3, <2>4
<1>9. ddr' = [w \in Words |-> ddr'[w]]
  BY <1>5
<1>10. Held'
  BY <1>2, <1>8, <1>9, HeldKept DEF IsTable
<1>11. \A l : WordsOf(l)' = WordsOf(l)
  BY DEF WordsOf, Words, Payload, Flags, Area
<1>12. \A l : \A w \in WordsOf(l) : w \in Words /\ LineOf(w) = l
  BY DEF WordsOf
<1>13. ASSUME NEW l \in Lines, l # L PROVE Path(m, l)' = Path(m, l)
  <2>1. InDdr(l)' = InDdr(l)
    <3>1. \A w \in WordsOf(l) : ddr'[w] = ddr[w]
      BY <1>5, <1>12, <1>13
    <3>2. InDdr(l)' = [w \in WordsOf(l) |-> ddr'[w]]
      BY <1>11 DEF InDdr
    <3>3. InDdr(l) = [w \in WordsOf(l) |-> ddr[w]]
      BY DEF InDdr
    <3>4. QED
      BY <3>1, <3>2, <3>3
  <2>2. Path(m, l)'[3] = Path(m, l)[3]
    <3>1. Path(m, l)'[3] = Line(InDdr(l)', FALSE)
      BY NextPathEnd
    <3>2. Path(m, l)[3] = Line(InDdr(l), FALSE)
      BY PathEnd
    <3>3. QED
      BY <2>1, <3>1, <3>2, Zenon
  <2>3. ASSUME NEW i \in 0 .. 2 PROVE Path(m, l)'[i] = Path(m, l)[i]
    <3>1. Path(m, l)'[i] = copy'[Cache(m, i)][l]
      BY <1>2, NextPathAt
    <3>2. Path(m, l)[i] = copy[Cache(m, i)][l]
      BY PathAt
    <3>3. QED
      BY <1>8, <1>13, <3>1, <3>2
  <2>4. QED
    BY <2>2, <2>3, PathDomain, NextPathDomain, PathEqual
<1>14. Path(m, L)' = Replaced(x, k)
  <2>1. PICK z : z = Replaced(x, k)
    OBVIOUS
  <2>2. /\ z = [i \in 0 .. 3 |-> z[i]]
        /\ \A i \in 0 .. 3 :
             z[i] = IF i = k THEN None
                    ELSE IF i = k + 1 /\ Modified(x[k])
                         THEN (IF i < 3 THEN x[k] ELSE Line(x[k].data, FALSE)) ELSE x[i]
    BY <2>1 DEF Replaced
  <2>3. Path(m, L)'[3] = z[3]
    <3>1. Path(m, L)'[3] = Line(InDdr(L)', FALSE)
      BY NextPathEnd
    <3>2. InDdr(L)' = [w \in WordsOf(L) |-> ddr'[w]]
      BY <1>11 DEF InDdr
    <3>3. CASE Modified(x[k]) /\ k = 2
      <4>1. \A w \in WordsOf(L) : ddr'[w] = x[k].data[w]
        BY <1>5, <1>12, <3>3 DEF Mem
      <4>2. x[k].data \in [WordsOf(L) -> Int]
        <5>1. x[k] \in {None} \cup Copies(D)
          BY <1>1 DEF IsPath
        <5>2. QED
          BY <1>4, <5>1, CopyTyped
      <4>3. InDdr(L)' = x[k].data
        BY <3>2, <4>1, <4>2
      <4>4. z[3] = Line(x[k].data, FALSE)
        <5>1. 3 \in 0 .. 3 /\ 3 # k /\ 3 = k + 1 /\ ~(3 < 3)
          BY <3>3
        <5>2. QED
          BY <2>2, <3>3, <5>1, Zenon
      <4>5. QED
        BY <3>1, <4>3, <4>4, Zenon
    <3>4. CASE ~(Modified(x[k]) /\ k = 2)
      <4>1. \A w \in WordsOf(L) : ddr'[w] = ddr[w]
        <5>1. ~(Modified(x[k]) /\ k + 1 = Mem)
          BY <3>4 DEF Mem
        <5>2. QED
          BY <1>5, <1>12, <5>1, Zenon
      <4>2. InDdr(L) = [w \in WordsOf(L) |-> ddr[w]]
        BY DEF InDdr
      <4>3. InDdr(L)' = InDdr(L)
        BY <3>2, <4>1, <4>2
      <4>4. z[3] = x[3]
        <5>1. 3 \in 0 .. 3 /\ 3 # k /\ ~(3 = k + 1 /\ Modified(x[k]))
          BY <3>4
        <5>2. QED
          BY <2>2, <5>1, Zenon
      <4>5. x[3] = Line(InDdr(L), FALSE)
        BY <1>1, PathEnd
      <4>6. QED
        BY <3>1, <4>3, <4>4, <4>5, Zenon
    <3>5. QED
      BY <3>3, <3>4
  <2>4. ASSUME NEW i \in 0 .. 2 PROVE Path(m, L)'[i] = z[i]
    <3>1. Path(m, L)'[i] = copy'[Cache(m, i)][L]
      BY <1>2, NextPathAt
    <3>2. x[i] = copy[Cache(m, i)][L]
      BY <1>1, PathAt
    <3>3. i \in 0 .. 3 /\ i < 3
      OBVIOUS
    <3>4. QED
      BY <1>8, <2>2, <3>1, <3>2, <3>3, Zenon
  <2>5. QED
    BY <2>1, <2>2, <2>3, <2>4, NextPathDomain, PathEqual
<1>15. QED
  BY <1>1, <1>4, <1>8, <1>10, <1>13, <1>14

-----------------------------------------------------------------------------
(***************************************************************************)
(* What the memory operations do to the lines a Minion stores in.          *)
(***************************************************************************)
\* A flag that is about is one the Minion has stored, or of an earlier launch.
NoFuture(m, v) == v <= sent[m] \/ v <= FlagValue(0)
Data(m, l) == {v \in [WordsOf(l) -> Int] : l = FlagLine(m) => NoFuture(m, v[SendFlag(m)])}

\* No cache of either Minion has a dirty copy.
QuietBoth(m, l) == Quiet(Path(m, l), 3) /\ Quiet(Path(Peer(m), l), 3)

\* A line of Minion m: only caches on its own path have dirty copies, and while one
\* is dirty, all before it agree.
Own(m, l) ==
  /\ IsPath(Path(m, l), Data(m, l))
  /\ IsPath(Path(Peer(m), l), Data(m, l))
  /\ Quiet(Path(Peer(m), l), Shared)
  /\ QuietBoth(m, l) \/ Settled(Path(m, l), 0)
Owned == Held /\ \A m \in Minions : \A l \in OwnLines(m) : Own(m, l)

\* What a step keeps of a line that it does not store in.
Kept(m, l) ==
  /\ IsPath(Path(m, l)', Data(m, l))
  /\ IsPath(Path(Peer(m), l)', Data(m, l))
  /\ Carried(Path(m, l), Path(Peer(m), l), Shared, Path(m, l)', Path(Peer(m), l)')
AllKept == Held' /\ \A m \in Minions : \A l \in OwnLines(m) : Kept(m, l)

LEMMA Peers ==
  ASSUME NEW m \in Minions
  PROVE  Peer(m) \in Minions /\ Peer(m) # m /\ Peer(Peer(m)) = m
         /\ \A p \in Minions : p = m \/ p = Peer(m)
BY DEF Minions, Peer

LEMMA OwnIs ==
  ASSUME NEW m \in Minions, NEW l \in OwnLines(m)
  PROVE  /\ l \in Lines /\ l \notin OwnLines(Peer(m))
         /\ Data(m, l) \subseteq [WordsOf(l) -> Int]
<1>1. l \in Lines /\ l \notin OwnLines(Peer(m))
  BY LinesShared DEF Minions
<1>2. QED
  BY <1>1 DEF Data

LEMMA OwnerIs ==
  ASSUME NEW l \in Lines PROVE \E m \in Minions : l \in OwnLines(m)
BY LinesShared DEF Minions

\* A line that a step of Minion p leaves alone on its own path is left alone.
LEMMA PeerSame ==
  ASSUME Held, NEW p \in Minions, Elsewhere(p), UNCHANGED sameShire, NEW l,
         Path(p, l)' = Path(p, l)
  PROVE  Path(Peer(p), l)' = Path(Peer(p), l)
<1>1. PICK x, y, s : x = Path(p, l) /\ y = Path(Peer(p), l) /\ s = Shared
  OBVIOUS
<1>2. Path(Peer(p), l)' = Beside(y, x, s)
  <2>1. Path(Peer(p), l)' = Beside(Path(Peer(p), l), Path(p, l)', Shared)
    BY PeerPath DEF Held
  <2>2. QED
    BY <1>1, <2>1
<1>3. \A k \in 0 .. 3 : k >= s => y[k] = x[k]
  BY <1>1, PathsJoined DEF Joined
<1>4. s \in {1, 2}
  BY <1>1, SharedIs DEF Held
<1>5. PICK z : z = Beside(y, x, s)
  OBVIOUS
<1>6. /\ z = [k \in 0 .. 3 |-> z[k]]
      /\ \A k \in 0 .. 3 : z[k] = IF k < s THEN y[k] ELSE x[k]
  BY <1>5 DEF Beside
<1>7. \A k \in 0 .. 3 : z[k] = y[k]
  BY <1>3, <1>4, <1>6
<1>8. \A k \in 0 .. 2 : k \in 0 .. 3
  OBVIOUS
<1>9. y = [k \in 0 .. 3 |-> y[k]]
  BY <1>1, PathDomain
<1>10. z = y
  BY <1>6, <1>7, <1>8, <1>9, PathEqual
<1>11. QED
  BY <1>1, <1>2, <1>5, <1>10

LEMMA SameKept ==
  ASSUME Held, NEW m \in Minions, NEW l, Own(m, l), Path(m, l)' = Path(m, l),
         Path(Peer(m), l)' = Path(Peer(m), l)
  PROVE  Kept(m, l)
<1>1. Joined(Path(m, l), Path(Peer(m), l), Shared)
  BY PathsJoined
<1>2. Carried(Path(m, l), Path(Peer(m), l), Shared, Path(m, l), Path(Peer(m), l))
  BY <1>1 DEF Own, Carried
<1>3. QED
  BY <1>2 DEF Own, Kept

\* The same for the lines of either Minion.
LEMMA LeftAlone ==
  ASSUME Held, NEW p \in Minions, Elsewhere(p), UNCHANGED sameShire,
         NEW m \in Minions, NEW l, Own(m, l), Path(p, l)' = Path(p, l)
  PROVE  Kept(m, l)
<1>1. Path(Peer(p), l)' = Path(Peer(p), l)
  BY PeerSame
<1>2. Path(m, l)' = Path(m, l) /\ Path(Peer(m), l)' = Path(Peer(m), l)
  <2>1. CASE m = p
    BY <1>1, <2>1
  <2>2. CASE m = Peer(p)
    BY <1>1, <2>2, Peers
  <2>3. QED
    BY <2>1, <2>2, Peers
<1>3. QED
  BY <1>2, SameKept

LEMMA LoadKeeps ==
  ASSUME Owned, NEW p \in Minions, NEW w, LineOf(w) \in OwnLines(Peer(p)), Load(p, w),
         UNCHANGED sameShire
  PROVE  AllKept
<1>1. PICK m, L : m = Peer(p) /\ L = LineOf(w)
  OBVIOUS
<1>2. m \in Minions /\ L \in OwnLines(m) /\ L \in Lines /\ Peer(m) = p
  BY <1>1, Peers, OwnIs
<1>3. Held /\ Own(m, L)
  BY <1>2 DEF Owned
<1>4. IsPath(Path(p, L), Data(m, L))
  BY <1>2, <1>3 DEF Own
<1>5. /\ Held' /\ Elsewhere(p)
      /\ Path(p, L)' = Loaded(Path(p, L))
      /\ \A l \in Lines : l # L => Path(p, l)' = Path(p, l)
  BY <1>1, <1>2, <1>3, <1>4, LoadPaths
<1>6. Kept(m, L)
  <2>1. Path(m, L)' = Beside(Path(m, L), Path(p, L)', Shared)
    BY <1>1, <1>3, <1>5, PeerPath DEF Held
  <2>2. Joined(Path(m, L), Path(p, L), Shared)
    BY <1>2, <1>3, PathsJoined
  <2>3. IsPath(Path(m, L), Data(m, L)) /\ Quiet(Path(p, L), Shared)
    BY <1>2, <1>3 DEF Own
  <2>4. /\ IsPath(Path(m, L)', Data(m, L)) /\ IsPath(Path(p, L)', Data(m, L))
        /\ Carried(Path(m, L), Path(p, L), Shared, Path(m, L)', Path(p, L)')
    BY <1>4, <1>5, <2>1, <2>2, <2>3, LoadCarries
  <2>5. QED
    BY <1>2, <2>4 DEF Kept
<1>7. ASSUME NEW q \in Minions, NEW l \in OwnLines(q), l # L PROVE Kept(q, l)
  BY <1>3, <1>5, <1>7, OwnIs, LeftAlone DEF Owned
<1>8. ASSUME NEW q \in Minions, L \in OwnLines(q) PROVE q = m
  BY <1>2, <1>8, OwnIs, Peers
<1>9. QED
  BY <1>5, <1>6, <1>7, <1>8 DEF AllKept

\* A path stays one when its data may be more.
LEMMA PathWider ==
  ASSUME NEW x, NEW D1, NEW D2, IsPath(x, D1), Copies(D1) \subseteq Copies(D2),
         None \notin Copies(D2)
  PROVE  IsPath(x, D2)
BY DEF IsPath

\* A store settles its line at the Minion that makes it.
LEMMA StoreKeeps ==
  ASSUME Owned, NEW p \in Minions, NEW w, NEW v, NEW L, L = LineOf(w), L \in OwnLines(p),
         Store(p, w, v), UNCHANGED sameShire,
         NEW D, Data(p, L) \subseteq D, D \subseteq [WordsOf(L) -> Int],
         Put(Path(p, L), w, v) \in D
  PROVE  /\ Held'
         /\ \A m \in Minions : \A l \in OwnLines(m) : l # L => Kept(m, l)
         /\ IsPath(Path(p, L)', D) /\ IsPath(Path(Peer(p), L)', D)
         /\ Quiet(Path(Peer(p), L)', Shared)
         /\ Settled(Path(p, L)', 0)
         /\ Top(Path(p, L)') = Put(Path(p, L), w, v)
<1>1. L \in Lines
  BY OwnIs
<1>2. Held /\ Own(p, L)
  BY DEF Owned
<1>3. IsPath(Path(p, L), Data(p, L))
  BY <1>2 DEF Own
<1>4. PICK t : t = Put(Path(p, L), w, v)
  OBVIOUS
<1>5. /\ Held' /\ Elsewhere(p)
      /\ Path(p, L)' = Stored(Path(p, L), t)
      /\ \A l \in Lines : l # L => Path(p, l)' = Path(p, l)
  BY <1>1, <1>2, <1>3, <1>4, StorePaths
<1>6. None \notin Copies(D)
  BY <1>1, NoneAssumption DEF Copies
<1>7. IsPath(Path(p, L), D) /\ IsPath(Path(Peer(p), L), D)
  <2>1. Copies(Data(p, L)) \subseteq Copies(D)
    BY DEF Copies
  <2>2. QED
    BY <1>2, <1>6, <2>1, PathWider DEF Own
<1>8. Path(Peer(p), L)' = Beside(Path(Peer(p), L), Path(p, L)', Shared)
  BY <1>2, <1>5, PeerPath DEF Held
<1>9. Joined(Path(p, L), Path(Peer(p), L), Shared)
  BY <1>2, PathsJoined
<1>10. Quiet(Path(Peer(p), L), Shared)
  BY <1>2 DEF Own
<1>11. /\ IsPath(Path(p, L)', D) /\ IsPath(Path(Peer(p), L)', D)
       /\ Quiet(Path(Peer(p), L)', Shared)
       /\ Settled(Path(p, L)', 0)
       /\ Top(Path(p, L)') = t
  BY <1>4, <1>5, <1>7, <1>8, <1>9, <1>10, StoreSettles
<1>12. ASSUME NEW q \in Minions, NEW l \in OwnLines(q), l # L PROVE Kept(q, l)
  BY <1>2, <1>5, <1>12, OwnIs, LeftAlone DEF Owned
<1>13. QED
  BY <1>4, <1>5, <1>11, <1>12

\* A write-back settles lines further on; one to DDR leaves nothing dirty.
LEMMA WritebackKeeps ==
  ASSUME Owned, NEW p \in Minions, NEW d \in 1 .. 3, NEW ls, ls \subseteq OwnLines(p),
         WritebackTo(p, d, ls), UNCHANGED sameShire
  PROVE  /\ AllKept
         /\ \A l \in ls : /\ Settled(Path(p, l), 0) => Settled(Path(p, l)', d)
                          /\ d = 3 => Quiet(Path(p, l)', 3) /\ Quiet(Path(Peer(p), l)', 3)
<1>1. Held /\ \A l \in OwnLines(p) : Own(p, l)
  BY DEF Owned
<1>2. /\ Held' /\ Elsewhere(p)
      /\ \A l \in Lines : Path(p, l)' = Back(p, l, ls, d)
  BY <1>1, WritebackPaths
<1>3. ASSUME NEW l \in ls
      PROVE  /\ Kept(p, l)
             /\ Settled(Path(p, l), 0) => Settled(Path(p, l)', d)
             /\ d = 3 => Quiet(Path(p, l)', 3) /\ Quiet(Path(Peer(p), l)', 3)
  <2>1. l \in OwnLines(p) /\ l \in Lines /\ Data(p, l) \subseteq [WordsOf(l) -> Int]
    BY OwnIs
  <2>2. /\ IsPath(Path(p, l), Data(p, l)) /\ IsPath(Path(Peer(p), l), Data(p, l))
        /\ Quiet(Path(Peer(p), l), Shared)
    BY <1>1, <2>1 DEF Own
  <2>3. WrittenBack(Path(p, l), d, Path(p, l)')
    <3>1. WrittenBack(Path(p, l), d, Back(p, l, ls, d))
      BY <1>1, <2>1, <2>2, BackIs
    <3>2. QED
      BY <1>2, <2>1, <3>1
  <2>4. Path(Peer(p), l)' = Beside(Path(Peer(p), l), Path(p, l)', Shared)
    BY <1>1, <1>2, PeerPath DEF Held
  <2>5. Joined(Path(p, l), Path(Peer(p), l), Shared)
    BY <1>1, PathsJoined
  <2>6. /\ IsPath(Path(p, l)', Data(p, l)) /\ IsPath(Path(Peer(p), l)', Data(p, l))
        /\ Carried(Path(p, l), Path(Peer(p), l), Shared, Path(p, l)', Path(Peer(p), l)')
        /\ Settled(Path(p, l), 0) => Settled(Path(p, l)', d)
        /\ d = 3 => Quiet(Path(p, l)', 3) /\ Quiet(Path(Peer(p), l)', 3)
    BY <2>2, <2>3, <2>4, <2>5, BackCarries
  <2>7. QED
    BY <2>6 DEF Kept
<1>4. ASSUME NEW q \in Minions, NEW l \in OwnLines(q), l \notin ls PROVE Kept(q, l)
  <2>1. l \in Lines /\ Data(q, l) \subseteq [WordsOf(l) -> Int] /\ Own(q, l)
    BY OwnIs DEF Owned
  <2>2. IsPath(Path(p, l), Data(q, l))
    BY <2>1, Peers DEF Own
  <2>3. Back(p, l, ls, d) = Path(p, l)
    BY <1>1, <1>4, <2>1, <2>2, BackIs
  <2>4. QED
    BY <1>1, <1>2, <2>1, <2>3, LeftAlone
<1>5. ASSUME NEW q \in Minions, NEW l \in OwnLines(q) PROVE Kept(q, l)
  <2>1. l \in ls => q = p
    BY OwnIs, Peers
  <2>2. QED
    BY <1>3, <1>4, <2>1
<1>6. QED
  BY <1>2, <1>3, <1>5 DEF AllKept

\* Once its copies are gone from the caches only it uses, a Minion reads what the
\* owner of a line reads.
LEMMA InvalidateKeeps ==
  ASSUME Owned, NEW p \in Minions, NEW d \in 1 .. 3, Shared <= d,
         NEW ls, ls \subseteq OwnLines(Peer(p)),
         InvalidateTo(p, d, ls), UNCHANGED sameShire
  PROVE  /\ AllKept
         /\ \A l \in ls : Fresh(Path(Peer(p), l)', Path(p, l)', Shared)
<1>1. PICK m : m = Peer(p)
  OBVIOUS
<1>2. m \in Minions /\ Peer(m) = p
  BY <1>1, Peers
<1>3. Held /\ \A l \in OwnLines(m) : Own(m, l)
  BY <1>2 DEF Owned
<1>4. /\ Held' /\ Elsewhere(p)
      /\ \A l \in Lines : Path(p, l)' =
           [k \in 0 .. 3 |-> IF l \in ls /\ k < d THEN None ELSE Back(p, l, ls, d)[k]]
  BY <1>3, InvalidatePaths
<1>5. ASSUME NEW l \in ls PROVE Kept(m, l) /\ Fresh(Path(m, l)', Path(p, l)', Shared)
  <2>1. l \in OwnLines(m) /\ l \in Lines /\ Data(m, l) \subseteq [WordsOf(l) -> Int]
    BY <1>1, <1>2, OwnIs
  <2>2. /\ IsPath(Path(m, l), Data(m, l)) /\ IsPath(Path(p, l), Data(m, l))
        /\ Quiet(Path(p, l), Shared)
    BY <1>2, <1>3, <2>1 DEF Own
  <2>3. Dropped(Path(p, l), d, Path(p, l)')
    <3>1. PICK y, z : y = Back(p, l, ls, d) /\ z = Path(p, l)'
      OBVIOUS
    <3>2. WrittenBack(Path(p, l), d, y)
      BY <1>3, <2>1, <2>2, <3>1, BackIs
    <3>3. z = [k \in 0 .. 3 |-> IF k < d THEN None ELSE y[k]]
      BY <1>4, <2>1, <3>1
    <3>4. QED
      BY <3>1, <3>2, <3>3, Zenon DEF Dropped
  <2>4. Path(m, l)' = Beside(Path(m, l), Path(p, l)', Shared)
    BY <1>1, <1>3, <1>4, PeerPath DEF Held
  <2>5. Joined(Path(m, l), Path(p, l), Shared)
    BY <1>2, <1>3, PathsJoined
  <2>6. /\ IsPath(Path(m, l)', Data(m, l)) /\ IsPath(Path(p, l)', Data(m, l))
        /\ Carried(Path(m, l), Path(p, l), Shared, Path(m, l)', Path(p, l)')
        /\ Fresh(Path(m, l)', Path(p, l)', Shared)
    BY <2>2, <2>3, <2>4, <2>5, DropCarries
  <2>7. QED
    BY <1>2, <2>6 DEF Kept
<1>6. ASSUME NEW q \in Minions, NEW l \in OwnLines(q), l \notin ls PROVE Kept(q, l)
  <2>1. l \in Lines /\ Data(q, l) \subseteq [WordsOf(l) -> Int] /\ Own(q, l)
    BY OwnIs DEF Owned
  <2>2. IsPath(Path(p, l), Data(q, l))
    BY <2>1, Peers DEF Own
  <2>3. Path(p, l)' = Path(p, l)
    <3>1. PICK y, z : y = Back(p, l, ls, d) /\ z = Path(p, l)'
      OBVIOUS
    <3>2. y = Path(p, l)
      BY <1>3, <1>6, <2>1, <2>2, <3>1, BackIs
    <3>3. z = [k \in 0 .. 3 |-> y[k]]
      BY <1>4, <1>6, <2>1, <3>1
    <3>4. y = [k \in 0 .. 3 |-> y[k]]
      BY <3>2, PathDomain
    <3>5. QED
      BY <3>1, <3>2, <3>3, <3>4
  <2>4. QED
    BY <1>3, <1>4, <2>1, <2>3, LeftAlone
<1>7. ASSUME NEW q \in Minions, NEW l \in OwnLines(q) PROVE Kept(q, l)
  <2>1. l \in ls => q = m
    BY <1>1, <1>2, OwnIs, Peers
  <2>2. QED
    BY <1>5, <1>6, <2>1
<1>8. QED
  BY <1>1, <1>4, <1>5, <1>7 DEF AllKept

\* A shared cache replaces a line for both Minions.
LEMMA ReplaceShared ==
  ASSUME sameShire \in BOOLEAN, NEW m \in Minions, NEW k \in 0 .. 2, Shared <= k, NEW l,
         Replace(Peer(m), k, l)
  PROVE  Replace(m, k, l)
<1>1. PICK p : p = Peer(m)
  OBVIOUS
<1>2. Cache(p, k) = Cache(m, k)
  BY <1>1, CachesApart
<1>3. k + 1 < Mem => Cache(p, k + 1) = Cache(m, k + 1)
  <2>1. k + 1 < Mem => k + 1 \in 0 .. 2 /\ Shared <= k + 1
    BY SharedIs DEF Mem
  <2>2. QED
    BY <1>1, <2>1, CachesApart
<1>4. k \in Holding(p, l, Mem) <=> k \in Holding(m, l, Mem)
  BY <1>2, Zenon DEF Holding
<1>5. Replace(p, k, l)
  BY <1>1
<1>6. QED
  BY <1>2, <1>3, <1>4, <1>5, Zenon DEF Replace

LEMMA ReplaceKeeps ==
  ASSUME Owned, NEW p \in Minions, NEW k \in 0 .. Mem - 1, NEW L \in Lines, Replace(p, k, L)
  PROVE  AllKept
<1>1. PICK m \in Minions : L \in OwnLines(m)
  BY OwnerIs
<1>2. Held /\ Own(m, L) /\ k \in 0 .. 2 /\ Data(m, L) \subseteq [WordsOf(L) -> Int]
  BY <1>1, OwnIs DEF Owned, Mem
<1>3. sameShire' = sameShire
  BY DEF Replace, argVars
<1>4. /\ IsPath(Path(m, L), Data(m, L)) /\ IsPath(Path(Peer(m), L), Data(m, L))
      /\ Quiet(Path(Peer(m), L), Shared)
      /\ Joined(Path(m, L), Path(Peer(m), L), Shared)
  BY <1>1, <1>2, PathsJoined DEF Own
<1>5. IsPath(Path(p, L), Data(m, L))
  BY <1>1, <1>4, Peers
<1>6. /\ Held' /\ Elsewhere(p)
      /\ Path(p, L)[k] # None
      /\ Path(p, L)' = Replaced(Path(p, L), k)
      /\ \A l \in Lines : l # L => Path(p, l)' = Path(p, l)
  BY <1>2, <1>5, ReplacePaths
<1>7. ASSUME Replace(m, k, L) PROVE Kept(m, L)
  <2>1. /\ Elsewhere(m)
        /\ Path(m, L)[k] # None
        /\ Path(m, L)' = Replaced(Path(m, L), k)
    BY <1>1, <1>2, <1>4, <1>7, ReplacePaths
  <2>2. Path(Peer(m), L)' = Beside(Path(Peer(m), L), Path(m, L)', Shared)
    BY <1>1, <1>2, <1>3, <2>1, PeerPath DEF Held
  <2>3. QED
    BY <1>2, <1>4, <2>1, <2>2, ReplaceCarries DEF Kept
<1>8. Kept(m, L)
  <2>1. CASE p = m
    BY <1>7, <2>1
  <2>2. CASE p = Peer(m) /\ Shared <= k
    BY <1>1, <1>2, <1>7, <2>2, ReplaceShared DEF Held
  <2>3. CASE p = Peer(m) /\ k < Shared
    <3>1. PICK x, y, s, z : /\ x = Path(m, L) /\ y = Path(p, L) /\ s = Shared
                            /\ z = Path(p, L)'
      OBVIOUS
    <3>2. /\ z = Replaced(y, k) /\ Joined(x, y, s) /\ Quiet(y, s) /\ k < s /\ s \in {1, 2}
      BY <1>2, <1>4, <1>6, <2>3, <3>1, SharedIs DEF Held
    <3>3. IsPath(z, Data(m, L)) /\ Carried(x, y, s, x, z)
      BY <1>2, <1>4, <2>3, <3>1, <3>2, PeerDropCarries
    <3>4. Path(m, L)' = x
      <4>1. Path(m, L)' = Beside(x, z, s)
        <5>1. Path(Peer(p), L)' = Beside(Path(Peer(p), L), Path(p, L)', Shared)
          BY <1>2, <1>3, <1>6, PeerPath DEF Held
        <5>2. QED
          BY <1>1, <2>3, <3>1, <5>1, Peers
      <4>2. \A i \in 0 .. 3 : i >= s => z[i] = x[i]
        BY <3>3 DEF Carried, Joined
      <4>3. PICK b : b = Beside(x, z, s)
        OBVIOUS
      <4>4. /\ b = [i \in 0 .. 3 |-> b[i]]
            /\ \A i \in 0 .. 3 : b[i] = IF i < s THEN x[i] ELSE z[i]
        BY <4>3 DEF Beside
      <4>5. \A i \in 0 .. 3 : b[i] = x[i]
        BY <3>2, <4>2, <4>4
      <4>6. x = [i \in 0 .. 3 |-> x[i]]
        BY <3>1, PathDomain
      <4>7. b = x
        BY <4>4, <4>5, <4>6
      <4>8. QED
        BY <4>1, <4>3, <4>7
    <3>5. QED
      BY <1>4, <2>3, <3>1, <3>3, <3>4 DEF Kept
  <2>4. Shared <= k \/ k < Shared
    BY <1>2, SharedIs DEF Held
  <2>5. QED
    BY <1>1, <2>1, <2>2, <2>3, <2>4, Peers
<1>9. ASSUME NEW q \in Minions, NEW l \in OwnLines(q), l # L PROVE Kept(q, l)
  BY <1>2, <1>3, <1>6, <1>9, OwnIs, LeftAlone DEF Owned
<1>10. ASSUME NEW q \in Minions, L \in OwnLines(q) PROVE q = m
  BY <1>1, <1>10, OwnIs, Peers
<1>11. QED
  BY <1>6, <1>8, <1>9, <1>10 DEF AllKept

LEMMA SameKeeps ==
  ASSUME Owned, UNCHANGED <<copy, ddr, sameShire>> PROVE AllKept
<1>1. \A m, l : Path(m, l)' = Path(m, l)
  <2> SUFFICES ASSUME NEW m, NEW l PROVE Path(m, l)' = Path(m, l)
    OBVIOUS
  <2>1. \A k \in 0 .. 2 : copy'[Cache(m, k)][l] = copy[Cache(m, k)][l]
    OBVIOUS
  <2>2. QED
    BY <2>1, PathKept
<1>2. Held'
  BY DEF Owned, Held
<1>3. QED
  BY <1>1, <1>2, SameKept DEF Owned, AllKept

\* The upload puts zeros in DDR; nothing was dirty that could follow.
Zeros(l) == [w \in WordsOf(l) |-> 0]
LEMMA UploadPaths ==
  ASSUME Owned, NEW m \in Minions, NEW l \in OwnLines(m), QuietBoth(m, l),
         UNCHANGED <<copy, sameShire>>, ddr' = [w \in Words |-> 0],
         NEW D, Data(m, l) \subseteq D, D \subseteq [WordsOf(l) -> Int], Zeros(l) \in D
  PROVE  /\ IsPath(Path(m, l)', D) /\ IsPath(Path(Peer(m), l)', D)
         /\ QuietBoth(m, l)' /\ Quiet(Path(Peer(m), l)', Shared)
         /\ ddr'[SendFlag(m)] = 0
<1>1. ASSUME NEW p \in Minions, IsPath(Path(p, l), D), Quiet(Path(p, l), 3)
      PROVE  /\ IsPath(Path(p, l)', D) /\ Quiet(Path(p, l)', 3)
             /\ \A n \in {1, 2} : Quiet(Path(p, l)', n)
  <2>1. PICK x, z, n : /\ x = Path(p, l) /\ z = Path(p, l)'
                       /\ n = Uploaded(x, Zeros(l))
    OBVIOUS
  <2>2. z[3] = n[3]
    <3>1. Path(p, l)'[3] = Line(InDdr(l)', FALSE)
      BY NextPathEnd
    <3>2. InDdr(l)' = Zeros(l)
      <4>1. WordsOf(l)' = WordsOf(l)
        BY DEF WordsOf, Words, Payload, Flags, Area
      <4>2. \A w \in WordsOf(l) : w \in Words
        BY DEF WordsOf
      <4>3. InDdr(l)' = [w \in WordsOf(l) |-> ddr'[w]]
        BY <4>1 DEF InDdr
      <4>4. QED
        BY <4>2, <4>3 DEF Zeros
    <3>3. n[3] = Line(Zeros(l), FALSE)
      <4>1. 3 \in 0 .. 3
        OBVIOUS
      <4>2. QED
        BY <2>1, <4>1, Zenon DEF Uploaded
    <3>4. QED
      BY <2>1, <3>1, <3>2, <3>3, Zenon
  <2>3. \A k \in 0 .. 2 : z[k] = n[k]
    <3> SUFFICES ASSUME NEW k \in 0 .. 2 PROVE z[k] = n[k]
      OBVIOUS
    <3>1. Path(p, l)'[k] = copy'[Cache(p, k)][l]
      BY NextPathAt
    <3>2. x[k] = copy[Cache(p, k)][l]
      BY <2>1, PathAt
    <3>3. n[k] = x[k]
      <4>1. k \in 0 .. 3 /\ k # 3
        OBVIOUS
      <4>2. QED
        BY <2>1, <4>1, Zenon DEF Uploaded
    <3>4. QED
      BY <2>1, <3>1, <3>2, <3>3
  <2>4. z = n
    <3>1. n = [k \in 0 .. 3 |-> n[k]]
      BY <2>1 DEF Uploaded
    <3>2. z = [k \in 0 .. 3 |-> z[k]]
      BY <2>1, NextPathDomain
    <3>3. QED
      BY <2>2, <2>3, <3>1, <3>2, PathEqual
  <2>5. IsPath(n, D) /\ \A i \in {1, 2, 3} : Quiet(x, i) => Quiet(n, i)
    BY <1>1, <2>1, UploadQuiet
  <2>6. \A i \in {1, 2} : Quiet(x, i)
    <3>1. \A i \in {1, 2} : \A k \in 0 .. i - 1 : k \in 0 .. 3 - 1
      OBVIOUS
    <3>2. QED
      BY <1>1, <2>1, <3>1 DEF Quiet
  <2>7. QED
    BY <1>1, <2>1, <2>4, <2>5, <2>6
<1>2. IsPath(Path(m, l), D) /\ IsPath(Path(Peer(m), l), D)
  <2>1. Copies(Data(m, l)) \subseteq Copies(D)
    BY DEF Copies
  <2>2. None \notin Copies(D)
    BY OwnIs, NoneAssumption DEF Copies
  <2>3. Own(m, l)
    BY DEF Owned
  <2>4. QED
    BY <2>1, <2>2, <2>3, PathWider DEF Own
<1>3. Shared \in {1, 2}
  BY SharedIs DEF Owned, Held
<1>4. ddr'[SendFlag(m)] = 0
  BY WordPlaces DEF WordsOf
<1>5. QED
  BY <1>1, <1>2, <1>3, <1>4, Peers DEF QuietBoth

-----------------------------------------------------------------------------
(***************************************************************************)
(* The inductive invariant.                                                *)
(***************************************************************************)
At(m, l, d) == Settled(Path(m, l), d)
Val(m, l) == Top(Path(m, l))
Mirror(m, l) == Fresh(Path(m, l), Path(Peer(m), l), Shared)

\* The flag of Minion m.
FlagDepth(m) ==
  IF pc[m] = "publishflag" THEN 0 ELSE IF pc[m] = "returned" THEN 3 ELSE writebackLevel
FlagPart(m) ==
  /\ sent[m] = 0 => QuietBoth(m, FlagLine(m)) /\ ddr[SendFlag(m)] = 0
  /\ sent[m] # 0 => /\ At(m, FlagLine(m), FlagDepth(m))
                    /\ Val(m, FlagLine(m))[SendFlag(m)] = sent[m]
  /\ pc[m] = "returned" => QuietBoth(m, FlagLine(m))

\* The payload of Minion m: word k is that of iteration i.
Value(m, i, k) == IF m = "ping" THEN PayloadWord(i, k) ELSE Not(PayloadWord(i, k))
Shows(m, i, k, d) ==
  LET w == SendData(m) + k IN
  Val(m, LineOf(w))[w] = Value(m, i, k) /\ At(m, LineOf(w), d)

Writing(m) == pc[m] = "fill" \/ (m = "pong" /\ pc[m] \in {"read", "echo"})
DataDepth(m) == IF pc[m] \in {"retireflag", "returned"} THEN 3 ELSE writebackLevel
DataPart(m) ==
  /\ Writing(m) => \A k \in 0 .. word[m] - 1 : Shows(m, iteration[m], k, 0)
  /\ pc[m] = "publish" => \A k \in 0 .. PayloadWords - 1 : Shows(m, iteration[m], k, 0)
  /\ pc[m] = "flag" =>
       \A k \in 0 .. PayloadWords - 1 : Shows(m, iteration[m], k, writebackLevel)
  /\ ~Writing(m) /\ pc[m] \notin {"publish", "flag"} =>
       \A i \in 1 .. Iterations : sent[m] = FlagValue(i) =>
         \A k \in 0 .. PayloadWords - 1 : Shows(m, i, k, DataDepth(m))
  /\ pc[m] \in {"enter", "retireflag", "returned"} => \A l \in DataLines(m) : QuietBoth(m, l)

\* What the peer of Minion m reads of its payload.
Reading(m) == pc[m] = "read" \/ pc[m] = "echo"
ReadPart(m) == Reading(Peer(m)) => \A l \in DataLines(m) : Mirror(m, l)

\* The kernel accepted its levels: at both, the Minions share what they reach.
Accepted ==
  \A m \in Minions :
    pc[m] \notin {"enter", "returned"} \/ sent[m] # 0 =>
      writebackLevel \in Shared .. 3 /\ invalidateLevel \in Shared .. 3

\* The ping Minion has sent flag a, the pong Minion flag b.
Sent(m, i) == sent[m] = IF i = 0 THEN 0 ELSE FlagValue(i)
PingAt(a, b) ==
  LET at == pc["ping"]  i == iteration["ping"] IN
  /\ at # "echo"
  /\ at = "enter" => a = 0 /\ i = 0
  /\ at \in {"fill", "publish", "flag"} => i = a + 1 /\ b = a /\ i <= Iterations
  /\ at \in {"publishflag", "poll", "look", "refresh", "read", "complete"} => i = a /\ a > 0
  /\ at \in {"refresh", "read", "complete"} => b = a
  /\ at \in {"fill", "read"} => word["ping"] < PayloadWords
  /\ at \in {"publish", "flag", "publishflag", "poll", "look", "refresh"} => word["ping"] = 0
  /\ at = "refresh" => PayloadWords > 0
  /\ completed["ping"] <= b
PongAt(a, b) ==
  LET at == pc["pong"]  j == iteration["pong"] IN
  /\ at \notin {"fill", "complete"}
  /\ at = "enter" => b = 0 /\ j = 0
  /\ at \in {"poll", "look", "refresh", "read", "echo", "publish", "flag"} =>
       j = b + 1 /\ j <= Iterations
  /\ at \in {"refresh", "read", "echo", "publish", "flag"} => a = j
  /\ at = "publishflag" => j = b /\ b > 0
  /\ at \in {"read", "echo"} => word["pong"] < PayloadWords
  /\ at \in {"poll", "look", "refresh"} => word["pong"] = 0
  /\ at = "refresh" => PayloadWords > 0
  /\ at = "echo" => register = PayloadWord(j, word["pong"])
  /\ completed["pong"] <= b
StepsAt(a, b) ==
  /\ Sent("ping", a) /\ Sent("pong", b) /\ b <= a /\ a <= b + 1
  /\ PingAt(a, b) /\ PongAt(a, b)
Steps == \E a, b \in 0 .. Iterations : StepsAt(a, b)

Labels ==
  {"enter", "fill", "publish", "flag", "publishflag", "poll", "look", "refresh",
   "read", "echo", "complete", "retire", "retireflag", "returned"}
\* `TypeOK` but for what `Owned` says of the caches and of DDR.
Scalars ==
  /\ replaced \in 0 .. MaxReplacements
  /\ epoch \in 0 .. MaxEpochs
  /\ <<writebackLevel, invalidateLevel>> \in Levels \cup {<<Mem, Mem>>}
  /\ pc \in [Minions -> Labels]
  /\ iteration \in [Minions -> 0 .. Iterations + 1]
  /\ word \in [Minions -> 0 .. PayloadWords]
  /\ register \in Int
  /\ sent \in [Minions -> Nat]
  /\ errors \in [Minions -> Nat]
  /\ completed \in [Minions -> 0 .. Iterations]
  /\ status \in [Minions -> {"none", "ok", "timeout", "bad arguments"}]

Control == Scalars /\ Accepted /\ Steps /\ PayloadFresh
Contents == \A m \in Minions : FlagPart(m) /\ DataPart(m) /\ ReadPart(m)
IInv == Control /\ Owned /\ Contents

-----------------------------------------------------------------------------
(***************************************************************************)
(* What the memory operations keep of it.                                  *)
(***************************************************************************)
\* What may be in the lines of a Minion only grows.
Grows(m) == \A v \in Int : NoFuture(m, v) => NoFuture(m, v)'

LEMMA DataGrows ==
  ASSUME NEW m \in Minions, NEW l \in OwnLines(m), Grows(m)
  PROVE  Data(m, l) \subseteq Data(m, l)' /\ Data(m, l)' \subseteq [WordsOf(l) -> Int]
<1>1. WordsOf(l)' = WordsOf(l) /\ FlagLine(m)' = FlagLine(m) /\ SendFlag(m)' = SendFlag(m)
  BY DEF WordsOf, Words, Payload, Flags, Area, FlagLine, SendFlag
<1>2. Data(m, l)' =
        {v \in [WordsOf(l) -> Int] : l = FlagLine(m) => NoFuture(m, v[SendFlag(m)])'}
  BY <1>1 DEF Data
<1>3. \A v \in [WordsOf(l) -> Int] : l = FlagLine(m) => v[SendFlag(m)] \in Int
  BY WordPlaces
<1>4. QED
  BY <1>2, <1>3 DEF Data, Grows

LEMMA LineKept ==
  ASSUME NEW m \in Minions, NEW l \in OwnLines(m), Own(m, l), Kept(m, l), Grows(m),
         UNCHANGED sameShire
  PROVE  Own(m, l)'
<1>1. PICK D : D = Data(m, l)'
  OBVIOUS
<1>2. Data(m, l) \subseteq D /\ D \subseteq [WordsOf(l) -> Int]
  BY <1>1, DataGrows
<1>3. Copies(Data(m, l)) \subseteq Copies(D) /\ None \notin Copies(D)
  BY <1>2, OwnIs, NoneAssumption DEF Copies
<1>4. IsPath(Path(m, l)', D) /\ IsPath(Path(Peer(m), l)', D)
  BY <1>3, PathWider DEF Kept
<1>5. Quiet(Path(Peer(m), l)', Shared)
  BY DEF Kept, Carried
<1>6. QuietBoth(m, l)' \/ Settled(Path(m, l)', 0)
  <2>1. QuietBoth(m, l) \/ Settled(Path(m, l), 0)
    BY DEF Own
  <2>2. 0 \in 0 .. 3
    OBVIOUS
  <2>3. QED
    BY <2>1, <2>2 DEF Kept, Carried, QuietBoth
<1>7. Shared' = Shared
  BY DEF Shared
<1>8. QED
  BY <1>1, <1>4, <1>5, <1>6, <1>7 DEF Own

LEMMA OwnedKept ==
  ASSUME Owned, AllKept, UNCHANGED sameShire, \A m \in Minions : Grows(m)
  PROVE  Owned'
<1>1. \A m \in Minions : OwnLines(m)' = OwnLines(m)
  BY DEF OwnLines, FlagLine, DataLines
<1>2. \A m \in Minions : \A l \in OwnLines(m) : Own(m, l)'
  BY LineKept DEF Owned, AllKept
<1>3. QED
  BY <1>1, <1>2 DEF Owned, AllKept

LEMMA SameGrows ==
  ASSUME UNCHANGED <<sent, epoch>>, NEW m PROVE Grows(m)
BY DEF Grows, NoFuture, FlagValue

LEMMA FlagInDdr ==
  ASSUME NEW m \in Minions
  PROVE  /\ ddr[SendFlag(m)] = Path(m, FlagLine(m))[3].data[SendFlag(m)]
         /\ ddr'[SendFlag(m)] = Path(m, FlagLine(m))'[3].data[SendFlag(m)]
<1>1. PICK l, w : l = FlagLine(m) /\ w = SendFlag(m)
  OBVIOUS
<1>2. w \in WordsOf(l)
  BY <1>1, WordPlaces
<1>3. WordsOf(l)' = WordsOf(l)
  BY DEF WordsOf, Words, Payload, Flags, Area
<1>4. InDdr(l)[w] = ddr[w] /\ InDdr(l)'[w] = ddr'[w]
  BY <1>2, <1>3 DEF InDdr
<1>5. \A d : Line(d, FALSE).data = d
  BY DEF Line
<1>6. Path(m, l)[3].data = InDdr(l)
  <2>1. Path(m, l)[3] = Line(InDdr(l), FALSE)
    BY PathEnd
  <2>2. QED
    BY <1>5, <2>1
<1>7. Path(m, l)'[3].data = InDdr(l)'
  <2>1. Path(m, l)'[3] = Line(InDdr(l)', FALSE)
    BY NextPathEnd
  <2>2. QED
    BY <1>5, <2>1
<1>8. QED
  BY <1>1, <1>4, <1>6, <1>7

\* A line that is kept keeps what is known of it.
LEMMA KeptFacts ==
  ASSUME NEW m \in Minions, NEW l, Kept(m, l), UNCHANGED sameShire
  PROVE  /\ QuietBoth(m, l) => QuietBoth(m, l)'
         /\ \A d \in 0 .. 3 : At(m, l, d) => At(m, l, d)' /\ Val(m, l)' = Val(m, l)
         /\ At(m, l, Shared) /\ Mirror(m, l) => Mirror(m, l)'
<1>1. Shared' = Shared
  BY DEF Shared
<1>2. QED
  BY <1>1 DEF Kept, Carried, QuietBoth, At, Val, Mirror

LEMMA FlagKept ==
  ASSUME NEW m \in Minions, Kept(m, FlagLine(m)), QuietBoth(m, FlagLine(m))
  PROVE  ddr'[SendFlag(m)] = ddr[SendFlag(m)]
<1>1. Path(m, FlagLine(m))'[3] = Path(m, FlagLine(m))[3]
  BY DEF Kept, Carried, QuietBoth
<1>2. QED
  BY <1>1, FlagInDdr

\* The word is on a line that is kept.
LEMMA WordKept ==
  ASSUME NEW m \in Minions, NEW k \in 0 .. PayloadWords - 1, Kept(m, LineOf(SendData(m) + k)),
         UNCHANGED <<sameShire, epoch>>, NEW i, NEW d \in 0 .. 3, Shows(m, i, k, d)
  PROVE  Shows(m, i, k, d)'
<1>1. PICK w, l : w = SendData(m) + k /\ l = LineOf(w)
  OBVIOUS
<1>2. w' = w /\ l' = l
  OBVIOUS
<1>3. At(m, l, d) /\ Val(m, l)[w] = Value(m, i, k)
  BY <1>1 DEF Shows
<1>4. At(m, l, d)' /\ Val(m, l)' = Val(m, l)
  BY <1>1, <1>3, KeptFacts
<1>5. Value(m, i, k)' = Value(m, i, k)
  BY DEF Value, PayloadWord, FlagValue, Not
<1>6. Val(m, l)'[w] = Value(m, i, k)' /\ At(m, l, d)'
  BY <1>3, <1>4, <1>5
<1>7. (SendData(m) + k)' = w /\ LineOf(SendData(m) + k)' = l
  BY <1>1 DEF LineOf, SendData, ReplyData, ForwardData, NextLine
<1>8. QED
  BY <1>1, <1>6, <1>7 DEF Shows

FlagCarries(m) ==
  /\ QuietBoth(m, FlagLine(m)) =>
       QuietBoth(m, FlagLine(m))' /\ ddr'[SendFlag(m)] = ddr[SendFlag(m)]
  /\ \A d \in 0 .. 3 : At(m, FlagLine(m), d) =>
       At(m, FlagLine(m), d)' /\ Val(m, FlagLine(m))' = Val(m, FlagLine(m))
WordsCarry(m) ==
  \A k \in 0 .. PayloadWords - 1, i \in Int, d \in 0 .. 3 : Shows(m, i, k, d) => Shows(m, i, k, d)'
DataCarries(m) ==
  /\ WordsCarry(m)
  /\ \A l \in DataLines(m) : QuietBoth(m, l) => QuietBoth(m, l)'

LEMMA Carries ==
  ASSUME NEW m \in Minions, UNCHANGED <<sameShire, epoch>>
  PROVE  /\ Kept(m, FlagLine(m)) => FlagCarries(m)
         /\ (\A l \in DataLines(m) : Kept(m, l)) => DataCarries(m)
<1>1. ASSUME Kept(m, FlagLine(m)) PROVE FlagCarries(m)
  <2>1. FlagLine(m)' = FlagLine(m)
    BY DEF FlagLine
  <2>2. PICK l : l = FlagLine(m)
    OBVIOUS
  <2>3. /\ QuietBoth(m, l) => QuietBoth(m, l)'
        /\ \A d \in 0 .. 3 : At(m, l, d) => At(m, l, d)' /\ Val(m, l)' = Val(m, l)
    BY <1>1, <2>2, KeptFacts
  <2>4. QED
    BY <1>1, <2>1, <2>2, <2>3, FlagKept DEF FlagCarries
<1>2. ASSUME \A l \in DataLines(m) : Kept(m, l) PROVE DataCarries(m)
  <2>1. WordsCarry(m)
    BY <1>2, WordPlaces, WordKept DEF WordsCarry
  <2>2. \A l \in DataLines(m) : QuietBoth(m, l) => QuietBoth(m, l)'
    BY <1>2, KeptFacts
  <2>3. QED
    BY <2>1, <2>2 DEF DataCarries
<1>3. QED
  BY <1>1, <1>2

\* Values of a launch are told apart.
LEMMA FlagValues ==
  ASSUME epoch \in Nat
  PROVE  /\ FlagValue(0) \in Nat
         /\ \A i \in Int : FlagValue(i) = FlagValue(0) + i
         /\ \A i \in Int, k \in Int : PayloadWord(i, k) \in Int
<1>1. epoch * (Iterations + 1) \in Nat
  BY ChannelAssumption
<1>2. FlagValue(0) \in Nat /\ \A i \in Int : FlagValue(i) = FlagValue(0) + i
  BY <1>1 DEF FlagValue
<1>3. ASSUME NEW i \in Int, NEW k \in Int PROVE PayloadWord(i, k) \in Int
  <2>1. FlagValue(i) \in Int
    BY <1>2, <1>3
  <2>2. FlagValue(i) * (PayloadWords + 1) \in Int
    BY <2>1, ChannelAssumption
  <2>3. QED
    BY <1>3, <2>2, ChannelAssumption DEF PayloadWord
<1>4. QED
  BY <1>2, <1>3

\* The types of what belongs to one Minion.
LEMMA Typed ==
  ASSUME Scalars, NEW m \in Minions
  PROVE  /\ epoch \in Nat
         /\ sent[m] \in Nat
         /\ iteration[m] \in 0 .. Iterations + 1 /\ iteration[m] \in Int
         /\ word[m] \in 0 .. PayloadWords
         /\ completed[m] \in 0 .. Iterations
         /\ errors[m] \in Nat
<1>1. epoch \in Nat /\ sent[m] \in Nat /\ errors[m] \in Nat
  <2>1. epoch \in 0 .. MaxEpochs /\ sent[m] \in Nat /\ errors[m] \in Nat
    BY Zenon DEF Scalars
  <2>2. QED
    BY <2>1
<1>2. iteration[m] \in 0 .. Iterations + 1
  BY Zenon DEF Scalars
<1>3. word[m] \in 0 .. PayloadWords /\ completed[m] \in 0 .. Iterations
  BY Zenon DEF Scalars
<1>4. QED
  BY <1>1, <1>2, <1>3

\* The Minions have sent flags of this launch, none of zero.
LEMMA SentIs ==
  ASSUME Scalars, NEW m \in Minions, NEW i \in 0 .. Iterations, Sent(m, i)
  PROVE  /\ sent[m] = 0 <=> i = 0
         /\ \A j \in 1 .. Iterations : sent[m] = FlagValue(j) <=> i = j
         /\ sent[m] <= FlagValue(0) + i
<1>1. PICK V \in Nat : V = FlagValue(0) /\ \A j \in Int : FlagValue(j) = V + j
  BY Typed, FlagValues
<1>2. i # 0 => sent[m] = V + i
  BY <1>1 DEF Sent
<1>3. i = 0 => sent[m] = 0
  BY DEF Sent
<1>4. \A j \in 1 .. Iterations : FlagValue(j) = V + j /\ V + j # 0
  BY <1>1
<1>5. QED
  BY <1>1, <1>2, <1>3, <1>4

LEMMA DepthIs ==
  ASSUME Control, NEW m \in Minions, pc[m] \notin {"enter", "returned"} \/ sent[m] # 0
  PROVE  /\ writebackLevel \in 1 .. 3 /\ invalidateLevel \in 1 .. 3
         /\ writebackLevel \in 0 .. 3
         /\ FlagDepth(m) \in 0 .. 3 /\ DataDepth(m) \in 0 .. 3
         /\ sameShire \in BOOLEAN =>
              Shared <= writebackLevel /\ Shared <= invalidateLevel /\ Shared \in 0 .. 3
<1>1. writebackLevel \in Shared .. 3 /\ invalidateLevel \in Shared .. 3
  BY DEF Control, Accepted
<1>2. Shared = 1 \/ Shared = 2
  BY DEF Shared
<1>3. writebackLevel \in 1 .. 3 /\ invalidateLevel \in 1 .. 3 /\ writebackLevel \in 0 .. 3
  BY <1>1, <1>2
<1>4. QED
  BY <1>1, <1>2, <1>3 DEF FlagDepth, DataDepth

\* A Minion whose lines and registers do not change.
LEMMA PartKept ==
  ASSUME Control, NEW m \in Minions, FlagPart(m), DataPart(m), FlagCarries(m), DataCarries(m),
         UNCHANGED argVars, sent'[m] = sent[m], pc'[m] = pc[m], word'[m] = word[m],
         iteration'[m] = iteration[m]
  PROVE  FlagPart(m)' /\ DataPart(m)'
<1>1. FlagPart(m)'
  <2>1. FlagDepth(m)' = FlagDepth(m)
    BY DEF FlagDepth, argVars
  <2>2. FlagLine(m)' = FlagLine(m)
    BY DEF FlagLine
  <2>3. ASSUME sent[m] # 0
        PROVE  At(m, FlagLine(m), FlagDepth(m))' /\ Val(m, FlagLine(m))'[SendFlag(m)] = sent[m]
    <3>1. PICK d : d = FlagDepth(m)
      OBVIOUS
    <3>2. d \in 0 .. 3
      BY <2>3, <3>1, DepthIs
    <3>3. At(m, FlagLine(m), d)' /\ Val(m, FlagLine(m))' = Val(m, FlagLine(m))
      BY <2>3, <3>1, <3>2 DEF FlagPart, FlagCarries
    <3>4. Val(m, FlagLine(m))[SendFlag(m)] = sent[m]
      BY <2>3 DEF FlagPart
    <3>5. d = FlagDepth(m)'
      BY <2>1, <3>1
    <3>6. QED
      BY <3>3, <3>4, <3>5
  <2>4. QED
    BY <2>3 DEF FlagPart, FlagCarries
<1>2. DataPart(m)'
  <2>1. DataDepth(m)' = DataDepth(m) /\ (Writing(m) <=> Writing(m)')
        /\ writebackLevel' = writebackLevel
    BY DEF DataDepth, Writing, argVars
  <2>2. /\ iteration[m] \in Int /\ word[m] \in 0 .. PayloadWords
        /\ 0 \in 0 .. 3
    BY Typed DEF Control
  <2>3. \A i : FlagValue(i)' = FlagValue(i)
    BY DEF FlagValue, argVars
  <2>4. ASSUME Writing(m), NEW k \in 0 .. word[m] - 1 PROVE Shows(m, iteration[m], k, 0)'
    <3>1. PICK i : i = iteration[m]
      OBVIOUS
    <3>2. Shows(m, i, k, 0)
      BY <2>4, <3>1 DEF DataPart
    <3>3. k \in 0 .. PayloadWords - 1
      BY <2>2, ChannelAssumption
    <3>4. Shows(m, i, k, 0)'
      BY <2>2, <3>1, <3>2, <3>3 DEF DataCarries, WordsCarry
    <3>5. i = iteration'[m]
      BY <3>1
    <3>6. QED
      BY <3>4, <3>5
  <2>5. ASSUME pc[m] = "publish", NEW k \in 0 .. PayloadWords - 1
        PROVE  Shows(m, iteration[m], k, 0)'
    <3>1. PICK i : i = iteration[m]
      OBVIOUS
    <3>2. Shows(m, i, k, 0)
      BY <2>5, <3>1 DEF DataPart
    <3>3. Shows(m, i, k, 0)'
      BY <2>2, <3>1, <3>2 DEF DataCarries, WordsCarry
    <3>4. i = iteration'[m]
      BY <3>1
    <3>5. QED
      BY <3>3, <3>4
  <2>6. ASSUME pc[m] = "flag", NEW k \in 0 .. PayloadWords - 1
        PROVE  Shows(m, iteration[m], k, writebackLevel)'
    <3>1. PICK i, d : i = iteration[m] /\ d = writebackLevel
      OBVIOUS
    <3>2. Shows(m, i, k, d) /\ d \in 0 .. 3
      BY <2>6, <3>1, DepthIs DEF DataPart
    <3>3. Shows(m, i, k, d)'
      BY <2>2, <3>1, <3>2 DEF DataCarries, WordsCarry
    <3>4. i = iteration'[m] /\ d = writebackLevel'
      BY <2>1, <3>1
    <3>5. QED
      BY <3>3, <3>4
  <2>7. ASSUME ~Writing(m), pc[m] \notin {"publish", "flag"}, NEW i \in 1 .. Iterations,
               sent[m] = FlagValue(i), NEW k \in 0 .. PayloadWords - 1
        PROVE  Shows(m, i, k, DataDepth(m))'
    <3>1. PICK d : d = DataDepth(m)
      OBVIOUS
    <3>2. Shows(m, i, k, d)
      BY <2>7, <3>1 DEF DataPart
    <3>3. d \in 0 .. 3
      <4>1. sent[m] # 0
        <5>1. PICK V \in Nat : \A j \in Int : FlagValue(j) = V + j
          BY Typed, FlagValues DEF Control
        <5>2. QED
          BY <2>7, <5>1
      <4>2. QED
        BY <3>1, <4>1, DepthIs
    <3>4. Shows(m, i, k, d)'
      BY <3>2, <3>3 DEF DataCarries, WordsCarry
    <3>5. d = DataDepth(m)'
      BY <2>1, <3>1
    <3>6. QED
      BY <3>4, <3>5
  <2>8. ASSUME pc[m] \in {"enter", "retireflag", "returned"}, NEW l \in DataLines(m)
        PROVE  QuietBoth(m, l)'
    BY <2>8 DEF DataPart, DataCarries
  <2>9. DataLines(m)' = DataLines(m)
    BY DEF DataLines
  <2>10. QED
    BY <2>1, <2>3, <2>4, <2>5, <2>6, <2>7, <2>8, <2>9 DEF DataPart
<1>3. QED
  BY <1>1, <1>2

LEMMA WordOf ==
  ASSUME NEW m \in Minions, NEW l \in DataLines(m)
  PROVE  \E k \in 0 .. PayloadWords - 1 : l = LineOf(SendData(m) + k)
<1>1. PICK s : s = SendData(m) /\ s \in Int
  BY WordPlaces
<1>2. PICK w \in s .. s + PayloadWords - 1 : l = LineOf(w)
  BY <1>1 DEF DataLines, LinesOf, Area
<1>3. w - s \in 0 .. PayloadWords - 1 /\ s + (w - s) = w
  BY <1>1, ChannelAssumption
<1>4. QED
  BY <1>1, <1>2, <1>3

\* While a Minion reads, its peer has sent the iteration that it reads, and waits.
LEMMA WhenRead ==
  ASSUME Control, NEW m \in Minions, Reading(Peer(m))
  PROVE  /\ iteration[Peer(m)] \in 1 .. Iterations
         /\ sent[m] = FlagValue(iteration[Peer(m)])
         /\ ~Writing(m) /\ pc[m] \notin {"publish", "flag"}
<1>1. PICK a \in 0 .. Iterations, b \in 0 .. Iterations : StepsAt(a, b)
  BY DEF Control, Steps
<1>2. CASE m = "ping"
  <2>1. pc["pong"] \in {"read", "echo"}
    BY <1>2 DEF Reading, Peer
  <2>2. iteration["pong"] = b + 1 /\ a = iteration["pong"]
    BY <1>1, <2>1 DEF StepsAt, PongAt
  <2>3. pc["ping"] \notin {"fill", "publish", "flag"}
    BY <1>1, <2>2 DEF StepsAt, PingAt
  <2>4. sent["ping"] = FlagValue(a)
    BY <1>1, <2>2 DEF StepsAt, Sent
  <2>5. QED
    BY <1>2, <2>2, <2>3, <2>4 DEF Writing, Peer
<1>3. CASE m = "pong"
  <2>1. pc["ping"] = "read"
    BY <1>1, <1>3 DEF Reading, Peer, StepsAt, PingAt
  <2>2. iteration["ping"] = a /\ a > 0 /\ b = a
    BY <1>1, <2>1 DEF StepsAt, PingAt
  <2>3. pc["pong"] \notin {"read", "echo", "publish", "flag", "fill"}
    BY <1>1, <2>2 DEF StepsAt, PongAt
  <2>4. sent["pong"] = FlagValue(a)
    BY <1>1, <2>2 DEF StepsAt, Sent
  <2>5. QED
    BY <1>3, <2>2, <2>3, <2>4 DEF Writing, Peer
<1>4. QED
  BY <1>2, <1>3 DEF Minions

LEMMA ShownWhenRead ==
  ASSUME Control, NEW m \in Minions, Reading(Peer(m)), DataPart(m), sameShire \in BOOLEAN
  PROVE  /\ \A k \in 0 .. PayloadWords - 1 : Shows(m, iteration[Peer(m)], k, DataDepth(m))
         /\ \A l \in DataLines(m) : At(m, l, Shared)
<1>1. PICK i : i = iteration[Peer(m)]
  OBVIOUS
<1>2. /\ i \in 1 .. Iterations /\ sent[m] = FlagValue(i)
      /\ ~Writing(m) /\ pc[m] \notin {"publish", "flag"}
  BY <1>1, WhenRead
<1>3. \A k \in 0 .. PayloadWords - 1 : Shows(m, i, k, DataDepth(m))
  BY <1>2 DEF DataPart
<1>4. sent[m] # 0
  <2>1. PICK V \in Nat : \A j \in Int : FlagValue(j) = V + j
    BY Typed, FlagValues DEF Control
  <2>2. QED
    BY <1>2, <2>1
<1>5. /\ Shared \in 0 .. 3 /\ DataDepth(m) \in 0 .. 3
      /\ Shared <= DataDepth(m)
  BY <1>4, DepthIs DEF DataDepth
<1>6. ASSUME NEW l \in DataLines(m) PROVE At(m, l, Shared)
  <2>1. PICK k \in 0 .. PayloadWords - 1 : l = LineOf(SendData(m) + k)
    BY WordOf
  <2>2. At(m, l, DataDepth(m))
    BY <1>3, <2>1 DEF Shows
  <2>3. QED
    BY <1>5, <2>2, SettledNearer DEF At
<1>7. QED
  BY <1>1, <1>3, <1>6

LEMMA FlagOwned ==
  ASSUME NEW m \in Minions
  PROVE FlagLine(m) \in OwnLines(m) /\ DataLines(m) \subseteq OwnLines(m)
BY DEF OwnLines

LEMMA MirrorKept ==
  ASSUME IInv, NEW m \in Minions, \A l \in DataLines(m) : Kept(m, l), UNCHANGED sameShire,
         Reading(Peer(m)), NEW l \in DataLines(m)
  PROVE  Mirror(m, l)'
<1>1. At(m, l, Shared)
  BY ShownWhenRead DEF IInv, Contents, Owned, Held
<1>2. Mirror(m, l)
  BY DEF IInv, Contents, ReadPart
<1>3. QED
  BY <1>1, <1>2, KeptFacts

\* A step of Minion p that stores nothing.
LEMMA QuietStep ==
  ASSUME IInv, NEW p \in Minions, AllKept, UNCHANGED <<argVars, sent>>,
         pc'[Peer(p)] = pc[Peer(p)], word'[Peer(p)] = word[Peer(p)],
         iteration'[Peer(p)] = iteration[Peer(p)]
  PROVE  /\ Owned'
         /\ FlagPart(p) /\ DataPart(p) /\ FlagCarries(p) /\ DataCarries(p)
         /\ FlagPart(Peer(p))' /\ DataPart(Peer(p))' /\ ReadPart(p)'
         /\ Reading(p) => \A l \in DataLines(Peer(p)) : Mirror(Peer(p), l)'
<1>1. UNCHANGED <<sameShire, epoch>>
  BY DEF argVars
<1>2. Owned'
  BY <1>1, OwnedKept, SameGrows DEF IInv
<1>3. ASSUME NEW m \in Minions PROVE FlagCarries(m) /\ DataCarries(m) /\ FlagPart(m) /\ DataPart(m)
  BY <1>1, Carries, FlagOwned DEF AllKept, IInv, Contents
<1>4. Peer(p) \in Minions /\ Peer(Peer(p)) = p
  BY Peers
<1>5. FlagPart(Peer(p))' /\ DataPart(Peer(p))'
  BY <1>3, <1>4, PartKept DEF IInv
<1>6. ASSUME NEW m \in Minions, Reading(Peer(m)), NEW l \in DataLines(m) PROVE Mirror(m, l)'
  BY <1>1, <1>6, MirrorKept, FlagOwned DEF AllKept
<1>7. ReadPart(p)'
  <2>1. Reading(Peer(p))' <=> Reading(Peer(p))
    BY DEF Reading
  <2>2. DataLines(p)' = DataLines(p)
    BY DEF DataLines
  <2>3. QED
    BY <1>6, <2>1, <2>2 DEF ReadPart
<1>8. QED
  BY <1>2, <1>3, <1>4, <1>5, <1>6, <1>7

\* The parts of a Minion that moves on.
LEMMA FlagNext ==
  ASSUME Control, NEW m \in Minions, FlagPart(m), FlagCarries(m), sent'[m] = sent[m],
         sent[m] # 0 => At(m, FlagLine(m), FlagDepth(m))',
         pc'[m] = "returned" => QuietBoth(m, FlagLine(m))'
  PROVE  FlagPart(m)'
<1>1. FlagLine(m)' = FlagLine(m)
  BY DEF FlagLine
<1>2. ASSUME sent[m] # 0 PROVE Val(m, FlagLine(m))'[SendFlag(m)] = sent[m]
  <2>1. FlagDepth(m) \in 0 .. 3
    BY <1>2, DepthIs
  <2>2. Val(m, FlagLine(m))' = Val(m, FlagLine(m))
    BY <1>2, <2>1 DEF FlagPart, FlagCarries
  <2>3. QED
    BY <1>2, <2>2 DEF FlagPart
<1>3. QED
  BY <1>2 DEF FlagPart, FlagCarries

LEMMA FlagStays ==
  ASSUME Control, NEW m \in Minions, FlagPart(m), FlagCarries(m), UNCHANGED argVars,
         sent'[m] = sent[m], pc[m] \notin {"publishflag", "returned"},
         pc'[m] \notin {"publishflag", "returned"}
  PROVE  FlagPart(m)'
<1>1. ASSUME sent[m] # 0 PROVE At(m, FlagLine(m), FlagDepth(m))'
  <2>1. PICK d : d = FlagDepth(m)
    OBVIOUS
  <2>2. d \in 0 .. 3
    BY <1>1, <2>1, DepthIs
  <2>3. At(m, FlagLine(m), d)'
    BY <1>1, <2>1, <2>2 DEF FlagPart, FlagCarries
  <2>4. d = FlagDepth(m)'
    BY <2>1 DEF FlagDepth, argVars
  <2>5. QED
    BY <2>3, <2>4
<1>2. QED
  BY <1>1, FlagNext

Calm(m) == ~Writing(m) /\ pc[m] \notin {"publish", "flag", "retireflag", "returned"}
LEMMA DataStays ==
  ASSUME Control, NEW m \in Minions, DataPart(m), DataCarries(m), UNCHANGED argVars,
         sent'[m] = sent[m], Calm(m), Calm(m)', pc'[m] # "enter"
  PROVE  DataPart(m)'
<1>1. ASSUME NEW i \in 1 .. Iterations, sent[m] = FlagValue(i), NEW k \in 0 .. PayloadWords - 1
      PROVE  Shows(m, i, k, DataDepth(m))'
  <2>1. PICK d : d = DataDepth(m)
    OBVIOUS
  <2>2. Shows(m, i, k, d)
    BY <1>1, <2>1 DEF DataPart, Calm
  <2>3. d \in 0 .. 3
    <3>1. PICK V \in Nat : \A j \in Int : FlagValue(j) = V + j
      BY Typed, FlagValues DEF Control
    <3>2. sent[m] # 0
      BY <1>1, <3>1
    <3>3. QED
      BY <2>1, <3>2, DepthIs
  <2>4. Shows(m, i, k, d)'
    BY <2>2, <2>3 DEF DataCarries, WordsCarry
  <2>5. d = DataDepth(m)'
    BY <2>1 DEF DataDepth, Calm, argVars
  <2>6. QED
    BY <2>4, <2>5
<1>2. \A i : FlagValue(i)' = FlagValue(i)
  BY DEF FlagValue, argVars
<1>3. QED
  BY <1>1, <1>2 DEF DataPart, Calm

\* A Minion that begins a payload has none of it.
LEMMA DataBegins ==
  ASSUME NEW m \in Minions,
         \/ Writing(m)' /\ word'[m] = 0
         \/ pc'[m] = "flag" /\ PayloadWords = 0
  PROVE  DataPart(m)'
<1>1. CASE Writing(m)' /\ word'[m] = 0
  <2>1. pc'[m] \in {"fill", "read", "echo"}
    BY <1>1 DEF Writing
  <2>2. 0 .. 0 - 1 = {}
    OBVIOUS
  <2>3. QED
    BY <1>1, <2>1, <2>2 DEF DataPart
<1>2. CASE pc'[m] = "flag" /\ PayloadWords = 0
  <2>1. ~Writing(m)'
    BY <1>2 DEF Writing
  <2>2. 0 .. PayloadWords - 1 = {}
    BY <1>2
  <2>3. QED
    BY <1>2, <2>1, <2>2 DEF DataPart
<1>3. QED
  BY <1>1, <1>2

\* Where a Minion goes.
LEMMA GotoIs ==
  ASSUME Scalars, NEW m \in Minions, NEW x \in Labels, Goto(m, x)
  PROVE  /\ pc' \in [Minions -> Labels]
         /\ pc'[m] = x /\ pc'[Peer(m)] = pc[Peer(m)]
<1>1. pc \in [Minions -> Labels]
  BY Zenon DEF Scalars
<1>2. QED
  BY <1>1, Peers DEF Goto

LEMMA FollowingIs ==
  ASSUME Scalars, NEW m \in Minions, NEW i \in 0 .. Iterations, Following(m, i)
  PROVE  /\ pc' \in [Minions -> Labels]
         /\ iteration' \in [Minions -> 0 .. Iterations + 1]
         /\ word' \in [Minions -> 0 .. PayloadWords]
         /\ pc'[m] = IF i = Iterations THEN "retire"
                     ELSE IF m = "pong" THEN "poll"
                     ELSE IF PayloadWords > 0 THEN "fill" ELSE "flag"
         /\ pc'[Peer(m)] = pc[Peer(m)]
         /\ iteration'[m] = i + 1 /\ iteration'[Peer(m)] = iteration[Peer(m)]
         /\ word'[m] = 0 /\ word'[Peer(m)] = word[Peer(m)]
<1>1. PICK x \in Labels : x = IF i = Iterations THEN "retire"
                              ELSE IF m = "pong" THEN "poll"
                              ELSE IF PayloadWords > 0 THEN "fill" ELSE "flag"
  BY DEF Labels
<1>2. Goto(m, x)
  BY <1>1 DEF Following
<1>3. pc' \in [Minions -> Labels] /\ pc'[m] = x /\ pc'[Peer(m)] = pc[Peer(m)]
  BY <1>2, GotoIs
<1>4. iteration \in [Minions -> 0 .. Iterations + 1] /\ word \in [Minions -> 0 .. PayloadWords]
  BY Zenon DEF Scalars
<1>5. i + 1 \in 0 .. Iterations + 1 /\ 0 \in 0 .. PayloadWords
  BY ChannelAssumption
<1>6. iteration' = [iteration EXCEPT ![m] = i + 1] /\ word' = [word EXCEPT ![m] = 0]
  BY DEF Following
<1>7. QED
  BY <1>1, <1>3, <1>4, <1>5, <1>6, Peers

\* The data parts of a Minion that goes on to the next iteration.
LEMMA FollowingData ==
  ASSUME Control, NEW m \in Minions, NEW i \in 0 .. Iterations, Following(m, i),
         DataPart(m), DataCarries(m), UNCHANGED argVars, sent'[m] = sent[m], Calm(m)
  PROVE  DataPart(m)'
<1>1. /\ pc'[m] = IF i = Iterations THEN "retire"
                  ELSE IF m = "pong" THEN "poll"
                  ELSE IF PayloadWords > 0 THEN "fill" ELSE "flag"
      /\ word'[m] = 0
  BY FollowingIs DEF Control
<1>2. CASE pc'[m] \in {"retire", "poll"}
  <2>1. Calm(m)' /\ pc'[m] # "enter"
    BY <1>2 DEF Calm, Writing
  <2>2. QED
    BY <2>1, DataStays
<1>3. CASE pc'[m] = "fill"
  BY <1>1, <1>3, DataBegins DEF Writing
<1>4. CASE pc'[m] = "flag"
  BY <1>1, <1>4, DataBegins, ChannelAssumption
<1>5. QED
  BY <1>1, <1>2, <1>3, <1>4

LEMMA FollowingFlag ==
  ASSUME Control, NEW m \in Minions, NEW i \in 0 .. Iterations, Following(m, i)
  PROVE  pc'[m] \notin {"publishflag", "returned", "read", "echo", "enter"}
BY FollowingIs DEF Control

LEMMA SeenIs ==
  ASSUME NEW m, NEW l, NEW D, IsPath(Path(m, l), D)
  PROVE  Seen(m, l) = Top(Path(m, l)) /\ Seen(m, l) \in D
BY TopIs, SeenTop

\* A flag that is awaited and seen has been sent.
LEMMA FlagSeen ==
  ASSUME IInv, NEW m \in Minions, Announced(m), iteration[m] > 0
  PROVE  FlagValue(iteration[m]) <= sent[Peer(m)]
<1>1. PICK q, l, w, i : q = Peer(m) /\ l = FlagLine(q) /\ w = SendFlag(q) /\ i = iteration[m]
  OBVIOUS
<1>2. q \in Minions /\ Peer(q) = m /\ l \in OwnLines(q)
  BY <1>1, Peers, FlagOwned
<1>3. IsPath(Path(m, l), Data(q, l))
  BY <1>2 DEF IInv, Owned, Own
<1>4. Seen(m, l) \in Data(q, l)
  BY <1>3, SeenIs
<1>5. NoFuture(q, Seen(m, l)[w])
  BY <1>1, <1>4 DEF Data
<1>6. Seen(m, l)[w] = FlagValue(i)
  BY <1>1 DEF Announced, FlagLine
<1>7. FlagValue(i) <= sent[q] \/ FlagValue(i) <= FlagValue(0)
  BY <1>5, <1>6 DEF NoFuture
<1>8. PICK V \in Nat : V = FlagValue(0) /\ \A j \in Int : FlagValue(j) = V + j
  BY Typed, FlagValues DEF IInv, Control
<1>9. i \in Int /\ i > 0
  BY <1>1, Typed DEF IInv, Control
<1>10. QED
  BY <1>1, <1>7, <1>8, <1>9

\* What a Minion reads of its peer's payload is what it expects.
LEMMA PayloadRead ==
  ASSUME IInv, NEW m \in Minions, pc[m] = "read",
         NEW w, w = SendData(Peer(m)) + word[m]
  PROVE  /\ LineOf(w) \in OwnLines(Peer(m))
         /\ Seen(m, LineOf(w))[w] = Expected(m)
<1>1. PICK q, l, i, k : q = Peer(m) /\ l = LineOf(w) /\ i = iteration[m] /\ k = word[m]
  OBVIOUS
<1>2. q \in Minions /\ Peer(q) = m /\ (q = "ping" <=> m = "pong")
  BY <1>1, Peers DEF Peer, Minions
<1>3. k \in 0 .. PayloadWords - 1
  <2>1. PICK a \in 0 .. Iterations, b \in 0 .. Iterations : StepsAt(a, b)
    BY DEF IInv, Control, Steps
  <2>2. word["ping"] < PayloadWords \/ pc["ping"] # "read"
    BY <2>1 DEF StepsAt, PingAt
  <2>3. word["pong"] < PayloadWords \/ pc["pong"] # "read"
    BY <2>1 DEF StepsAt, PongAt
  <2>4. word[m] \in 0 .. PayloadWords
    BY Typed DEF IInv, Control
  <2>5. word[m] < PayloadWords
    BY <2>2, <2>3 DEF Minions
  <2>6. QED
    BY <1>1, <2>4, <2>5, ChannelAssumption
<1>4. l \in DataLines(q) /\ w \in WordsOf(l) /\ l \in OwnLines(q)
  BY <1>1, <1>2, <1>3, WordPlaces, FlagOwned
<1>5. Reading(Peer(q)) /\ sameShire \in BOOLEAN /\ Control /\ DataPart(q)
  BY <1>1, <1>2 DEF Reading, IInv, Owned, Held, Contents
<1>6. /\ Shows(q, i, k, DataDepth(q))
      /\ At(q, l, Shared)
  BY <1>1, <1>2, <1>3, <1>4, <1>5, ShownWhenRead
<1>7. Mirror(q, l)
  BY <1>2, <1>4, <1>5 DEF IInv, Contents, ReadPart
<1>8. IsPath(Path(q, l), Data(q, l)) /\ IsPath(Path(m, l), Data(q, l))
  BY <1>2, <1>4 DEF IInv, Owned, Own
<1>9. Joined(Path(q, l), Path(m, l), Shared)
  BY <1>2, PathsJoined DEF IInv, Owned
<1>10. Top(Path(m, l)) = Top(Path(q, l))
  BY <1>2, <1>6, <1>7, <1>8, <1>9, FreshRead DEF At, Mirror
<1>11. Seen(m, l) = Top(Path(m, l))
  BY <1>8, SeenIs
<1>12. Top(Path(q, l))[w] = Value(q, i, k)
  BY <1>1, <1>6 DEF Shows, Val
<1>13. Value(q, i, k) = Expected(m)
  BY <1>1, <1>2 DEF Value, Expected, Minions
<1>14. QED
  BY <1>1, <1>4, <1>10, <1>11, <1>12, <1>13

LEMMA SentKept ==
  ASSUME UNCHANGED epoch, NEW m, sent'[m] = sent[m], NEW i, Sent(m, i)
  PROVE  Sent(m, i)'
BY DEF Sent, FlagValue

LEMMA PingKept ==
  ASSUME pc'["ping"] = pc["ping"], iteration'["ping"] = iteration["ping"],
         word'["ping"] = word["ping"], completed'["ping"] = completed["ping"],
         NEW a, NEW b, PingAt(a, b)
  PROVE  PingAt(a, b)'
BY DEF PingAt

LEMMA PongKept ==
  ASSUME pc'["pong"] = pc["pong"], iteration'["pong"] = iteration["pong"],
         word'["pong"] = word["pong"], completed'["pong"] = completed["pong"],
         register' = register, UNCHANGED epoch, NEW a, NEW b, PongAt(a, b)
  PROVE  PongAt(a, b)'
BY DEF PongAt, PayloadWord, FlagValue

\* The control part of the invariant after a step of Minion p.
LEMMA ControlNext ==
  ASSUME Control, NEW p \in Minions, UNCHANGED <<argVars, errors>>, Scalars', Steps',
         pc'[Peer(p)] = pc[Peer(p)], sent'[Peer(p)] = sent[Peer(p)],
         \/ pc[p] \notin {"enter", "returned"}
         \/ pc'[p] = "returned" /\ sent'[p] = sent[p]
         \/ writebackLevel \in Shared .. 3 /\ invalidateLevel \in Shared .. 3
  PROVE  Control'
<1>1. Accepted'
  <2>1. Shared' = Shared /\ writebackLevel' = writebackLevel /\ invalidateLevel' = invalidateLevel
    BY DEF Shared, argVars
  <2>2. ASSUME NEW m \in Minions, pc'[m] \notin {"enter", "returned"} \/ sent'[m] # 0
        PROVE  writebackLevel \in Shared .. 3 /\ invalidateLevel \in Shared .. 3
    BY <2>2, Peers DEF Control, Accepted
  <2>3. QED
    BY <2>1, <2>2 DEF Accepted
<1>2. PayloadFresh'
  BY DEF Control, PayloadFresh
<1>3. QED
  BY <1>1, <1>2 DEF Control

\* The whole invariant after a step of Minion p that stores nothing.
LEMMA QuietNext ==
  ASSUME IInv, NEW p \in Minions, AllKept, UNCHANGED <<argVars, sent>>,
         pc'[Peer(p)] = pc[Peer(p)], word'[Peer(p)] = word[Peer(p)],
         iteration'[Peer(p)] = iteration[Peer(p)],
         Control', FlagPart(p)', DataPart(p)',
         Reading(p)' => Reading(p) \/ \A l \in DataLines(Peer(p)) : Mirror(Peer(p), l)'
  PROVE  IInv'
<1>1. Peer(p) \in Minions /\ Peer(Peer(p)) = p /\ \A m \in Minions : m = p \/ m = Peer(p)
  BY Peers
<1>2. /\ Owned' /\ FlagPart(Peer(p))' /\ DataPart(Peer(p))' /\ ReadPart(p)'
      /\ Reading(p) => \A l \in DataLines(Peer(p)) : Mirror(Peer(p), l)'
  BY QuietStep
<1>3. ReadPart(Peer(p))'
  <2>1. DataLines(Peer(p))' = DataLines(Peer(p))
    BY DEF DataLines
  <2>2. QED
    BY <1>1, <1>2, <2>1 DEF ReadPart
<1>4. Contents'
  BY <1>1, <1>2, <1>3 DEF Contents
<1>5. QED
  BY <1>2, <1>4 DEF IInv

-----------------------------------------------------------------------------
(***************************************************************************)
(* The actions.                                                            *)
(***************************************************************************)
LEMMA EnterKeeps ==
  ASSUME IInv, NEW p \in Minions, Enter(p)
  PROVE  IInv'
<1>1. /\ pc[p] = "enter" /\ UNCHANGED <<memoryVars, argVars, sent, errors, completed, register>>
      /\ Control /\ Owned /\ Scalars
  BY DEF Enter, IInv, Control
<1>2. AllKept
  BY <1>1, SameKeeps DEF memoryVars, argVars
<1>3. PICK a \in 0 .. Iterations, b \in 0 .. Iterations : StepsAt(a, b)
  BY <1>1 DEF Control, Steps
<1>4. sent[p] = 0 /\ iteration[p] = 0
  <2>1. p = "ping" => a = 0 /\ iteration["ping"] = 0
    BY <1>1, <1>3 DEF StepsAt, PingAt
  <2>2. p = "pong" => b = 0 /\ iteration["pong"] = 0
    BY <1>1, <1>3 DEF StepsAt, PongAt
  <2>3. QED
    BY <1>3, <2>1, <2>2 DEF StepsAt, Sent, Minions
<1>5. FlagPart(p) /\ DataPart(p) /\ FlagCarries(p) /\ DataCarries(p)
  BY <1>1, <1>2, Peers, Carries, FlagOwned DEF AllKept, IInv, Contents, argVars
<1>6. ASSUME NEW m \in Minions, NEW i PROVE Sent(m, i) => Sent(m, i)'
  BY <1>1, SentKept DEF argVars
<1>7. status' \in [Minions -> {"none", "ok", "timeout", "bad arguments"}]
  BY <1>1 DEF Enter, Scalars
<1>8. CASE Destination(writebackLevel) /\ Destination(invalidateLevel)
  <2>1. Following(p, 0)
    BY <1>8 DEF Enter
  <2>2. 0 \in 0 .. Iterations
    BY ChannelAssumption
  <2>3. /\ pc' \in [Minions -> Labels]
        /\ iteration' \in [Minions -> 0 .. Iterations + 1]
        /\ word' \in [Minions -> 0 .. PayloadWords]
        /\ pc'[p] = IF 0 = Iterations THEN "retire"
                    ELSE IF p = "pong" THEN "poll"
                    ELSE IF PayloadWords > 0 THEN "fill" ELSE "flag"
        /\ pc'[Peer(p)] = pc[Peer(p)]
        /\ iteration'[p] = 0 + 1 /\ iteration'[Peer(p)] = iteration[Peer(p)]
        /\ word'[p] = 0 /\ word'[Peer(p)] = word[Peer(p)]
    BY <1>1, <2>1, <2>2, FollowingIs
  <2>4. Scalars'
    BY <1>1, <1>7, <2>3 DEF Scalars, memoryVars, argVars
  <2>5. Steps'
    <3>1. CASE p = "ping"
      <4>1. PongAt(a, b)'
        BY <1>1, <1>3, <2>3, <3>1, PongKept DEF StepsAt, Peer, argVars
      <4>2. a = 0 /\ b = 0
        BY <1>1, <1>3, <3>1 DEF StepsAt, PingAt
      <4>3. PingAt(a, b)'
        BY <1>1, <1>3, <2>3, <3>1, <4>2, ChannelAssumption DEF StepsAt, PingAt
      <4>4. QED
        BY <1>3, <1>6, <4>1, <4>3 DEF Steps, StepsAt, Minions
    <3>2. CASE p = "pong"
      <4>1. PingAt(a, b)'
        BY <1>1, <1>3, <2>3, <3>2, PingKept DEF StepsAt, Peer
      <4>2. b = 0
        BY <1>1, <1>3, <3>2 DEF StepsAt, PongAt
      <4>3. PongAt(a, b)'
        BY <1>1, <1>3, <2>3, <3>2, <4>2, ChannelAssumption DEF StepsAt, PongAt
      <4>4. QED
        BY <1>3, <1>6, <4>1, <4>3 DEF Steps, StepsAt, Minions
    <3>3. QED
      BY <3>1, <3>2 DEF Minions
  <2>6. Control'
    <3>1. writebackLevel \in Shared .. 3 /\ invalidateLevel \in Shared .. 3
      BY <1>8 DEF Destination, Shared
    <3>2. QED
      BY <1>1, <2>3, <2>4, <2>5, <3>1, ControlNext
  <2>7. pc'[p] \notin {"publishflag", "returned", "read", "echo", "enter"}
    BY <2>3
  <2>8. FlagPart(p)'
    BY <1>1, <1>5, <2>7, FlagStays
  <2>9. DataPart(p)'
    <3>1. Calm(p)
      BY <1>1 DEF Calm, Writing
    <3>2. QED
      BY <1>1, <1>5, <2>1, <2>2, <3>1, FollowingData
  <2>10. ~Reading(p)'
    BY <2>7 DEF Reading
  <2>11. QED
    BY <1>1, <1>2, <2>3, <2>6, <2>8, <2>9, <2>10, QuietNext
<1>9. CASE ~(Destination(writebackLevel) /\ Destination(invalidateLevel))
  <2>1. Goto(p, "returned") /\ UNCHANGED <<iteration, word>>
    BY <1>9 DEF Enter
  <2>2. "returned" \in Labels
    BY DEF Labels
  <2>3. /\ pc' \in [Minions -> Labels]
        /\ pc'[p] = "returned" /\ pc'[Peer(p)] = pc[Peer(p)]
    BY <1>1, <2>1, <2>2, GotoIs
  <2>4. Scalars'
    BY <1>1, <1>7, <2>1, <2>3 DEF Scalars, memoryVars, argVars
  <2>5. Steps'
    <3>1. CASE p = "ping"
      <4>1. PongAt(a, b)'
        BY <1>1, <1>3, <2>1, <2>3, <3>1, PongKept DEF StepsAt, Peer, argVars
      <4>2. PingAt(a, b)'
        BY <1>1, <1>3, <2>3, <3>1 DEF StepsAt, PingAt
      <4>3. QED
        BY <1>3, <1>6, <4>1, <4>2 DEF Steps, StepsAt, Minions
    <3>2. CASE p = "pong"
      <4>1. PingAt(a, b)'
        BY <1>1, <1>3, <2>1, <2>3, <3>2, PingKept DEF StepsAt, Peer
      <4>2. PongAt(a, b)'
        BY <1>1, <1>3, <2>3, <3>2 DEF StepsAt, PongAt
      <4>3. QED
        BY <1>3, <1>6, <4>1, <4>2 DEF Steps, StepsAt, Minions
    <3>3. QED
      BY <3>1, <3>2 DEF Minions
  <2>6. Control'
    BY <1>1, <2>3, <2>4, <2>5, ControlNext
  <2>7. FlagPart(p)'
    <3>1. QuietBoth(p, FlagLine(p))'
      BY <1>4, <1>5 DEF FlagPart, FlagCarries
    <3>2. QED
      BY <1>1, <1>4, <1>5, <3>1, FlagNext
  <2>8. DataPart(p)'
    <3>1. \A l \in DataLines(p) : QuietBoth(p, l)'
      BY <1>1, <1>5 DEF DataPart, DataCarries
    <3>2. \A i \in 1 .. Iterations : sent'[p] # FlagValue(i)'
      <4>1. PICK V \in Nat : \A j \in Int : FlagValue(j) = V + j
        BY <1>1, Typed, FlagValues
      <4>2. \A i : FlagValue(i)' = FlagValue(i)
        BY <1>1 DEF FlagValue, argVars
      <4>3. QED
        BY <1>1, <1>4, <4>1, <4>2
    <3>3. DataLines(p)' = DataLines(p)
      BY DEF DataLines
    <3>4. QED
      BY <2>3, <3>1, <3>2, <3>3 DEF DataPart, Writing
  <2>9. ~Reading(p)'
    BY <2>3 DEF Reading
  <2>10. QED
    BY <1>1, <1>2, <2>1, <2>3, <2>6, <2>7, <2>8, <2>9, QuietNext
<1>10. QED
  BY <1>8, <1>9

LEMMA StepsNext ==
  ASSUME NEW p \in Minions, NEW a \in 0 .. Iterations, NEW b \in 0 .. Iterations, StepsAt(a, b),
         UNCHANGED <<argVars, sent>>,
         pc'[Peer(p)] = pc[Peer(p)], word'[Peer(p)] = word[Peer(p)],
         iteration'[Peer(p)] = iteration[Peer(p)], completed'[Peer(p)] = completed[Peer(p)],
         p = "ping" => register' = register /\ PingAt(a, b)',
         p = "pong" => PongAt(a, b)'
  PROVE  Steps'
<1>1. ASSUME NEW m \in Minions, NEW i PROVE Sent(m, i) => Sent(m, i)'
  BY SentKept DEF argVars
<1>2. CASE p = "ping"
  <2>1. PongAt(a, b)'
    BY <1>2, PongKept DEF StepsAt, Peer, argVars
  <2>2. QED
    BY <1>1, <1>2, <2>1 DEF Steps, StepsAt, Minions
<1>3. CASE p = "pong"
  <2>1. PingAt(a, b)'
    BY <1>3, PingKept DEF StepsAt, Peer
  <2>2. QED
    BY <1>1, <1>3, <2>1 DEF Steps, StepsAt, Minions
<1>4. QED
  BY <1>2, <1>3 DEF Minions

Statuses == {"none", "ok", "timeout", "bad arguments"}

\* Minion p goes to x and its registers stay as they are.
Moves(p, x) ==
  /\ Goto(p, x) /\ x \in Labels
  /\ pc[p] \notin {"enter", "returned"}
  /\ UNCHANGED <<argVars, replaced, iteration, word, sent, errors, completed, register>>
  /\ status' \in [Minions -> Statuses]

LEMMA MoveControl ==
  ASSUME Control, NEW p \in Minions, NEW x, Moves(p, x),
         NEW a \in 0 .. Iterations, NEW b \in 0 .. Iterations, StepsAt(a, b),
         p = "ping" => PingAt(a, b)', p = "pong" => PongAt(a, b)'
  PROVE  Control' /\ pc'[p] = x /\ pc'[Peer(p)] = pc[Peer(p)]
<1>1. /\ pc' \in [Minions -> Labels]
      /\ pc'[p] = x /\ pc'[Peer(p)] = pc[Peer(p)]
  BY GotoIs DEF Control, Moves
<1>2. Scalars'
  BY <1>1 DEF Scalars, Control, Moves, argVars, Statuses
<1>3. Steps'
  BY <1>1, StepsNext DEF Moves
<1>4. QED
  BY <1>1, <1>2, <1>3, ControlNext DEF Moves

LEMMA MoveKeeps ==
  ASSUME IInv, NEW p \in Minions, NEW x, Moves(p, x), AllKept, Control',
         FlagPart(p)', DataPart(p)',
         x = "read" => \A l \in DataLines(Peer(p)) : Mirror(Peer(p), l)', x # "echo"
  PROVE  IInv'
<1>1. pc'[p] = x /\ pc'[Peer(p)] = pc[Peer(p)]
  BY GotoIs DEF Control, Moves, IInv
<1>2. Reading(p)' => \A l \in DataLines(Peer(p)) : Mirror(Peer(p), l)'
  BY <1>1 DEF Reading
<1>3. QED
  BY <1>1, <1>2, QuietNext DEF Moves

\* The parts of Minion p before such a step.
LEMMA MoveParts ==
  ASSUME IInv, NEW p \in Minions, AllKept, UNCHANGED argVars
  PROVE  FlagPart(p) /\ DataPart(p) /\ FlagCarries(p) /\ DataCarries(p)
BY Carries, FlagOwned DEF AllKept, IInv, Contents, argVars

\* The step leads from one place at which no payload is written to another.
LEMMA CalmKeeps ==
  ASSUME IInv, NEW p \in Minions, NEW x, Moves(p, x), AllKept, Control',
         Calm(p), pc[p] # "publishflag",
         x \in {"poll", "look", "refresh", "retire", "complete"}
  PROVE  IInv'
<1>1. pc'[p] = x
  BY GotoIs DEF Control, Moves, IInv
<1>2. FlagPart(p) /\ DataPart(p) /\ FlagCarries(p) /\ DataCarries(p)
  BY MoveParts DEF Moves
<1>3. Calm(p)' /\ pc'[p] \notin {"publishflag", "returned", "enter"} /\ x # "echo" /\ x # "read"
  BY <1>1 DEF Calm, Writing
<1>4. FlagPart(p)'
  BY <1>2, <1>3, FlagStays DEF Moves, Calm, IInv
<1>5. DataPart(p)'
  BY <1>2, <1>3, DataStays DEF Moves, IInv
<1>6. QED
  BY <1>3, <1>4, <1>5, MoveKeeps

LEMMA LabelsAre ==
  {"publish", "flag", "publishflag", "poll", "look", "refresh", "read", "echo", "complete",
   "retire", "retireflag", "returned", "fill"} \subseteq Labels
BY DEF Labels

LEMMA StepsPick ==
  ASSUME Control PROVE \E a \in 0 .. Iterations, b \in 0 .. Iterations : StepsAt(a, b)
BY DEF Control, Steps

LEMMA PollKeeps ==
  ASSUME IInv, NEW p \in Minions, Poll(p) PROVE IInv'
<1>1. /\ pc[p] = "poll" /\ Control /\ Owned /\ Peer(p) \in Minions /\ UNCHANGED argVars
      /\ InvalidateTo(p, invalidateLevel, {FlagLine(Peer(p))}) /\ UNCHANGED replaced
  BY Peers DEF Poll, IInv, RefreshFlag, FlagLine, InvalidateTo
<1>2. Moves(p, "look")
  BY <1>1, LabelsAre DEF Poll, Moves, Control, Scalars, Statuses
<1>3. AllKept
  <2>1. PICK d : d = invalidateLevel
    OBVIOUS
  <2>2. d \in 1 .. 3 /\ Shared <= d
    BY <1>1, <2>1, DepthIs DEF Owned, Held
  <2>3. {FlagLine(Peer(p))} \subseteq OwnLines(Peer(p))
    BY <1>1, FlagOwned
  <2>4. QED
    BY <1>1, <2>1, <2>2, <2>3, InvalidateKeeps DEF argVars
<1>4. PICK a \in 0 .. Iterations, b \in 0 .. Iterations : StepsAt(a, b)
  BY <1>1, StepsPick
<1>5. pc'[p] = "look" /\ UNCHANGED <<iteration, word, completed>>
  BY <1>1, <1>2, GotoIs DEF Moves, Control
<1>6. p = "ping" => PingAt(a, b)'
  BY <1>1, <1>4, <1>5 DEF StepsAt, PingAt
<1>7. p = "pong" => PongAt(a, b)'
  BY <1>1, <1>4, <1>5 DEF StepsAt, PongAt
<1>8. Control'
  BY <1>1, <1>2, <1>4, <1>6, <1>7, MoveControl
<1>9. Calm(p) /\ pc[p] # "publishflag"
  BY <1>1 DEF Calm, Writing
<1>10. QED
  BY <1>2, <1>3, <1>8, <1>9, CalmKeeps

LEMMA LookKeepsMemory ==
  ASSUME IInv, NEW p \in Minions, Load(p, SendFlag(Peer(p))), UNCHANGED argVars PROVE AllKept
<1>1. LineOf(SendFlag(Peer(p))) \in OwnLines(Peer(p))
  BY Peers, FlagOwned DEF FlagLine
<1>2. QED
  BY <1>1, LoadKeeps DEF IInv, argVars

LEMMA LookKeeps ==
  ASSUME IInv, NEW p \in Minions, Look(p) PROVE IInv'
<1>1. /\ pc[p] = "look" /\ Control /\ UNCHANGED <<argVars, iteration, word, completed>>
      /\ Load(p, SendFlag(Peer(p)))
  BY DEF Look, IInv
<1>2. PICK x : x = IF ~Announced(p) THEN "poll"
                   ELSE IF PayloadWords > 0 THEN "refresh"
                   ELSE IF p = "ping" THEN "complete" ELSE "flag"
  OBVIOUS
<1>3. x \in Labels /\ Goto(p, x)
  BY <1>2, LabelsAre DEF Look
<1>4. Moves(p, x)
  BY <1>1, <1>3 DEF Look, Load, Moves, Control, Scalars, Statuses
<1>5. AllKept
  BY <1>1, LookKeepsMemory
<1>6. PICK a \in 0 .. Iterations, b \in 0 .. Iterations : StepsAt(a, b)
  BY <1>1, StepsPick
<1>7. pc'[p] = x
  BY <1>1, <1>3, GotoIs DEF Control
<1>8. PICK V \in Nat : V = FlagValue(0) /\ \A j \in Int : FlagValue(j) = V + j
  BY <1>1, Typed, FlagValues DEF Control
<1>9. ASSUME p = "ping" PROVE iteration["ping"] = a /\ a > 0 /\ (x # "poll" => b = a)
  <2>1. iteration["ping"] = a /\ a > 0
    BY <1>1, <1>6, <1>9 DEF StepsAt, PingAt
  <2>2. ASSUME x # "poll" PROVE b = a
    <3>1. FlagValue(a) <= sent["pong"]
      BY <1>2, <1>9, <2>1, <2>2, FlagSeen DEF Peer
    <3>2. sent["pong"] <= V + b
      BY <1>1, <1>6, <1>8, SentIs DEF StepsAt, Control, Minions
    <3>3. V + a <= V + b /\ b <= a
      <4>1. sent["pong"] \in Nat
        BY <1>1, Typed DEF Control, Minions
      <4>2. QED
        BY <1>6, <1>8, <3>1, <3>2, <4>1 DEF StepsAt
    <3>4. QED
      BY <1>8, <3>3
  <2>3. QED
    BY <2>1, <2>2
<1>10. ASSUME p = "pong" PROVE /\ iteration["pong"] = b + 1 /\ b + 1 <= Iterations
                               /\ word["pong"] = 0
                               /\ x # "poll" => a = b + 1
  <2>1. iteration["pong"] = b + 1 /\ b + 1 <= Iterations /\ word["pong"] = 0
    BY <1>1, <1>6, <1>10 DEF StepsAt, PongAt
  <2>2. ASSUME x # "poll" PROVE a = b + 1
    <3>1. FlagValue(b + 1) <= sent["ping"]
      BY <1>2, <1>10, <2>1, <2>2, FlagSeen DEF Peer
    <3>2. sent["ping"] <= V + a
      BY <1>1, <1>6, <1>8, SentIs DEF StepsAt, Control, Minions
    <3>3. V + (b + 1) <= V + a /\ a <= b + 1
      <4>1. sent["ping"] \in Nat
        BY <1>1, Typed DEF Control, Minions
      <4>2. QED
        BY <1>6, <1>8, <3>1, <3>2, <4>1 DEF StepsAt
    <3>4. QED
      BY <1>8, <3>3
  <2>3. QED
    BY <2>1, <2>2
<1>11. p = "ping" => PingAt(a, b)'
  BY <1>1, <1>2, <1>6, <1>7, <1>9 DEF StepsAt, PingAt
<1>12. p = "pong" => PongAt(a, b)'
  BY <1>1, <1>2, <1>6, <1>7, <1>10 DEF StepsAt, PongAt
<1>13. Control'
  BY <1>1, <1>4, <1>6, <1>11, <1>12, MoveControl
<1>14. Calm(p) /\ pc[p] # "publishflag"
  BY <1>1 DEF Calm, Writing
<1>15. CASE x # "flag"
  <2>1. x \in {"poll", "refresh", "complete"}
    BY <1>2, <1>15
  <2>2. QED
    BY <1>4, <1>5, <1>13, <1>14, <2>1, CalmKeeps
<1>16. CASE x = "flag"
  <2>1. PayloadWords = 0
    BY <1>2, <1>16, ChannelAssumption
  <2>2. DataPart(p)'
    BY <1>7, <1>16, <2>1, DataBegins
  <2>3. FlagPart(p)'
    <3>1. FlagPart(p) /\ FlagCarries(p)
      BY <1>1, <1>5, MoveParts
    <3>2. UNCHANGED argVars /\ sent'[p] = sent[p]
      BY <1>4 DEF Moves
    <3>3. QED
      BY <1>1, <1>7, <1>16, <3>1, <3>2, FlagStays
  <2>4. QED
    BY <1>4, <1>5, <1>13, <1>16, <2>2, <2>3, MoveKeeps
<1>17. QED
  BY <1>15, <1>16

LEMMA TimesOutKeeps ==
  ASSUME IInv, NEW p \in Minions, TimesOut(p) PROVE IInv'
<1>1. /\ pc[p] = "look" /\ Control /\ UNCHANGED <<argVars, iteration, word, completed>>
      /\ Load(p, SendFlag(Peer(p)))
  BY DEF TimesOut, IInv
<1>2. status' \in [Minions -> Statuses]
  BY <1>1 DEF TimesOut, Control, Scalars, Statuses
<1>3. Moves(p, "retire")
  BY <1>1, <1>2, LabelsAre DEF TimesOut, Load, Moves
<1>4. AllKept
  BY <1>1, LookKeepsMemory
<1>5. PICK a \in 0 .. Iterations, b \in 0 .. Iterations : StepsAt(a, b)
  BY <1>1, StepsPick
<1>6. pc'[p] = "retire"
  BY <1>1, <1>3, GotoIs DEF Moves, Control
<1>7. p = "ping" => PingAt(a, b)'
  BY <1>1, <1>5, <1>6 DEF StepsAt, PingAt
<1>8. p = "pong" => PongAt(a, b)'
  BY <1>1, <1>5, <1>6 DEF StepsAt, PongAt
<1>9. Control'
  BY <1>1, <1>3, <1>5, <1>7, <1>8, MoveControl
<1>10. Calm(p) /\ pc[p] # "publishflag"
  BY <1>1 DEF Calm, Writing
<1>11. QED
  BY <1>3, <1>4, <1>9, <1>10, CalmKeeps

LEMMA RefreshKeeps ==
  ASSUME IInv, NEW p \in Minions, Refresh(p) PROVE IInv'
<1>1. /\ pc[p] = "refresh" /\ Control /\ Owned /\ Peer(p) \in Minions
      /\ UNCHANGED <<argVars, iteration, word, completed>>
      /\ InvalidateTo(p, invalidateLevel, DataLines(Peer(p))) /\ UNCHANGED replaced
  BY Peers DEF Refresh, IInv, RefreshPayload, DataLines, InvalidateTo
<1>2. Moves(p, "read")
  BY <1>1, LabelsAre DEF Refresh, Moves, Control, Scalars, Statuses
<1>3. AllKept /\ \A l \in DataLines(Peer(p)) : Mirror(Peer(p), l)'
  <2>1. PICK d, q : d = invalidateLevel /\ q = Peer(p)
    OBVIOUS
  <2>2. d \in 1 .. 3 /\ Shared <= d
    BY <1>1, <2>1, DepthIs DEF Owned, Held
  <2>3. DataLines(q) \subseteq OwnLines(q) /\ Peer(q) = p
    BY <1>1, <2>1, FlagOwned, Peers
  <2>4. AllKept /\ \A l \in DataLines(q) : Fresh(Path(q, l)', Path(p, l)', Shared)
    BY <1>1, <2>1, <2>2, <2>3, InvalidateKeeps DEF argVars
  <2>5. Shared' = Shared
    BY <1>1 DEF Shared, argVars
  <2>6. QED
    BY <2>1, <2>3, <2>4, <2>5 DEF Mirror
<1>4. PICK a \in 0 .. Iterations, b \in 0 .. Iterations : StepsAt(a, b)
  BY <1>1, StepsPick
<1>5. pc'[p] = "read"
  BY <1>1, <1>2, GotoIs DEF Moves, Control
<1>6. p = "ping" => PingAt(a, b)'
  BY <1>1, <1>4, <1>5 DEF StepsAt, PingAt
<1>7. p = "pong" => PongAt(a, b)'
  BY <1>1, <1>4, <1>5 DEF StepsAt, PongAt
<1>8. Control'
  BY <1>1, <1>2, <1>4, <1>6, <1>7, MoveControl
<1>9. FlagPart(p) /\ DataPart(p) /\ FlagCarries(p) /\ DataCarries(p) /\ sent'[p] = sent[p]
  BY <1>1, <1>2, <1>3, MoveParts DEF Moves
<1>10. FlagPart(p)'
  BY <1>1, <1>5, <1>9, FlagStays
<1>11. DataPart(p)'
  <2>1. CASE p = "ping"
    <3>1. Calm(p) /\ Calm(p)' /\ pc'[p] # "enter"
      BY <1>1, <1>5, <2>1 DEF Calm, Writing
    <3>2. QED
      BY <1>1, <1>9, <3>1, DataStays
  <2>2. CASE p = "pong"
    <3>1. word'[p] = 0
      BY <1>1, <1>4, <2>2 DEF StepsAt, PongAt
    <3>2. Writing(p)'
      BY <1>5, <2>2 DEF Writing
    <3>3. QED
      BY <3>1, <3>2, DataBegins
  <2>3. QED
    BY <2>1, <2>2 DEF Minions
<1>12. QED
  BY <1>2, <1>3, <1>8, <1>10, <1>11, MoveKeeps

\* A write-back settles what was settled before it at its level.
LEMMA WritebackSettles ==
  ASSUME Owned, NEW p \in Minions, NEW d \in 1 .. 3, NEW ls, ls \subseteq OwnLines(p),
         WritebackTo(p, d, ls), UNCHANGED sameShire,
         NEW l \in ls, NEW e \in 0 .. 3, At(p, l, e)
  PROVE  At(p, l, d)'
<1>1. Settled(Path(p, l), 0)
  BY SettledNearer DEF At
<1>2. Settled(Path(p, l)', d)
  BY <1>1, WritebackKeeps
<1>3. QED
  BY <1>2 DEF At

LEMMA WordSettles ==
  ASSUME Owned, NEW p \in Minions, NEW d \in 1 .. 3, DataLines(p) \subseteq OwnLines(p),
         WritebackTo(p, d, DataLines(p)), UNCHANGED sameShire, WordsCarry(p),
         NEW i \in Int, NEW k \in 0 .. PayloadWords - 1, NEW e \in 0 .. 3, Shows(p, i, k, e)
  PROVE  Shows(p, i, k, d)'
<1>1. PICK w, l : w = SendData(p) + k /\ l = LineOf(w)
  OBVIOUS
<1>2. At(p, l, e) /\ l \in DataLines(p)
  BY <1>1, WordPlaces DEF Shows
<1>3. At(p, l, d)'
  BY <1>2, WritebackSettles
<1>4. (SendData(p) + k)' = w /\ LineOf(SendData(p) + k)' = l
  BY <1>1 DEF LineOf, SendData, ReplyData, ForwardData, NextLine
<1>5. Shows(p, i, k, e)'
  BY DEF WordsCarry
<1>6. QED
  BY <1>1, <1>3, <1>4, <1>5 DEF Shows

LEMMA PublishKeeps ==
  ASSUME IInv, NEW p \in Minions, Publish(p) PROVE IInv'
<1>1. /\ pc[p] = "publish" /\ Control /\ Owned /\ sameShire' = sameShire
      /\ UNCHANGED <<argVars, iteration, word, completed>>
      /\ WritebackTo(p, writebackLevel, DataLines(p)) /\ UNCHANGED replaced
  BY DEF Publish, IInv, PublishPayload, DataLines, WritebackTo, argVars
<1>2. Moves(p, "flag")
  BY <1>1, LabelsAre DEF Publish, Moves, Control, Scalars, Statuses
<1>3. PICK d : d = writebackLevel
  OBVIOUS
<1>4. d \in 1 .. 3 /\ DataLines(p) \subseteq OwnLines(p) /\ WritebackTo(p, d, DataLines(p))
  BY <1>1, <1>3, DepthIs, FlagOwned
<1>5. AllKept
  BY <1>1, <1>4, WritebackKeeps
<1>6. PICK a \in 0 .. Iterations, b \in 0 .. Iterations : StepsAt(a, b)
  BY <1>1, StepsPick
<1>7. pc'[p] = "flag"
  BY <1>1, <1>2, GotoIs DEF Moves, Control
<1>8. p = "ping" => PingAt(a, b)'
  BY <1>1, <1>6, <1>7 DEF StepsAt, PingAt
<1>9. p = "pong" => PongAt(a, b)'
  BY <1>1, <1>6, <1>7 DEF StepsAt, PongAt
<1>10. Control'
  BY <1>1, <1>2, <1>6, <1>8, <1>9, MoveControl
<1>11. FlagPart(p) /\ DataPart(p) /\ FlagCarries(p) /\ DataCarries(p) /\ sent'[p] = sent[p]
  BY <1>1, <1>2, <1>5, MoveParts DEF Moves
<1>12. FlagPart(p)'
  BY <1>1, <1>7, <1>11, FlagStays
<1>13. DataPart(p)'
  <2>1. PICK i \in Int : i = iteration[p]
    BY <1>1, Typed DEF Control
  <2>2. 0 \in 0 .. 3
    OBVIOUS
  <2>3. ASSUME NEW k \in 0 .. PayloadWords - 1 PROVE Shows(p, i, k, d)'
    <3>1. Shows(p, i, k, 0)
      BY <1>1, <1>11, <2>1 DEF DataPart
    <3>2. WordsCarry(p)
      BY <1>11 DEF DataCarries
    <3>3. QED
      BY <1>1, <1>4, <2>2, <3>1, <3>2, WordSettles
  <2>4. i = iteration'[p] /\ d = writebackLevel' /\ ~Writing(p)'
    BY <1>1, <1>3, <1>7, <2>1 DEF argVars, Writing
  <2>5. QED
    BY <1>7, <2>3, <2>4 DEF DataPart
<1>14. QED
  BY <1>2, <1>5, <1>10, <1>12, <1>13, MoveKeeps

LEMMA RetireKeeps ==
  ASSUME IInv, NEW p \in Minions, Retire(p) PROVE IInv'
<1>1. /\ pc[p] = "retire" /\ Control /\ Owned /\ sameShire' = sameShire
      /\ UNCHANGED <<argVars, iteration, word, completed>>
      /\ WritebackTo(p, 3, DataLines(p)) /\ UNCHANGED replaced
  BY DEF Retire, IInv, RetirePayload, DataLines, WritebackTo, argVars, Mem
<1>2. Moves(p, "retireflag")
  BY <1>1, LabelsAre DEF Retire, Moves, Control, Scalars, Statuses
<1>3. 3 \in 1 .. 3 /\ DataLines(p) \subseteq OwnLines(p)
  BY FlagOwned
<1>4. AllKept /\ \A l \in DataLines(p) : QuietBoth(p, l)'
  BY <1>1, <1>3, WritebackKeeps DEF QuietBoth
<1>5. PICK a \in 0 .. Iterations, b \in 0 .. Iterations : StepsAt(a, b)
  BY <1>1, StepsPick
<1>6. pc'[p] = "retireflag"
  BY <1>1, <1>2, GotoIs DEF Moves, Control
<1>7. p = "ping" => PingAt(a, b)'
  BY <1>1, <1>5, <1>6 DEF StepsAt, PingAt
<1>8. p = "pong" => PongAt(a, b)'
  BY <1>1, <1>5, <1>6 DEF StepsAt, PongAt
<1>9. Control'
  BY <1>1, <1>2, <1>5, <1>7, <1>8, MoveControl
<1>10. FlagPart(p) /\ DataPart(p) /\ FlagCarries(p) /\ DataCarries(p) /\ sent'[p] = sent[p]
  BY <1>1, <1>2, <1>4, MoveParts DEF Moves
<1>11. FlagPart(p)'
  BY <1>1, <1>6, <1>10, FlagStays
<1>12. DataPart(p)'
  <2>1. ASSUME NEW i \in 1 .. Iterations, sent[p] = FlagValue(i), NEW k \in 0 .. PayloadWords - 1
        PROVE  Shows(p, i, k, 3)'
    <3>1. PICK e : e = DataDepth(p)
      OBVIOUS
    <3>2. e \in 0 .. 3
      BY <1>1, <3>1, DepthIs
    <3>3. Shows(p, i, k, e)
      BY <1>1, <1>10, <2>1, <3>1 DEF DataPart, Writing
    <3>4. WordsCarry(p) /\ i \in Int
      BY <1>10 DEF DataCarries
    <3>5. QED
      BY <1>1, <1>3, <3>2, <3>3, <3>4, WordSettles
  <2>2. DataDepth(p)' = 3 /\ ~Writing(p)' /\ DataLines(p)' = DataLines(p)
    BY <1>6 DEF DataDepth, Writing, DataLines
  <2>3. \A i : FlagValue(i)' = FlagValue(i)
    BY <1>1 DEF FlagValue, argVars
  <2>4. QED
    BY <1>4, <1>6, <1>10, <2>1, <2>2, <2>3 DEF DataPart
<1>13. QED
  BY <1>2, <1>4, <1>9, <1>11, <1>12, MoveKeeps

LEMMA RetireFlagKeeps ==
  ASSUME IInv, NEW p \in Minions, RetireFlag(p) PROVE IInv'
<1>1. /\ pc[p] = "retireflag" /\ Control /\ Owned /\ sameShire' = sameShire
      /\ UNCHANGED <<argVars, iteration, word, completed>>
      /\ WritebackTo(p, 3, {FlagLine(p)}) /\ UNCHANGED replaced
  BY DEF RetireFlag, IInv, FlagLine, WritebackTo, argVars, Mem
<1>2. Moves(p, "returned")
  BY <1>1, LabelsAre DEF RetireFlag, Moves, Control, Scalars, Statuses
<1>3. 3 \in 1 .. 3 /\ {FlagLine(p)} \subseteq OwnLines(p) /\ FlagLine(p) \in {FlagLine(p)}
  BY FlagOwned
<1>4. AllKept /\ QuietBoth(p, FlagLine(p))'
  <2>1. PICK l : l = FlagLine(p)
    OBVIOUS
  <2>2. l = FlagLine(p)'
    BY <2>1 DEF FlagLine
  <2>3. AllKept /\ QuietBoth(p, l)'
    BY <1>1, <1>3, <2>1, WritebackKeeps DEF QuietBoth
  <2>4. QED
    BY <2>2, <2>3
<1>5. PICK a \in 0 .. Iterations, b \in 0 .. Iterations : StepsAt(a, b)
  BY <1>1, StepsPick
<1>6. pc'[p] = "returned"
  BY <1>1, <1>2, GotoIs DEF Moves, Control
<1>7. p = "ping" => PingAt(a, b)'
  BY <1>1, <1>5, <1>6 DEF StepsAt, PingAt
<1>8. p = "pong" => PongAt(a, b)'
  BY <1>1, <1>5, <1>6 DEF StepsAt, PongAt
<1>9. Control'
  BY <1>1, <1>2, <1>5, <1>7, <1>8, MoveControl
<1>10. FlagPart(p) /\ DataPart(p) /\ FlagCarries(p) /\ DataCarries(p) /\ sent'[p] = sent[p]
  BY <1>1, <1>2, <1>4, MoveParts DEF Moves
<1>11. FlagPart(p)'
  <2>1. ASSUME sent[p] # 0 PROVE At(p, FlagLine(p), FlagDepth(p))'
    <3>1. PICK l, e : l = FlagLine(p) /\ e = FlagDepth(p)
      OBVIOUS
    <3>2. e \in 0 .. 3 /\ At(p, l, e)
      BY <1>1, <1>10, <2>1, <3>1, DepthIs DEF FlagPart
    <3>3. At(p, l, 3)'
      BY <1>1, <1>3, <3>1, <3>2, WritebackSettles
    <3>4. 3 = FlagDepth(p)' /\ l = FlagLine(p)'
      BY <1>6, <3>1 DEF FlagDepth, FlagLine
    <3>5. QED
      BY <3>3, <3>4
  <2>2. QED
    BY <1>1, <1>4, <1>10, <2>1, FlagNext
<1>12. DataPart(p)'
  <2>1. ASSUME NEW i \in 1 .. Iterations, sent[p] = FlagValue(i), NEW k \in 0 .. PayloadWords - 1
        PROVE  Shows(p, i, k, 3)'
    <3>1. DataDepth(p) = 3 /\ 3 \in 0 .. 3 /\ i \in Int
      BY <1>1 DEF DataDepth
    <3>2. Shows(p, i, k, 3)
      BY <1>1, <1>10, <2>1, <3>1 DEF DataPart, Writing
    <3>3. QED
      BY <1>10, <3>1, <3>2 DEF DataCarries, WordsCarry
  <2>2. DataDepth(p)' = 3 /\ ~Writing(p)' /\ DataLines(p)' = DataLines(p)
    BY <1>6 DEF DataDepth, Writing, DataLines
  <2>3. \A i : FlagValue(i)' = FlagValue(i)
    BY <1>1 DEF FlagValue, argVars
  <2>4. \A l \in DataLines(p) : QuietBoth(p, l)'
    BY <1>1, <1>10 DEF DataPart, DataCarries
  <2>5. QED
    BY <1>6, <1>10, <2>1, <2>2, <2>3, <2>4 DEF DataPart
<1>13. QED
  BY <1>2, <1>4, <1>9, <1>11, <1>12, MoveKeeps

\* An iteration is over.
LEMMA FollowingKeeps ==
  ASSUME IInv, NEW p \in Minions, NEW i \in 0 .. Iterations, Following(p, i), AllKept,
         completed' = [completed EXCEPT ![p] = i],
         UNCHANGED <<argVars, replaced, sent, errors, status, register>>,
         Calm(p), pc[p] # "enter", FlagPart(p)',
         NEW a \in 0 .. Iterations, NEW b \in 0 .. Iterations, StepsAt(a, b),
         p = "ping" => PingAt(a, b)', p = "pong" => PongAt(a, b)'
  PROVE  IInv'
<1>1. Control /\ Scalars
  BY DEF IInv, Control
<1>2. /\ pc' \in [Minions -> Labels]
      /\ iteration' \in [Minions -> 0 .. Iterations + 1]
      /\ word' \in [Minions -> 0 .. PayloadWords]
      /\ pc'[Peer(p)] = pc[Peer(p)] /\ word'[Peer(p)] = word[Peer(p)]
      /\ iteration'[Peer(p)] = iteration[Peer(p)]
  BY <1>1, FollowingIs
<1>3. completed' \in [Minions -> 0 .. Iterations] /\ completed'[Peer(p)] = completed[Peer(p)]
  <2>1. completed \in [Minions -> 0 .. Iterations]
    BY <1>1, Zenon DEF Scalars
  <2>2. QED
    BY <2>1, Peers
<1>4. Scalars'
  BY <1>1, <1>2, <1>3 DEF Scalars, argVars
<1>5. Steps'
  BY <1>2, <1>3, StepsNext
<1>6. Control'
  BY <1>1, <1>2, <1>4, <1>5, ControlNext DEF Calm
<1>7. DataPart(p)'
  <2>1. DataPart(p) /\ DataCarries(p)
    BY MoveParts
  <2>2. QED
    BY <1>1, <2>1, FollowingData
<1>8. ~Reading(p)'
  BY <1>1, FollowingFlag DEF Reading
<1>9. QED
  BY <1>2, <1>6, <1>7, <1>8, QuietNext

LEMMA CompleteKeeps ==
  ASSUME IInv, Complete PROVE IInv'
<1>1. PICK p \in Minions : p = "ping"
  BY DEF Minions
<1>2. /\ pc[p] = "complete" /\ Control /\ Owned
      /\ UNCHANGED <<copy, ddr, replaced, argVars, sameShire, sent, errors, status, register>>
  BY <1>1 DEF Complete, IInv, memoryVars, argVars
<1>3. PICK a \in 0 .. Iterations, b \in 0 .. Iterations : StepsAt(a, b)
  BY <1>2, StepsPick
<1>4. iteration[p] = a /\ a > 0 /\ b = a
  BY <1>1, <1>2, <1>3 DEF StepsAt, PingAt
<1>5. Following(p, a) /\ completed' = [completed EXCEPT ![p] = a]
  BY <1>1, <1>4 DEF Complete
<1>6. AllKept
  BY <1>2, SameKeeps
<1>7. /\ pc'[p] = IF a = Iterations THEN "retire"
                  ELSE IF PayloadWords > 0 THEN "fill" ELSE "flag"
      /\ iteration'[p] = a + 1 /\ word'[p] = 0
  BY <1>1, <1>2, <1>5, FollowingIs DEF Control
<1>8. completed'["ping"] = a
  <2>1. completed \in [Minions -> 0 .. Iterations]
    BY <1>2, Zenon DEF Control, Scalars
  <2>2. QED
    BY <1>1, <1>5, <2>1
<1>9. PingAt(a, b)'
  BY <1>1, <1>3, <1>4, <1>7, <1>8, ChannelAssumption DEF PingAt
<1>10. Calm(p) /\ pc[p] \notin {"enter", "publishflag", "returned"}
  BY <1>2 DEF Calm, Writing
<1>11. FlagPart(p)'
  <2>1. FlagPart(p) /\ FlagCarries(p)
    BY <1>2, <1>6, MoveParts
  <2>2. pc'[p] \notin {"publishflag", "returned"}
    BY <1>7
  <2>3. QED
    BY <1>2, <1>10, <2>1, <2>2, FlagStays
<1>12. QED
  BY <1>1, <1>2, <1>3, <1>5, <1>6, <1>9, <1>10, <1>11, FollowingKeeps

LEMMA PublishFlagKeeps ==
  ASSUME IInv, NEW p \in Minions, PublishFlag(p) PROVE IInv'
<1>1. /\ pc[p] = "publishflag" /\ Control /\ Owned /\ sameShire' = sameShire
      /\ UNCHANGED <<argVars, sent, errors, status, register>>
      /\ WritebackTo(p, writebackLevel, {FlagLine(p)}) /\ UNCHANGED replaced
  BY DEF PublishFlag, IInv, FlagLine, WritebackTo, argVars
<1>2. PICK d : d = writebackLevel
  OBVIOUS
<1>3. /\ d \in 1 .. 3 /\ {FlagLine(p)} \subseteq OwnLines(p) /\ FlagLine(p) \in {FlagLine(p)}
      /\ WritebackTo(p, d, {FlagLine(p)})
  BY <1>1, <1>2, DepthIs, FlagOwned
<1>4. AllKept
  BY <1>1, <1>3, WritebackKeeps
<1>5. PICK a \in 0 .. Iterations, b \in 0 .. Iterations : StepsAt(a, b)
  BY <1>1, StepsPick
<1>6. FlagPart(p) /\ DataPart(p) /\ FlagCarries(p) /\ DataCarries(p) /\ sent'[p] = sent[p]
  BY <1>1, <1>4, MoveParts
<1>7. Calm(p) /\ pc[p] # "enter"
  BY <1>1 DEF Calm, Writing
<1>8. ASSUME pc'[p] \notin {"publishflag", "returned"} PROVE FlagPart(p)'
  <2>1. ASSUME sent[p] # 0 PROVE At(p, FlagLine(p), FlagDepth(p))'
    <3>1. PICK l : l = FlagLine(p)
      OBVIOUS
    <3>2. 0 \in 0 .. 3 /\ At(p, l, 0)
      BY <1>1, <1>6, <2>1, <3>1 DEF FlagPart, FlagDepth
    <3>3. At(p, l, d)'
      BY <1>1, <1>3, <3>1, <3>2, WritebackSettles
    <3>4. d = FlagDepth(p)' /\ l = FlagLine(p)'
      BY <1>1, <1>2, <1>8, <3>1 DEF FlagDepth, FlagLine, argVars
    <3>5. QED
      BY <3>3, <3>4
  <2>2. QED
    BY <1>1, <1>6, <1>8, <2>1, FlagNext
<1>9. CASE p = "ping"
  <2>1. Goto(p, "poll") /\ UNCHANGED <<iteration, word, completed>>
    BY <1>9 DEF PublishFlag
  <2>2. Moves(p, "poll")
    BY <1>1, <2>1, LabelsAre DEF Moves, Control, Scalars, Statuses
  <2>3. pc'[p] = "poll"
    BY <1>1, <2>2, GotoIs DEF Moves, Control
  <2>4. PingAt(a, b)'
    BY <1>1, <1>5, <1>9, <2>1, <2>3 DEF StepsAt, PingAt
  <2>5. Control'
    BY <1>1, <1>5, <1>9, <2>2, <2>4, MoveControl
  <2>6. DataPart(p)'
    <3>1. Calm(p)' /\ pc'[p] # "enter"
      BY <2>3 DEF Calm, Writing
    <3>2. QED
      BY <1>1, <1>6, <1>7, <3>1, DataStays
  <2>7. QED
    BY <1>4, <1>8, <2>2, <2>3, <2>5, <2>6, MoveKeeps
<1>10. CASE p = "pong"
  <2>1. iteration[p] = b /\ b > 0
    BY <1>1, <1>5, <1>10 DEF StepsAt, PongAt
  <2>2. Following(p, b) /\ completed' = [completed EXCEPT ![p] = b]
    BY <1>10, <2>1 DEF PublishFlag
  <2>3. /\ pc'[p] = IF b = Iterations THEN "retire" ELSE "poll"
        /\ iteration'[p] = b + 1 /\ word'[p] = 0
    BY <1>1, <1>10, <2>2, FollowingIs DEF Control
  <2>4. completed'["pong"] = b
    <3>1. completed \in [Minions -> 0 .. Iterations]
      BY <1>1, Zenon DEF Control, Scalars
    <3>2. QED
      BY <1>10, <2>2, <3>1
  <2>5. PongAt(a, b)'
    BY <1>5, <1>10, <2>1, <2>3, <2>4, ChannelAssumption DEF PongAt
  <2>6. QED
    BY <1>1, <1>4, <1>5, <1>7, <1>8, <1>10, <2>2, <2>3, <2>5, FollowingKeeps
<1>11. QED
  BY <1>9, <1>10 DEF Minions

LEMMA ReplaceStepKeeps ==
  ASSUME IInv, NEW p \in Minions, NEW k \in 0 .. Mem - 1, NEW l \in Lines, Replace(p, k, l)
  PROVE  IInv'
<1>1. /\ Control /\ Owned /\ UNCHANGED argVars /\ UNCHANGED <<pc, iteration, word, register, sent>>
      /\ UNCHANGED <<errors, completed, status>>
  BY DEF Replace, IInv, minionVars
<1>2. AllKept
  BY <1>1, ReplaceKeeps
<1>3. replaced' \in 0 .. MaxReplacements
  <2>1. replaced \in 0 .. MaxReplacements /\ replaced < MaxReplacements /\ replaced' = replaced + 1
    BY <1>1, Zenon DEF Replace, Control, Scalars
  <2>2. QED
    BY <2>1, ChannelAssumption
<1>4. Scalars'
  BY <1>1, <1>3 DEF Control, Scalars, argVars
<1>5. PICK a \in 0 .. Iterations, b \in 0 .. Iterations : StepsAt(a, b)
  BY <1>1, StepsPick
<1>6. PingAt(a, b)' /\ PongAt(a, b)'
  BY <1>1, <1>5, PingKept, PongKept DEF StepsAt, argVars
<1>7. Steps'
  BY <1>1, <1>5, <1>6, StepsNext
<1>8. Control'
  <2>1. Accepted'
    BY <1>1 DEF Control, Accepted, Shared, argVars
  <2>2. PayloadFresh'
    BY <1>1 DEF Control, PayloadFresh
  <2>3. QED
    BY <1>4, <1>7, <2>1, <2>2 DEF Control
<1>9. FlagPart(p)' /\ DataPart(p)'
  <2>1. FlagPart(p) /\ DataPart(p) /\ FlagCarries(p) /\ DataCarries(p)
    BY <1>1, <1>2, MoveParts
  <2>2. QED
    BY <1>1, <2>1, PartKept
<1>10. Reading(p)' => Reading(p)
  BY <1>1 DEF Reading
<1>11. QED
  BY <1>1, <1>2, <1>8, <1>9, <1>10, QuietNext

\* The next word of a payload, or the end of it.
LEMMA WordNext ==
  ASSUME Scalars, NEW p \in Minions, word[p] < PayloadWords,
         word' = [word EXCEPT ![p] = (@ + 1) % PayloadWords]
  PROVE  /\ word' \in [Minions -> 0 .. PayloadWords] /\ word'[Peer(p)] = word[Peer(p)]
         /\ word[p] \in 0 .. PayloadWords - 1
         /\ word[p] + 1 = PayloadWords => word'[p] = 0
         /\ word[p] + 1 # PayloadWords => word'[p] = word[p] + 1 /\ word'[p] < PayloadWords
<1>1. PICK n : n = word[p]
  OBVIOUS
<1>2. n \in 0 .. PayloadWords - 1
  <2>1. word[p] \in 0 .. PayloadWords
    BY Typed
  <2>2. QED
    BY <1>1, <2>1, ChannelAssumption
<1>3. PICK r : r = (n + 1) % PayloadWords
  OBVIOUS
<1>4. (n + 1 = PayloadWords => r = 0) /\ (n + 1 # PayloadWords => r = n + 1)
  BY <1>2, <1>3, NextWord
<1>5. word' = [word EXCEPT ![p] = r]
  BY <1>1, <1>3
<1>6. word \in [Minions -> 0 .. PayloadWords]
  BY Zenon DEF Scalars
<1>7. r \in 0 .. PayloadWords /\ (n + 1 # PayloadWords => n + 1 < PayloadWords)
  BY <1>2, <1>4, ChannelAssumption
<1>8. QED
  BY <1>1, <1>2, <1>4, <1>5, <1>6, <1>7, Peers

LEMMA ReadKeeps ==
  ASSUME IInv, NEW p \in Minions, Read(p) PROVE IInv'
<1>1. PICK w : w = SendData(Peer(p)) + word[p]
  OBVIOUS
<1>2. /\ pc[p] = "read" /\ Control /\ Scalars /\ Owned
      /\ UNCHANGED <<argVars, sameShire, iteration, sent, completed, status, replaced>>
      /\ Load(p, w)
      /\ errors' = [errors EXCEPT ![p] = IF Seen(p, LineOf(w))[w] = Expected(p) THEN @ ELSE @ + 1]
  BY <1>1 DEF Read, IInv, Control, argVars, Load
<1>3. LineOf(w) \in OwnLines(Peer(p)) /\ Seen(p, LineOf(w))[w] = Expected(p)
  BY <1>1, <1>2, PayloadRead
<1>4. AllKept
  BY <1>2, <1>3, LoadKeeps
<1>5. errors' = errors
  <2>1. errors \in [Minions -> Nat]
    BY <1>2, Zenon DEF Scalars
  <2>2. QED
    BY <1>2, <1>3, <2>1
<1>6. PICK a \in 0 .. Iterations, b \in 0 .. Iterations : StepsAt(a, b)
  BY <1>2, StepsPick
<1>7. word[p] < PayloadWords
  BY <1>2, <1>6 DEF StepsAt, PingAt, PongAt, Minions
<1>8. FlagPart(p) /\ DataPart(p) /\ FlagCarries(p) /\ DataCarries(p)
  BY <1>2, <1>4, MoveParts
<1>9. Reading(p)
  BY <1>2 DEF Reading
<1>10. CASE p = "ping"
  <2>1. /\ word' = [word EXCEPT ![p] = (@ + 1) % PayloadWords]
        /\ Goto(p, IF word[p] + 1 = PayloadWords THEN "complete" ELSE "read")
        /\ UNCHANGED register
    BY <1>10 DEF Read
  <2>2. /\ word' \in [Minions -> 0 .. PayloadWords] /\ word'[Peer(p)] = word[Peer(p)]
        /\ word[p] + 1 # PayloadWords => word'[p] < PayloadWords
    BY <1>2, <1>7, <2>1, WordNext
  <2>3. PICK x \in Labels : x = IF word[p] + 1 = PayloadWords THEN "complete" ELSE "read"
    BY LabelsAre
  <2>4. pc' \in [Minions -> Labels] /\ pc'[p] = x /\ pc'[Peer(p)] = pc[Peer(p)]
    BY <1>2, <2>1, <2>3, GotoIs
  <2>5. Scalars'
    BY <1>2, <1>5, <2>1, <2>2, <2>4 DEF Scalars, argVars
  <2>6. PingAt(a, b)'
    BY <1>2, <1>6, <1>10, <2>2, <2>3, <2>4 DEF StepsAt, PingAt
  <2>7. Steps'
    BY <1>2, <1>6, <1>10, <2>1, <2>2, <2>4, <2>6, StepsNext
  <2>8. Control'
    BY <1>2, <1>5, <2>4, <2>5, <2>7, ControlNext
  <2>9. FlagPart(p)'
    BY <1>2, <1>8, <2>3, <2>4, FlagStays
  <2>10. DataPart(p)'
    <3>1. Calm(p) /\ Calm(p)' /\ pc'[p] # "enter"
      BY <1>2, <1>10, <2>3, <2>4 DEF Calm, Writing
    <3>2. QED
      BY <1>2, <1>8, <3>1, DataStays
  <2>11. QED
    BY <1>2, <1>4, <1>9, <2>2, <2>4, <2>8, <2>9, <2>10, QuietNext
<1>11. CASE p = "pong"
  <2>1. Goto(p, "echo") /\ register' = Expected(p) /\ UNCHANGED word
    BY <1>1, <1>3, <1>11 DEF Read
  <2>2. PICK i, k : i = iteration[p] /\ k = word[p]
    OBVIOUS
  <2>3. register' = PayloadWord(i, k)
    BY <1>11, <2>1, <2>2 DEF Expected
  <2>4. i \in Int /\ k \in Int /\ PayloadWord(i, k) \in Int
    BY <1>2, <2>2, Typed, FlagValues
  <2>5. pc' \in [Minions -> Labels] /\ pc'[p] = "echo" /\ pc'[Peer(p)] = pc[Peer(p)]
    BY <1>2, <2>1, LabelsAre, GotoIs
  <2>6. Scalars'
    BY <1>2, <1>5, <2>1, <2>3, <2>4, <2>5 DEF Scalars, argVars
  <2>7. PongAt(a, b)'
    <3>1. PayloadWord(i, k)' = PayloadWord(i, k)
      BY <1>2 DEF PayloadWord, FlagValue, argVars
    <3>2. register' = PayloadWord(iteration["pong"], word["pong"])'
      BY <1>2, <1>11, <2>1, <2>2, <2>3, <3>1
    <3>3. QED
      BY <1>2, <1>6, <1>11, <2>1, <2>5, <3>2 DEF StepsAt, PongAt
  <2>8. Steps'
    BY <1>2, <1>6, <1>11, <2>1, <2>5, <2>7, StepsNext
  <2>9. Control'
    BY <1>2, <1>5, <2>5, <2>6, <2>8, ControlNext
  <2>10. FlagPart(p)'
    BY <1>2, <1>8, <2>5, FlagStays
  <2>11. DataPart(p)'
    <3>1. Writing(p) /\ Writing(p)' /\ 0 \in 0 .. 3
      BY <1>2, <1>11, <2>5 DEF Writing
    <3>2. ASSUME NEW n \in 0 .. word[p] - 1 PROVE Shows(p, i, n, 0)'
      <4>1. Shows(p, i, n, 0)
        BY <1>8, <2>2, <3>1, <3>2 DEF DataPart
      <4>2. n \in 0 .. PayloadWords - 1
        <5>1. word[p] \in 0 .. PayloadWords
          BY <1>2, Typed
        <5>2. QED
          BY <3>2, <5>1, ChannelAssumption
      <4>3. QED
        BY <1>8, <2>4, <3>1, <4>1, <4>2 DEF DataCarries, WordsCarry
    <3>3. i = iteration'[p] /\ word'[p] = word[p]
      BY <1>2, <2>1, <2>2
    <3>4. QED
      BY <2>5, <3>1, <3>2, <3>3 DEF DataPart
  <2>12. QED
    BY <1>2, <1>4, <1>9, <2>1, <2>5, <2>9, <2>10, <2>11, QuietNext
<1>12. QED
  BY <1>10, <1>11 DEF Minions

\* A line of the payload is not that of the flag, and has data of any words.
LEMMA PayloadLine ==
  ASSUME NEW p \in Minions, NEW l \in DataLines(p)
  PROVE  l # FlagLine(p) /\ l \in OwnLines(p) /\ Data(p, l) = [WordsOf(l) -> Int]
<1>1. l # FlagLine(p) /\ l \in OwnLines(p)
  BY LinesShared, FlagOwned
<1>2. QED
  BY <1>1 DEF Data

LEMMA PutIs ==
  ASSUME NEW x, NEW D, IsPath(x, D), NEW W, D \subseteq [W -> Int], NEW w \in W, NEW v \in Int
  PROVE  /\ Put(x, w, v) \in [W -> Int] /\ Put(x, w, v)[w] = v
         /\ \A u \in W : u # w => Put(x, w, v)[u] = Top(x)[u]
<1>1. PICK t : t = Top(x)
  OBVIOUS
<1>2. t \in [W -> Int]
  BY <1>1, TopIs
<1>3. PICK u : u = [t EXCEPT ![w] = v]
  OBVIOUS
<1>4. u \in [W -> Int] /\ u[w] = v /\ \A n \in W : n # w => u[n] = t[n]
  BY <1>2, <1>3
<1>5. u = Put(x, w, v)
  BY <1>1, <1>3 DEF Put
<1>6. QED
  BY <1>1, <1>4, <1>5

\* A step of Minion p that stores in its line L.
LEMMA StoreStep ==
  ASSUME IInv, NEW p \in Minions, NEW L \in OwnLines(p),
         Held', \A m \in Minions : \A l \in OwnLines(m) : l # L => Kept(m, l),
         NEW D, D = Data(p, L)', IsPath(Path(p, L)', D), IsPath(Path(Peer(p), L)', D),
         Quiet(Path(Peer(p), L)', Shared), Settled(Path(p, L)', 0),
         Grows(p), UNCHANGED argVars, sent'[Peer(p)] = sent[Peer(p)],
         pc'[Peer(p)] = pc[Peer(p)], word'[Peer(p)] = word[Peer(p)],
         iteration'[Peer(p)] = iteration[Peer(p)]
  PROVE  /\ Owned'
         /\ FlagPart(Peer(p))' /\ DataPart(Peer(p))'
         /\ Reading(p) => \A l \in DataLines(Peer(p)) : Mirror(Peer(p), l)'
<1>1. PICK q : q = Peer(p)
  OBVIOUS
<1>2. q \in Minions /\ Peer(q) = p /\ \A m \in Minions : m = p \/ m = q
  BY <1>1, Peers
<1>3. sameShire' = sameShire /\ epoch' = epoch
  BY DEF argVars
<1>4. Shared' = Shared
  BY <1>3 DEF Shared
<1>5. Grows(q)
  BY <1>1, <1>3 DEF Grows, NoFuture, FlagValue
<1>6. \A l \in OwnLines(q) : Kept(q, l)
  BY <1>1, <1>2, OwnIs
<1>7. Owned'
  <2>1. ASSUME NEW m \in Minions, NEW l \in OwnLines(m) PROVE Own(m, l)'
    <3>1. CASE l # L
      BY <1>2, <1>3, <1>5, <3>1, LineKept DEF IInv, Owned
    <3>2. CASE l = L
      <4>1. m = p
        BY <1>2, <1>1, <3>2, OwnIs
      <4>2. Own(p, L)'
        BY <1>4 DEF Own
      <4>3. QED
        BY <3>2, <4>1, <4>2
    <3>3. QED
      BY <3>1, <3>2
  <2>2. \A m \in Minions : OwnLines(m)' = OwnLines(m)
    BY DEF OwnLines, FlagLine, DataLines
  <2>3. QED
    BY <2>1, <2>2 DEF Owned
<1>8. FlagCarries(q) /\ DataCarries(q)
  BY <1>2, <1>3, <1>6, Carries, FlagOwned
<1>9. FlagPart(q)' /\ DataPart(q)'
  BY <1>1, <1>2, <1>8, PartKept DEF IInv, Contents
<1>10. ASSUME Reading(p), NEW l \in DataLines(q) PROVE Mirror(q, l)'
  BY <1>2, <1>3, <1>6, <1>10, MirrorKept, FlagOwned
<1>11. QED
  BY <1>1, <1>7, <1>9, <1>10

\* The word that Minion p is at is written, and the ones before it stay.
LEMMA StoreWord ==
  ASSUME IInv, NEW p \in Minions, NEW i \in Int, NEW k \in 0 .. PayloadWords - 1,
         i = iteration[p], k = word[p], Writing(p),
         Store(p, SendData(p) + k, Value(p, i, k)),
         UNCHANGED <<argVars, sent, iteration>>,
         pc'[Peer(p)] = pc[Peer(p)], word'[Peer(p)] = word[Peer(p)], Control',
         Reading(p)' => Reading(p),
         IF k + 1 = PayloadWords THEN pc'[p] = "publish" ELSE Writing(p)' /\ word'[p] = k + 1
  PROVE  IInv'
<1>1. PICK w, v, L : w = SendData(p) + k /\ v = Value(p, i, k) /\ L = LineOf(w)
  OBVIOUS
<1>2. /\ L \in DataLines(p) /\ L \in OwnLines(p) /\ L # FlagLine(p) /\ w \in WordsOf(L)
      /\ Data(p, L) = [WordsOf(L) -> Int]
  BY <1>1, WordPlaces, PayloadLine
<1>3. v \in Int
  <2>1. epoch \in Nat /\ k \in Int
    BY Typed DEF IInv, Control
  <2>2. PayloadWord(i, k) \in Int
    BY <2>1, FlagValues
  <2>3. QED
    BY <1>1, <2>2 DEF Value, Not
<1>4. UNCHANGED <<sameShire, epoch>> /\ Control /\ Owned
  BY DEF argVars, IInv
<1>5. PICK t, D : t = Put(Path(p, L), w, v) /\ D = Data(p, L)
  OBVIOUS
<1>6. IsPath(Path(p, L), Data(p, L))
  BY <1>2, <1>4 DEF Owned, Own
<1>7. /\ t \in D /\ t[w] = v
      /\ \A u \in WordsOf(L) : u # w => t[u] = Val(p, L)[u]
  <2>1. /\ Put(Path(p, L), w, v) \in [WordsOf(L) -> Int] /\ Put(Path(p, L), w, v)[w] = v
        /\ \A u \in WordsOf(L) : u # w => Put(Path(p, L), w, v)[u] = Top(Path(p, L))[u]
    BY <1>2, <1>3, <1>6, PutIs
  <2>2. QED
    BY <1>2, <1>5, <2>1 DEF Val
<1>8. D = Data(p, L)'
  BY <1>4, <1>5 DEF Data, NoFuture, FlagValue, FlagLine, SendFlag, WordsOf, Words, Payload, Flags, Area
<1>9. /\ Held'
      /\ \A m \in Minions : \A l \in OwnLines(m) : l # L => Kept(m, l)
      /\ IsPath(Path(p, L)', D) /\ IsPath(Path(Peer(p), L)', D)
      /\ Quiet(Path(Peer(p), L)', Shared)
      /\ Settled(Path(p, L)', 0)
      /\ Top(Path(p, L)') = t
  <2>1. Store(p, w, v) /\ Data(p, L) \subseteq D /\ D \subseteq [WordsOf(L) -> Int]
    BY <1>1, <1>2, <1>5
  <2>2. QED
    BY <1>1, <1>2, <1>4, <1>5, <1>7, <2>1, StoreKeeps
<1>10. Grows(p)
  BY <1>4, SameGrows
<1>11. /\ Owned'
       /\ FlagPart(Peer(p))' /\ DataPart(Peer(p))'
       /\ Reading(p) => \A l \in DataLines(Peer(p)) : Mirror(Peer(p), l)'
  BY <1>2, <1>8, <1>9, <1>10, StoreStep
<1>12. ASSUME NEW n \in 0 .. k PROVE Shows(p, i, n, 0)'
  <2>1. PICK u, l : u = SendData(p) + n /\ l = LineOf(u)
    OBVIOUS
  <2>2. n \in 0 .. PayloadWords - 1 /\ (n # k => n \in 0 .. word[p] - 1) /\ 0 \in 0 .. 3
    BY ChannelAssumption
  <2>3. u \in WordsOf(l) /\ l \in OwnLines(p)
    BY <2>1, <2>2, WordPlaces, PayloadLine
  <2>4. n # k => Shows(p, i, n, 0)
    BY <2>2 DEF IInv, Contents, DataPart
  <2>5. CASE l # L
    <3>1. n # k
      BY <1>1, <2>1, <2>5
    <3>2. Kept(p, LineOf(SendData(p) + n))
      BY <1>9, <2>1, <2>3, <2>5
    <3>3. QED
      BY <1>4, <2>2, <2>4, <3>1, <3>2, WordKept
  <2>6. CASE l = L
    <3>1. Val(p, L)' = t /\ At(p, L, 0)'
      BY <1>9 DEF Val, At
    <3>2. t[u] = Value(p, i, n)
      <4>1. CASE n = k
        BY <1>1, <1>7, <2>1, <4>1
      <4>2. CASE n # k
        <5>1. Val(p, l)[u] = Value(p, i, n)
          BY <2>1, <2>4, <4>2 DEF Shows
        <5>2. u # w
          BY <1>1, <2>1, <4>2, WordPlaces
        <5>3. QED
          BY <1>7, <2>3, <2>6, <5>1, <5>2
      <4>3. QED
        BY <4>1, <4>2
    <3>3. Value(p, i, n)' = Value(p, i, n)
      BY <1>4 DEF Value, PayloadWord, FlagValue, Not
    <3>4. (SendData(p) + n)' = u /\ LineOf(SendData(p) + n)' = L
      BY <2>1, <2>6 DEF LineOf, SendData, ReplyData, ForwardData, NextLine
    <3>5. QED
      BY <3>1, <3>2, <3>3, <3>4 DEF Shows
  <2>7. QED
    BY <2>5, <2>6
<1>13. i = iteration'[p] /\ pc'[p] \in {"publish", "fill", "read", "echo"}
  BY DEF Writing
<1>14. DataPart(p)'
  <2>1. CASE k + 1 = PayloadWords
    <3>1. \A n \in 0 .. PayloadWords - 1 : n \in 0 .. k
      BY <2>1
    <3>2. pc'[p] = "publish" /\ ~Writing(p)'
      BY <2>1 DEF Writing
    <3>3. QED
      BY <1>12, <1>13, <3>1, <3>2 DEF DataPart
  <2>2. CASE k + 1 # PayloadWords
    <3>1. Writing(p)' /\ \A n \in 0 .. word'[p] - 1 : n \in 0 .. k
      BY <2>2
    <3>2. pc'[p] \notin {"publish", "flag", "enter", "retireflag", "returned"}
      BY <3>1 DEF Writing
    <3>3. QED
      BY <1>12, <1>13, <3>1, <3>2 DEF DataPart
  <2>3. QED
    BY <2>1, <2>2
<1>15. FlagPart(p)'
  <2>1. FlagCarries(p)
    BY <1>2, <1>4, <1>9, Carries, FlagOwned
  <2>2. pc[p] \notin {"publishflag", "returned"} /\ pc'[p] \notin {"publishflag", "returned"}
    BY <1>13 DEF Writing
  <2>3. QED
    BY <1>4, <2>1, <2>2, FlagStays DEF IInv, Contents
<1>16. ReadPart(p)'
  <2>1. ~Reading(Peer(p))
    BY <1>4, WhenRead
  <2>2. ~Reading(Peer(p))'
    BY <2>1 DEF Reading
  <2>3. QED
    BY <2>2 DEF ReadPart
<1>17. ReadPart(Peer(p))'
  <2>1. DataLines(Peer(p))' = DataLines(Peer(p)) /\ Peer(Peer(p)) = p
    BY Peers DEF DataLines
  <2>2. QED
    BY <1>11, <2>1 DEF ReadPart
<1>18. Contents'
  BY <1>11, <1>14, <1>15, <1>16, <1>17, Peers DEF Contents
<1>19. QED
  BY <1>11, <1>18 DEF IInv

LEMMA FillKeeps ==
  ASSUME IInv, Fill PROVE IInv'
<1>1. PICK p \in Minions : p = "ping"
  BY DEF Minions
<1>2. PICK i, k : i = iteration[p] /\ k = word[p]
  OBVIOUS
<1>3. /\ pc[p] = "fill" /\ Control /\ Scalars
      /\ UNCHANGED <<argVars, iteration, sent, errors, completed, status, register, replaced>>
      /\ Store(p, SendData(p) + k, Value(p, i, k))
      /\ word' = [word EXCEPT ![p] = (@ + 1) % PayloadWords]
      /\ Goto(p, IF k + 1 = PayloadWords THEN "publish" ELSE "fill")
  BY <1>1, <1>2 DEF Fill, IInv, Control, Store, SendData, Value
<1>4. PICK a \in 0 .. Iterations, b \in 0 .. Iterations : StepsAt(a, b)
  BY <1>3, StepsPick
<1>5. word[p] < PayloadWords
  BY <1>1, <1>3, <1>4 DEF StepsAt, PingAt
<1>6. /\ word' \in [Minions -> 0 .. PayloadWords] /\ word'[Peer(p)] = word[Peer(p)]
      /\ k \in 0 .. PayloadWords - 1
      /\ k + 1 = PayloadWords => word'[p] = 0
      /\ k + 1 # PayloadWords => word'[p] = k + 1 /\ word'[p] < PayloadWords
  BY <1>2, <1>3, <1>5, WordNext
<1>7. PICK x \in Labels : x = IF k + 1 = PayloadWords THEN "publish" ELSE "fill"
  BY LabelsAre
<1>8. pc' \in [Minions -> Labels] /\ pc'[p] = x /\ pc'[Peer(p)] = pc[Peer(p)]
  BY <1>3, <1>7, GotoIs
<1>9. Scalars'
  BY <1>3, <1>6, <1>8 DEF Scalars, argVars
<1>10. PingAt(a, b)'
  BY <1>1, <1>3, <1>4, <1>6, <1>7, <1>8 DEF StepsAt, PingAt
<1>11. Steps'
  BY <1>1, <1>3, <1>4, <1>6, <1>8, <1>10, StepsNext
<1>12. Control'
  BY <1>3, <1>8, <1>9, <1>11, ControlNext
<1>13. Writing(p) /\ ~Reading(p)'
  BY <1>3, <1>7, <1>8 DEF Writing, Reading
<1>14. IF k + 1 = PayloadWords THEN pc'[p] = "publish" ELSE Writing(p)' /\ word'[p] = k + 1
  BY <1>6, <1>7, <1>8 DEF Writing
<1>15. i \in Int
  BY <1>2, <1>3, Typed
<1>16. QED
  BY <1>2, <1>3, <1>6, <1>8, <1>12, <1>13, <1>14, <1>15, StoreWord

LEMMA EchoKeeps ==
  ASSUME IInv, Echo PROVE IInv'
<1>1. PICK p \in Minions : p = "pong"
  BY DEF Minions
<1>2. PICK i, k : i = iteration[p] /\ k = word[p]
  OBVIOUS
<1>3. /\ pc[p] = "echo" /\ Control /\ Scalars
      /\ UNCHANGED <<argVars, iteration, sent, errors, completed, status, replaced>>
      /\ register' = 0
      /\ Store(p, SendData(p) + k, Not(register))
      /\ word' = [word EXCEPT ![p] = (@ + 1) % PayloadWords]
      /\ Goto(p, IF k + 1 = PayloadWords THEN "publish" ELSE "read")
  BY <1>1, <1>2 DEF Echo, IInv, Control, Store, SendData
<1>4. PICK a \in 0 .. Iterations, b \in 0 .. Iterations : StepsAt(a, b)
  BY <1>3, StepsPick
<1>5. word[p] < PayloadWords /\ register = PayloadWord(i, k)
  BY <1>1, <1>2, <1>3, <1>4 DEF StepsAt, PongAt
<1>6. /\ word' \in [Minions -> 0 .. PayloadWords] /\ word'[Peer(p)] = word[Peer(p)]
      /\ k \in 0 .. PayloadWords - 1
      /\ k + 1 = PayloadWords => word'[p] = 0
      /\ k + 1 # PayloadWords => word'[p] = k + 1 /\ word'[p] < PayloadWords
  BY <1>2, <1>3, <1>5, WordNext
<1>7. PICK x \in Labels : x = IF k + 1 = PayloadWords THEN "publish" ELSE "read"
  BY LabelsAre
<1>8. pc' \in [Minions -> Labels] /\ pc'[p] = x /\ pc'[Peer(p)] = pc[Peer(p)]
  BY <1>3, <1>7, GotoIs
<1>9. Scalars'
  <2>1. register' \in Int
    BY <1>3
  <2>2. QED
    BY <1>3, <1>6, <1>8, <2>1 DEF Scalars, argVars
<1>10. PongAt(a, b)'
  BY <1>1, <1>3, <1>4, <1>6, <1>7, <1>8 DEF StepsAt, PongAt
<1>11. Steps'
  BY <1>1, <1>3, <1>4, <1>6, <1>8, <1>10, StepsNext
<1>12. Control'
  BY <1>3, <1>8, <1>9, <1>11, ControlNext
<1>13. Writing(p) /\ Reading(p)
  BY <1>1, <1>3 DEF Writing, Reading
<1>14. IF k + 1 = PayloadWords THEN pc'[p] = "publish" ELSE Writing(p)' /\ word'[p] = k + 1
  BY <1>1, <1>6, <1>7, <1>8 DEF Writing
<1>15. i \in Int /\ Store(p, SendData(p) + k, Value(p, i, k))
  BY <1>1, <1>2, <1>3, <1>5, Typed DEF Value
<1>16. QED
  BY <1>2, <1>3, <1>6, <1>8, <1>12, <1>13, <1>14, <1>15, StoreWord

LEMMA RaiseFlagKeeps ==
  ASSUME IInv, NEW p \in Minions, RaiseFlag(p) PROVE IInv'
<1>1. PICK w, L, i, v : w = SendFlag(p) /\ L = FlagLine(p) /\ i = iteration[p] /\ v = FlagValue(i)
  OBVIOUS
<1>2. /\ pc[p] = "flag" /\ Control /\ Scalars /\ Owned
      /\ UNCHANGED <<argVars, sameShire, epoch, iteration, word, errors, completed, status>>
      /\ UNCHANGED <<register, replaced>>
      /\ Store(p, w, v) /\ Goto(p, "publishflag")
      /\ sent' = [sent EXCEPT ![p] = v]
  BY <1>1 DEF RaiseFlag, IInv, Control, Store, argVars
<1>3. PICK a \in 0 .. Iterations, b \in 0 .. Iterations : StepsAt(a, b)
  BY <1>2, StepsPick
<1>4. PICK V \in Nat : V = FlagValue(0) /\ \A j \in Int : FlagValue(j) = V + j
  BY <1>2, Typed, FlagValues
<1>5. /\ pc' \in [Minions -> Labels]
      /\ pc'[p] = "publishflag" /\ pc'[Peer(p)] = pc[Peer(p)]
  BY <1>2, LabelsAre, GotoIs
<1>6. /\ i \in 1 .. Iterations /\ i \in Int
      /\ p = "ping" => i = a + 1 /\ b = a
      /\ p = "pong" => i = b + 1 /\ a = i
  <2>1. p = "ping" => i = a + 1 /\ b = a /\ i <= Iterations
    BY <1>1, <1>2, <1>3 DEF StepsAt, PingAt
  <2>2. p = "pong" => i = b + 1 /\ a = i /\ i <= Iterations
    BY <1>1, <1>2, <1>3 DEF StepsAt, PongAt
  <2>3. QED
    BY <2>1, <2>2, ChannelAssumption DEF Minions
<1>7. v = V + i /\ v \in Nat /\ v # 0 /\ sent[p] <= v /\ sent[p] \in Nat
  <2>1. v = V + i
    BY <1>1, <1>4, <1>6
  <2>2. sent[p] \in Nat
    BY <1>2, Typed
  <2>3. PICK n \in 0 .. Iterations : Sent(p, n) /\ n < i
    BY <1>3, <1>6 DEF StepsAt, Minions
  <2>4. sent[p] <= V + n
    BY <1>2, <1>4, <2>3, SentIs
  <2>5. QED
    BY <1>4, <1>6, <2>1, <2>2, <2>3, <2>4
<1>8. sent' \in [Minions -> Nat] /\ sent'[p] = v /\ sent'[Peer(p)] = sent[Peer(p)]
  <2>1. sent \in [Minions -> Nat]
    BY <1>2, Zenon DEF Scalars
  <2>2. QED
    BY <1>2, <1>7, <2>1, Peers
<1>9. Scalars'
  BY <1>2, <1>5, <1>8 DEF Scalars, argVars
<1>10. \A j \in Int : FlagValue(j)' = V + j
  BY <1>2, <1>4 DEF FlagValue
<1>11. Steps'
  <2>1. ASSUME NEW n PROVE Sent(Peer(p), n) => Sent(Peer(p), n)'
    BY <1>2, <1>8, SentKept
  <2>2. Sent(p, i)'
    <3>1. FlagValue(i)' = v /\ i # 0
      BY <1>6, <1>7, <1>10
    <3>2. QED
      BY <1>8, <3>1 DEF Sent
  <2>3. CASE p = "ping"
    <3>1. i \in 0 .. Iterations /\ b <= i /\ i <= b + 1
      BY <1>6, <2>3
    <3>2. Sent("ping", i)' /\ Sent("pong", b)'
      BY <1>3, <2>1, <2>2, <2>3 DEF StepsAt, Peer
    <3>3. PingAt(i, b)'
      <4>1. word'["ping"] = 0
        BY <1>2, <1>3, <2>3 DEF StepsAt, PingAt
      <4>2. completed'["ping"] <= b
        BY <1>2, <1>3 DEF StepsAt, PingAt
      <4>3. iteration'["ping"] = i /\ i > 0 /\ pc'["ping"] = "publishflag"
        BY <1>1, <1>2, <1>5, <1>6, <2>3
      <4>4. QED
        BY <4>1, <4>2, <4>3 DEF PingAt
    <3>4. PongAt(a, b)'
      BY <1>2, <1>3, <1>5, <2>3, PongKept DEF StepsAt, Peer
    <3>5. pc["pong"] \notin {"refresh", "read", "echo", "publish", "flag"}
      BY <1>3, <1>6, <2>3 DEF StepsAt, PongAt
    <3>6. PongAt(i, b)'
      <4>1. pc'["pong"] \notin {"refresh", "read", "echo", "publish", "flag"}
        BY <1>5, <2>3, <3>5 DEF Peer
      <4>2. QED
        BY <3>4, <4>1 DEF PongAt
    <3>7. QED
      BY <3>1, <3>2, <3>3, <3>6 DEF Steps, StepsAt
  <2>4. CASE p = "pong"
    <3>1. i \in 0 .. Iterations /\ i <= a /\ a <= i + 1
      BY <1>6, <2>4
    <3>2. Sent("ping", a)' /\ Sent("pong", i)'
      BY <1>3, <2>1, <2>2, <2>4 DEF StepsAt, Peer
    <3>3. PongAt(a, i)'
      <4>1. completed'["pong"] <= i
        <5>1. completed["pong"] <= b /\ completed["pong"] \in 0 .. Iterations
          BY <1>2, <1>3, Typed DEF StepsAt, PongAt, Minions
        <5>2. QED
          BY <1>2, <1>6, <2>4, <5>1
      <4>2. iteration'["pong"] = i /\ i > 0 /\ pc'["pong"] = "publishflag"
        BY <1>1, <1>2, <1>5, <1>6, <2>4
      <4>3. QED
        BY <4>1, <4>2 DEF PongAt
    <3>4. PingAt(a, b)'
      BY <1>2, <1>3, <1>5, <2>4, PingKept DEF StepsAt, Peer
    <3>5. pc["ping"] \notin {"fill", "publish", "flag", "refresh", "read", "complete"}
      BY <1>3, <1>6, <2>4 DEF StepsAt, PingAt
    <3>6. PingAt(a, i)'
      <4>1. pc'["ping"] \notin {"fill", "publish", "flag", "refresh", "read", "complete"}
        BY <1>5, <2>4, <3>5 DEF Peer
      <4>2. completed'["ping"] <= i
        <5>1. completed["ping"] <= b /\ completed["ping"] \in 0 .. Iterations
          BY <1>2, <1>3, Typed DEF StepsAt, PingAt, Minions
        <5>2. QED
          BY <1>2, <1>6, <2>4, <5>1
      <4>3. QED
        BY <3>4, <4>1, <4>2 DEF PingAt
    <3>7. QED
      BY <3>1, <3>2, <3>3, <3>6 DEF Steps, StepsAt
  <2>5. QED
    BY <2>3, <2>4 DEF Minions
<1>12. Control'
  BY <1>2, <1>5, <1>8, <1>9, <1>11, ControlNext
<1>13. Grows(p)
  <2>1. \A x \in Int : x <= sent[p] => x <= v
    BY <1>7
  <2>2. FlagValue(0)' = FlagValue(0)
    BY <1>2 DEF FlagValue
  <2>3. QED
    BY <1>8, <2>1, <2>2 DEF Grows, NoFuture
<1>14. L \in OwnLines(p) /\ w \in WordsOf(L) /\ L = LineOf(w)
  BY <1>1, FlagOwned, WordPlaces DEF FlagLine
<1>15. PICK t, D : t = Put(Path(p, L), w, v) /\ D = Data(p, L)'
  OBVIOUS
<1>16. Data(p, L) \subseteq D /\ D \subseteq [WordsOf(L) -> Int]
  BY <1>13, <1>14, <1>15, DataGrows
<1>17. t \in D /\ t[w] = v
  <2>1. IsPath(Path(p, L), Data(p, L)) /\ Data(p, L) \subseteq [WordsOf(L) -> Int]
    BY <1>2, <1>14, OwnIs DEF Owned, Own
  <2>2. v \in Int
    BY <1>7
  <2>3. Put(Path(p, L), w, v) \in [WordsOf(L) -> Int] /\ Put(Path(p, L), w, v)[w] = v
    <3>1. PICK x, E, W : x = Path(p, L) /\ E = Data(p, L) /\ W = WordsOf(L)
      OBVIOUS
    <3>2. IsPath(x, E) /\ E \subseteq [W -> Int] /\ w \in W
      BY <1>14, <2>1, <3>1
    <3>3. /\ Put(x, w, v) \in [W -> Int] /\ Put(x, w, v)[w] = v
          /\ \A u \in W : u # w => Put(x, w, v)[u] = Top(x)[u]
      BY <2>2, <3>2, PutIs
    <3>4. QED
      BY <3>1, <3>3
  <2>4. NoFuture(p, v)'
    <3>1. v <= sent'[p]
      BY <1>7, <1>8
    <3>2. QED
      BY <3>1 DEF NoFuture
  <2>5. WordsOf(L)' = WordsOf(L) /\ SendFlag(p)' = w
    BY <1>1 DEF WordsOf, Words, Payload, Flags, Area
  <2>6. t \in [WordsOf(L) -> Int] /\ t[w] = v
    BY <1>15, <2>3
  <2>7. D = {x \in [WordsOf(L) -> Int] : L = FlagLine(p)' => NoFuture(p, x[w])'}
    BY <1>15, <2>5 DEF Data
  <2>8. QED
    BY <2>4, <2>6, <2>7
<1>18. /\ Held'
       /\ \A m \in Minions : \A l \in OwnLines(m) : l # L => Kept(m, l)
       /\ IsPath(Path(p, L)', D) /\ IsPath(Path(Peer(p), L)', D)
       /\ Quiet(Path(Peer(p), L)', Shared)
       /\ Settled(Path(p, L)', 0)
       /\ Top(Path(p, L)') = t
  BY <1>2, <1>14, <1>15, <1>16, <1>17, StoreKeeps
<1>19. /\ Owned'
       /\ FlagPart(Peer(p))' /\ DataPart(Peer(p))'
  <2>1. word'[Peer(p)] = word[Peer(p)] /\ iteration'[Peer(p)] = iteration[Peer(p)]
    BY <1>2
  <2>2. QED
    BY <1>2, <1>5, <1>8, <1>13, <1>14, <1>15, <1>18, <2>1, StoreStep
<1>20. FlagPart(p)'
  <2>1. FlagDepth(p)' = 0 /\ FlagLine(p)' = L /\ SendFlag(p)' = w
    BY <1>1, <1>5 DEF FlagDepth, FlagLine
  <2>2. At(p, L, 0)' /\ Val(p, L)' = t
    BY <1>18 DEF At, Val
  <2>3. QED
    BY <1>5, <1>7, <1>8, <1>17, <2>1, <2>2 DEF FlagPart
<1>21. DataPart(p)'
  <2>1. DataCarries(p)
    <3>1. \A l \in DataLines(p) : Kept(p, l)
      BY <1>1, <1>18, PayloadLine
    <3>2. QED
      BY <1>2, <3>1, Carries
  <2>2. ASSUME NEW j \in 1 .. Iterations, sent'[p] = FlagValue(j)', NEW k \in 0 .. PayloadWords - 1
        PROVE  Shows(p, j, k, DataDepth(p))'
    <3>1. j = i
      <4>1. V + i = V + j
        BY <1>7, <1>8, <1>10, <2>2
      <4>2. QED
        BY <1>4, <1>6, <4>1
    <3>2. PICK d : d = writebackLevel
      OBVIOUS
    <3>3. d \in 0 .. 3
      BY <1>2, <3>2, DepthIs
    <3>4. Shows(p, i, k, d)
      BY <1>1, <1>2, <3>2 DEF IInv, Contents, DataPart
    <3>5. Shows(p, i, k, d)'
      BY <1>6, <2>1, <3>3, <3>4 DEF DataCarries, WordsCarry
    <3>6. d = DataDepth(p)'
      BY <1>2, <1>5, <3>2 DEF DataDepth, argVars
    <3>7. QED
      BY <3>1, <3>5, <3>6
  <2>3. ~Writing(p)' /\ pc'[p] \notin {"publish", "flag", "enter", "retireflag", "returned"}
    BY <1>5 DEF Writing
  <2>4. QED
    BY <2>2, <2>3 DEF DataPart
<1>22. ReadPart(p)'
  <2>1. ~Reading(Peer(p))
    BY <1>2, WhenRead
  <2>2. ~Reading(Peer(p))'
    BY <1>5, <2>1 DEF Reading
  <2>3. QED
    BY <2>2 DEF ReadPart
<1>23. ReadPart(Peer(p))'
  <2>1. ~Reading(p)' /\ Peer(Peer(p)) = p
    BY <1>5, Peers DEF Reading
  <2>2. QED
    BY <2>1 DEF ReadPart
<1>24. Contents'
  BY <1>19, <1>20, <1>21, <1>22, <1>23, Peers DEF Contents
<1>25. QED
  BY <1>12, <1>19, <1>24 DEF IInv

\* Values of the next launch are beyond those of this one.
LEMMA NextValues ==
  ASSUME epoch \in Nat, epoch' = epoch + 1
  PROVE  FlagValue(0)' = FlagValue(0) + (Iterations + 1) /\ FlagValue(0) \in Nat
         /\ \A i \in Int : FlagValue(i)' = FlagValue(0) + (Iterations + 1) + i
<1>1. PICK n \in Nat : n = Iterations + 1
  BY ChannelAssumption
<1>2. PICK e \in Nat : e = epoch
  OBVIOUS
<1>3. e * n \in Nat /\ (e + 1) * n = e * n + n
  OBVIOUS
<1>4. PICK t \in Nat : t = e * n /\ (e + 1) * n = t + n
  BY <1>3
<1>5. FlagValue(0) = t
  BY <1>1, <1>2, <1>4 DEF FlagValue
<1>6. \A i \in Int : FlagValue(i)' = t + n + i
  BY <1>1, <1>2, <1>4 DEF FlagValue
<1>7. FlagValue(0)' = t + n
  BY <1>6
<1>8. QED
  BY <1>1, <1>5, <1>6, <1>7

LEMMA LaunchScalars ==
  ASSUME Scalars, Launch
  PROVE  Scalars'
<1>1. PICK level \in Levels : writebackLevel' = level[1] /\ invalidateLevel' = level[2]
  BY Zenon DEF Launch
<1>2. <<writebackLevel', invalidateLevel'>> \in Levels
  <2>1. PICK x \in Nat, y \in Nat : level = <<x, y>>
    BY ChannelAssumption
  <2>2. QED
    BY <1>1, <2>1
<1>3. epoch' \in 0 .. MaxEpochs
  <2>1. epoch \in 0 .. MaxEpochs /\ epoch < MaxEpochs /\ epoch' = epoch + 1
    BY Zenon DEF Launch, Scalars
  <2>2. QED
    BY <2>1, ChannelAssumption
<1>4. pc' \in [Minions -> Labels]
  BY DEF Launch, Labels
<1>5. /\ iteration' \in [Minions -> 0 .. Iterations + 1] /\ word' \in [Minions -> 0 .. PayloadWords]
      /\ completed' \in [Minions -> 0 .. Iterations]
  <2>1. 0 \in 0 .. Iterations + 1 /\ 0 \in 0 .. PayloadWords /\ 0 \in 0 .. Iterations
    BY ChannelAssumption
  <2>2. QED
    BY <2>1 DEF Launch
<1>6. register' \in Int /\ sent' \in [Minions -> Nat] /\ errors' \in [Minions -> Nat]
  BY DEF Launch
<1>7. status' \in [Minions -> {"none", "ok", "timeout", "bad arguments"}]
  BY DEF Launch
<1>8. replaced' \in 0 .. MaxReplacements
  BY DEF Launch, Scalars
<1>9. QED
  BY <1>2, <1>3, <1>4, <1>5, <1>6, <1>7, <1>8 DEF Scalars

LEMMA LaunchKeeps ==
  ASSUME IInv, Launch PROVE IInv'
<1>1. /\ Control /\ Scalars /\ Owned
      /\ \A m \in Minions : pc[m] = "returned" /\ pc'[m] = "enter" /\ sent'[m] = 0
      /\ \A m \in Minions : iteration'[m] = 0 /\ completed'[m] = 0 /\ errors'[m] = 0
      /\ epoch' = epoch + 1 /\ ddr' = [w \in Words |-> 0]
      /\ UNCHANGED <<copy, sameShire>>
  BY DEF Launch, IInv, Control
<1>2. Scalars'
  BY <1>1, LaunchScalars
<1>3. Minions = {"ping", "pong"} /\ epoch \in Nat
  BY <1>1, Typed DEF Minions
<1>4. PICK V \in Nat : /\ V = FlagValue(0) /\ FlagValue(0)' = V + (Iterations + 1)
                       /\ \A i \in Int : FlagValue(i)' = V + (Iterations + 1) + i
  BY <1>1, <1>3, NextValues
<1>5. Control'
  <2>1. Accepted'
    BY <1>1 DEF Accepted
  <2>2. PayloadFresh'
    BY <1>1 DEF PayloadFresh
  <2>3. Steps'
    <3>1. Sent("ping", 0)' /\ Sent("pong", 0)'
      BY <1>1, <1>3 DEF Sent
    <3>2. PingAt(0, 0)'
      BY <1>1, <1>3 DEF PingAt
    <3>3. PongAt(0, 0)'
      BY <1>1, <1>3 DEF PongAt
    <3>4. 0 \in 0 .. Iterations /\ 0 <= 0 /\ 0 <= 0 + 1
      BY ChannelAssumption
    <3>5. StepsAt(0, 0)'
      BY <3>1, <3>2, <3>3, <3>4 DEF StepsAt
    <3>6. QED
      BY <3>4, <3>5 DEF Steps
  <2>4. QED
    BY <1>2, <2>1, <2>2, <2>3 DEF Control
<1>6. PICK a \in 0 .. Iterations, b \in 0 .. Iterations : StepsAt(a, b)
  BY <1>1, StepsPick
<1>7. ASSUME NEW m \in Minions PROVE Grows(m)
  <2>1. PICK n \in 0 .. Iterations : Sent(m, n)
    BY <1>3, <1>6 DEF StepsAt
  <2>2. sent[m] <= V + n /\ sent[m] \in Nat
    BY <1>1, <1>4, <2>1, SentIs, Typed
  <2>3. \A v \in Int : v <= sent[m] \/ v <= V => v <= V + (Iterations + 1)
    BY <2>2, ChannelAssumption
  <2>4. QED
    BY <1>4, <2>3 DEF Grows, NoFuture
<1>8. ASSUME NEW m \in Minions, NEW l \in OwnLines(m) PROVE QuietBoth(m, l)
  BY <1>1, <1>8 DEF OwnLines, IInv, Contents, FlagPart, DataPart
<1>9. ASSUME NEW m \in Minions, NEW l \in OwnLines(m)
      PROVE  Own(m, l)' /\ QuietBoth(m, l)' /\ ddr'[SendFlag(m)] = 0
  <2>1. PICK D : D = Data(m, l)'
    OBVIOUS
  <2>2. Data(m, l) \subseteq D /\ D \subseteq [WordsOf(l) -> Int]
    BY <1>7, <2>1, DataGrows
  <2>3. Zeros(l) \in D
    <3>1. WordsOf(l)' = WordsOf(l) /\ SendFlag(m)' = SendFlag(m)
      BY DEF WordsOf, Words, Payload, Flags, Area
    <3>2. NoFuture(m, 0)'
      BY <1>1 DEF NoFuture
    <3>3. Zeros(l) \in [WordsOf(l) -> Int]
      BY DEF Zeros
    <3>4. l = FlagLine(m) => Zeros(l)[SendFlag(m)] = 0
      BY WordPlaces DEF Zeros
    <3>5. D = {v \in [WordsOf(l) -> Int] : l = FlagLine(m)' => NoFuture(m, v[SendFlag(m)])'}
      BY <2>1, <3>1 DEF Data
    <3>6. FlagLine(m)' = FlagLine(m)
      BY DEF FlagLine
    <3>7. QED
      BY <3>2, <3>3, <3>4, <3>5, <3>6
  <2>4. /\ IsPath(Path(m, l)', D) /\ IsPath(Path(Peer(m), l)', D)
        /\ QuietBoth(m, l)' /\ Quiet(Path(Peer(m), l)', Shared)
        /\ ddr'[SendFlag(m)] = 0
    BY <1>1, <1>8, <2>2, <2>3, UploadPaths
  <2>5. Shared' = Shared
    BY <1>1 DEF Shared
  <2>6. QED
    BY <2>1, <2>4, <2>5 DEF Own
<1>10. Owned'
  <2>1. Held'
    BY <1>1 DEF Owned, Held
  <2>2. \A m \in Minions : OwnLines(m)' = OwnLines(m)
    BY DEF OwnLines, FlagLine, DataLines
  <2>3. QED
    BY <1>9, <2>1, <2>2 DEF Owned
<1>11. ASSUME NEW m \in Minions PROVE FlagPart(m)' /\ DataPart(m)' /\ ReadPart(m)'
  <2>1. QuietBoth(m, FlagLine(m))' /\ ddr'[SendFlag(m)] = 0
    <3>1. PICK l : l = FlagLine(m)
      OBVIOUS
    <3>2. l = FlagLine(m)'
      BY <3>1 DEF FlagLine
    <3>3. QuietBoth(m, l)' /\ ddr'[SendFlag(m)] = 0
      BY <1>9, <3>1, FlagOwned
    <3>4. QED
      BY <3>2, <3>3
  <2>2. FlagPart(m)'
    BY <1>1, <2>1 DEF FlagPart
  <2>3. \A l \in DataLines(m) : QuietBoth(m, l)'
    BY <1>9, FlagOwned
  <2>4. \A i \in 1 .. Iterations : sent'[m] # FlagValue(i)'
    BY <1>1, <1>4, ChannelAssumption
  <2>5. ~Writing(m)' /\ DataLines(m)' = DataLines(m) /\ pc'[m] = "enter"
    BY <1>1 DEF Writing, DataLines
  <2>6. DataPart(m)'
    BY <2>3, <2>4, <2>5 DEF DataPart
  <2>7. ReadPart(m)'
    BY <1>1, Peers DEF ReadPart, Reading
  <2>8. QED
    BY <2>2, <2>6, <2>7
<1>12. Contents'
  BY <1>11 DEF Contents
<1>13. QED
  BY <1>5, <1>10, <1>12 DEF IInv

-----------------------------------------------------------------------------
(***************************************************************************)
(* The theorems.                                                           *)
(***************************************************************************)
LEMMA EmptyPath ==
  ASSUME Init, NEW p \in Minions, NEW l \in Lines, NEW D, Zeros(l) \in D,
         D \subseteq [WordsOf(l) -> Int]
  PROVE  /\ IsPath(Path(p, l), D)
         /\ \A n \in 1 .. 3 : Quiet(Path(p, l), n)
         /\ ddr = [w \in Words |-> 0]
<1>1. PICK x : x = Path(p, l)
  OBVIOUS
<1>2. ASSUME NEW k \in 0 .. 2 PROVE x[k] = None
  <2>1. copy[Cache(p, k)][l] = None
    BY <1>2, CacheIs DEF Init
  <2>2. QED
    BY <1>1, <2>1, PathAt
<1>3. x[3] = Line(Zeros(l), FALSE)
  <2>1. \A w \in WordsOf(l) : w \in Words
    BY DEF WordsOf
  <2>2. InDdr(l) = Zeros(l)
    BY <2>1 DEF Init, InDdr, Zeros
  <2>3. Path(p, l)[3] = Line(InDdr(l), FALSE)
    BY PathEnd
  <2>4. QED
    BY <1>1, <2>2, <2>3
<1>4. x = [k \in 0 .. 3 |-> x[k]]
  BY <1>1, PathDomain
<1>5. None \notin Copies(D)
  BY NoneAssumption DEF Copies
<1>6. x[3] \in Copies(D) /\ ~Modified(x[3]) /\ x[3] # None
  <2>1. Line(Zeros(l), FALSE) \in Copies(D) /\ ~Line(Zeros(l), FALSE).dirty
    BY DEF Line, Copies
  <2>2. QED
    BY <1>3, <1>5, <2>1 DEF Modified
<1>7. \A k \in 0 .. 3 : x[k] \in {None} \cup Copies(D)
  <2>1. \A k \in 0 .. 3 : k = 3 \/ k \in 0 .. 2
    OBVIOUS
  <2>2. QED
    BY <1>2, <1>6, <2>1
<1>8. IsPath(x, D)
  BY <1>4, <1>5, <1>6, <1>7 DEF IsPath
<1>9. \A n \in 1 .. 3 : Quiet(x, n)
  <2>1. \A n \in 1 .. 3 : \A k \in 0 .. n - 1 : k \in 0 .. 2
    OBVIOUS
  <2>2. QED
    BY <1>2, <2>1 DEF Quiet, Modified
<1>10. QED
  BY <1>1, <1>8, <1>9 DEF Init

LEMMA InitInv == Init => IInv
<1> SUFFICES ASSUME Init PROVE IInv
  OBVIOUS
<1>1. /\ \A m \in Minions : pc[m] = "returned" /\ sent[m] = 0 /\ iteration[m] = 0
      /\ \A m \in Minions : completed[m] = 0 /\ errors[m] = 0
      /\ epoch = 0 /\ writebackLevel = Mem /\ invalidateLevel = Mem
  BY DEF Init
<1>2. Minions = {"ping", "pong"}
  BY DEF Minions
<1>3. Scalars
  <2>1. /\ 0 \in 0 .. Iterations + 1 /\ 0 \in 0 .. PayloadWords /\ 0 \in 0 .. Iterations
        /\ 0 \in 0 .. MaxEpochs /\ 0 \in 0 .. MaxReplacements
    BY ChannelAssumption
  <2>2. "returned" \in Labels
    BY DEF Labels
  <2>3. iteration \in [Minions -> 0 .. Iterations + 1] /\ word \in [Minions -> 0 .. PayloadWords]
    BY <2>1 DEF Init
  <2>4. completed \in [Minions -> 0 .. Iterations] /\ pc \in [Minions -> Labels]
    BY <2>1, <2>2 DEF Init
  <2>5. register \in Int /\ sent \in [Minions -> Nat] /\ errors \in [Minions -> Nat]
    BY DEF Init
  <2>6. status \in [Minions -> {"none", "ok", "timeout", "bad arguments"}]
    BY DEF Init
  <2>7. replaced \in 0 .. MaxReplacements /\ epoch \in 0 .. MaxEpochs
    BY <2>1 DEF Init
  <2>8. QED
    BY <1>1, <2>3, <2>4, <2>5, <2>6, <2>7 DEF Scalars
<1>4. Control
  <2>1. Accepted /\ PayloadFresh
    BY <1>1 DEF Accepted, PayloadFresh
  <2>2. 0 \in 0 .. Iterations /\ 0 <= 0 /\ 0 <= 0 + 1
    BY ChannelAssumption
  <2>3. PingAt(0, 0) /\ PongAt(0, 0)
    BY <1>1, <1>2 DEF PingAt, PongAt
  <2>4. Sent("ping", 0) /\ Sent("pong", 0)
    BY <1>1, <1>2 DEF Sent
  <2>5. Steps
    BY <2>2, <2>3, <2>4 DEF Steps, StepsAt
  <2>6. QED
    BY <1>3, <2>1, <2>5 DEF Control
<1>5. ASSUME NEW m \in Minions, NEW l \in OwnLines(m) PROVE Own(m, l) /\ QuietBoth(m, l)
  <2>1. l \in Lines /\ Data(m, l) \subseteq [WordsOf(l) -> Int]
    BY OwnIs
  <2>2. Zeros(l) \in Data(m, l)
    <3>1. NoFuture(m, 0)
      BY <1>1 DEF NoFuture
    <3>2. l = FlagLine(m) => Zeros(l)[SendFlag(m)] = 0
      BY WordPlaces DEF Zeros
    <3>3. Zeros(l) \in [WordsOf(l) -> Int]
      BY DEF Zeros
    <3>4. QED
      BY <3>1, <3>2, <3>3 DEF Data
  <2>3. ASSUME NEW p \in Minions
        PROVE  IsPath(Path(p, l), Data(m, l)) /\ \A n \in 1 .. 3 : Quiet(Path(p, l), n)
    BY <2>1, <2>2, EmptyPath
  <2>4. Shared \in 1 .. 3 /\ 3 \in 1 .. 3
    BY DEF Shared
  <2>5. QED
    BY <2>3, <2>4, Peers DEF Own, QuietBoth
<1>6. Owned
  <2>1. sameShire \in BOOLEAN /\ ddr = [w \in Words |-> ddr[w]]
    BY DEF Init
  <2>2. copy = [c \in Caches |-> [l \in Lines |-> None]]
    BY DEF Init
  <2>3. copy = [c \in Caches |-> [l \in Lines |-> copy[c][l]]]
    BY <2>2
  <2>4. \A l \in Lines : copy[<<"L2", "pong">>][l] = None
    BY <2>2 DEF Caches, Minions
  <2>5. QED
    BY <1>5, <2>1, <2>3, <2>4 DEF Owned, Held
<1>7. ASSUME NEW m \in Minions PROVE FlagPart(m) /\ DataPart(m) /\ ReadPart(m)
  <2>1. QuietBoth(m, FlagLine(m)) /\ \A l \in DataLines(m) : QuietBoth(m, l)
    BY <1>5, FlagOwned
  <2>2. ddr[SendFlag(m)] = 0
    BY WordPlaces DEF Init, WordsOf
  <2>3. FlagPart(m)
    BY <1>1, <2>1, <2>2 DEF FlagPart
  <2>4. \A i \in 1 .. Iterations : sent[m] # FlagValue(i)
    <3>1. PICK V \in Nat : \A j \in Int : FlagValue(j) = V + j
      BY <1>1, FlagValues
    <3>2. QED
      BY <1>1, <3>1
  <2>5. DataPart(m)
    BY <1>1, <2>1, <2>4 DEF DataPart, Writing
  <2>6. ReadPart(m)
    BY <1>1, Peers DEF ReadPart, Reading
  <2>7. QED
    BY <2>3, <2>5, <2>6
<1>8. QED
  BY <1>4, <1>6, <1>7 DEF IInv, Contents

LEMMA SameInv ==
  ASSUME IInv, UNCHANGED vars PROVE IInv'
<1>1. /\ UNCHANGED argVars /\ UNCHANGED <<copy, ddr, sameShire, replaced>>
      /\ UNCHANGED <<pc, iteration, word, register, sent, errors, completed, status>>
      /\ Control /\ Owned
  BY DEF vars, memoryVars, argVars, minionVars, IInv
<1>2. AllKept
  BY <1>1, SameKeeps
<1>3. PICK p \in Minions : p = "ping"
  BY DEF Minions
<1>4. Scalars'
  BY <1>1 DEF Control, Scalars, argVars
<1>5. PICK a \in 0 .. Iterations, b \in 0 .. Iterations : StepsAt(a, b)
  BY <1>1, StepsPick
<1>6. PingAt(a, b)' /\ PongAt(a, b)'
  BY <1>1, <1>5, PingKept, PongKept DEF StepsAt, argVars
<1>7. Steps'
  BY <1>1, <1>5, <1>6, StepsNext
<1>8. Control'
  <2>1. Accepted'
    BY <1>1 DEF Control, Accepted, Shared, argVars
  <2>2. PayloadFresh'
    BY <1>1 DEF Control, PayloadFresh
  <2>3. QED
    BY <1>4, <1>7, <2>1, <2>2 DEF Control
<1>9. FlagPart(p)' /\ DataPart(p)'
  <2>1. FlagPart(p) /\ DataPart(p) /\ FlagCarries(p) /\ DataCarries(p)
    BY <1>1, <1>2, MoveParts
  <2>2. QED
    BY <1>1, <2>1, PartKept
<1>10. Reading(p)' => Reading(p)
  BY <1>1 DEF Reading
<1>11. QED
  BY <1>1, <1>2, <1>8, <1>9, <1>10, QuietNext

LEMMA NextInv == IInv /\ [Next]_vars => IInv'
<1> SUFFICES ASSUME IInv, [Next]_vars PROVE IInv'
  OBVIOUS
<1>1. CASE Launch
  BY <1>1, LaunchKeeps
<1>2. ASSUME NEW m \in Minions, Step(m) PROVE IInv'
  BY <1>2, EnterKeeps, PublishKeeps, RaiseFlagKeeps, PublishFlagKeeps, PollKeeps, LookKeeps,
     RefreshKeeps, ReadKeeps, RetireKeeps, RetireFlagKeeps DEF Step
<1>3. ASSUME NEW m \in Minions, TimesOut(m) PROVE IInv'
  BY <1>3, TimesOutKeeps
<1>4. CASE Fill
  BY <1>4, FillKeeps
<1>5. CASE Complete
  BY <1>5, CompleteKeeps
<1>6. CASE Echo
  BY <1>6, EchoKeeps
<1>7. ASSUME NEW m \in Minions, NEW k \in 0 .. Mem - 1, NEW l \in Lines, Replace(m, k, l)
      PROVE  IInv'
  BY <1>7, ReplaceStepKeeps
<1>8. CASE UNCHANGED vars
  BY <1>8, SameInv
<1>9. QED
  BY <1>1, <1>2, <1>3, <1>4, <1>5, <1>6, <1>7, <1>8 DEF Next

\* Every step of the kernel, of the caches and of the host keeps what the caches and
\* DDR hold of each line in keeping with where its Minion is.
THEOREM ChannelInductive == Spec => []IInv
BY InitInv, NextInv, PTL DEF Spec

\* `invalidate_received` and the verification after it never count an error: after a
\* flag is seen, the payload it announces is read, at all levels, whatever the caches
\* replace, over all launches and after timeouts.
THEOREM PayloadAlwaysFresh == Spec => []PayloadFresh
<1>1. IInv => PayloadFresh
  BY DEF IInv, Control
<1>2. QED
  BY <1>1, ChannelInductive, PTL

\* Every cache is on a path, but an L2 that nobody uses.
LEMMA CacheOnPath ==
  ASSUME Held, NEW c \in Caches
  PROVE  \/ \E p \in Minions, k \in 0 .. 2 : c = Cache(p, k)
         \/ \A l \in Lines : copy[c][l] = None
<1>1. c \in {<<"L1", "ping">>, <<"L1", "pong">>, <<"L2", "ping">>, <<"L2", "pong">>, <<"L3", "ping">>}
  BY DEF Caches, Minions
<1>2. /\ Cache("ping", 0) = <<"L1", "ping">> /\ Cache("pong", 0) = <<"L1", "pong">>
      /\ Cache("ping", 1) = <<"L2", "ping">> /\ Cache("ping", 2) = <<"L3", "ping">>
      /\ ~sameShire => Cache("pong", 1) = <<"L2", "pong">>
  BY DEF Cache
<1>3. "ping" \in Minions /\ "pong" \in Minions /\ 0 \in 0 .. 2 /\ 1 \in 0 .. 2 /\ 2 \in 0 .. 2
  BY DEF Minions
<1>4. CASE c = <<"L2", "pong">> /\ sameShire
  BY <1>4 DEF Held
<1>5. CASE c # <<"L2", "pong">> \/ ~sameShire
  BY <1>1, <1>2, <1>3, <1>5
<1>6. QED
  BY <1>4, <1>5

LEMMA WordInDdr ==
  ASSUME NEW m, NEW l, NEW w \in WordsOf(l)
  PROVE  ddr[w] = Path(m, l)[3].data[w]
<1>1. Path(m, l)[3] = Line(InDdr(l), FALSE)
  BY PathEnd
<1>2. \A d : Line(d, FALSE).data = d
  BY DEF Line
<1>3. Path(m, l)[3].data = InDdr(l)
  BY <1>1, <1>2
<1>4. InDdr(l)[w] = ddr[w]
  BY DEF InDdr
<1>5. QED
  BY <1>3, <1>4

LEMMA OwnedTyped ==
  ASSUME Owned
  PROVE  /\ \A c \in Caches, l \in Lines : copy[c][l] \in CopyOf(l)
         /\ ddr \in [Words -> Int]
<1>1. ASSUME NEW p \in Minions, NEW l \in Lines
      PROVE  \E D : IsPath(Path(p, l), D) /\ D \subseteq [WordsOf(l) -> Int]
  <2>1. PICK m \in Minions : l \in OwnLines(m)
    BY OwnerIs
  <2>2. Own(m, l) /\ Data(m, l) \subseteq [WordsOf(l) -> Int]
    BY <2>1, OwnIs DEF Owned
  <2>3. IsPath(Path(p, l), Data(m, l))
    BY <2>1, <2>2, Peers DEF Own
  <2>4. QED
    BY <2>2, <2>3
<1>2. ASSUME NEW c \in Caches, NEW l \in Lines PROVE copy[c][l] \in CopyOf(l)
  <2>1. CASE \A j \in Lines : copy[c][j] = None
    BY <2>1 DEF CopyOf
  <2>2. ASSUME NEW p \in Minions, NEW k \in 0 .. 2, c = Cache(p, k) PROVE copy[c][l] \in CopyOf(l)
    <3>1. PICK x, D : x = Path(p, l) /\ IsPath(x, D) /\ D \subseteq [WordsOf(l) -> Int]
      BY <1>1
    <3>2. x[k] = copy[c][l] /\ k \in 0 .. 3
      BY <2>2, <3>1, PathAt
    <3>3. x[k] \in {None} \cup Copies(D)
      BY <3>1, <3>2 DEF IsPath
    <3>4. Copies(D) \subseteq [data : [WordsOf(l) -> Int], dirty : BOOLEAN]
      BY <3>1 DEF Copies
    <3>5. QED
      BY <3>2, <3>3, <3>4 DEF CopyOf
  <2>3. QED
    BY <2>1, <2>2, CacheOnPath DEF Owned
<1>3. ASSUME NEW w \in Words PROVE ddr[w] \in Int
  <2>1. PICK l \in Lines : l = LineOf(w) /\ w \in WordsOf(l)
    BY DEF Lines, WordsOf
  <2>2. PICK p \in Minions : p = "ping"
    BY DEF Minions
  <2>3. PICK x, D : x = Path(p, l) /\ IsPath(x, D) /\ D \subseteq [WordsOf(l) -> Int]
    BY <1>1
  <2>4. x[3].data \in D
    <3>1. 3 \in 0 .. 3 /\ x[3] # None
      BY <2>3 DEF IsPath
    <3>2. QED
      BY <2>3, <3>1, CopyTyped DEF IsPath
  <2>5. ddr[w] = x[3].data[w]
    BY <2>1, <2>3, WordInDdr
  <2>6. QED
    BY <2>1, <2>3, <2>4, <2>5
<1>4. ddr \in [Words -> Int]
  BY <1>3 DEF Owned, Held
<1>5. QED
  BY <1>2, <1>4

LEMMA InvTyped == IInv => TypeOK
<1> SUFFICES ASSUME IInv PROVE TypeOK
  OBVIOUS
<1>1. Scalars /\ Owned /\ sameShire \in BOOLEAN
  BY DEF IInv, Control, Owned, Held
<1>2. /\ \A c \in Caches, l \in Lines : copy[c][l] \in CopyOf(l)
      /\ ddr \in [Words -> Int]
  BY <1>1, OwnedTyped
<1>3. QED
  BY <1>1, <1>2 DEF Scalars, TypeOK, Labels

\* The caches hold whole lines of the buffer, with words, and each Minion keeps to its
\* places, words and iterations.
THEOREM ChannelTyped == Spec => []TypeOK
BY InvTyped, ChannelInductive, PTL

LEMMA InvInStep == IInv => InStep
<1> SUFFICES ASSUME IInv PROVE InStep
  OBVIOUS
<1>1. Control /\ Scalars
  BY DEF IInv, Control
<1>2. PICK a \in 0 .. Iterations, b \in 0 .. Iterations : StepsAt(a, b)
  BY <1>1, StepsPick
<1>3. PICK V \in Nat : \A j \in Int : FlagValue(j) = V + j
  BY <1>1, Typed, FlagValues DEF Minions
<1>4. /\ sent["ping"] = IF a = 0 THEN 0 ELSE V + a
      /\ sent["pong"] = IF b = 0 THEN 0 ELSE V + b
      /\ b <= a /\ completed["ping"] <= b /\ completed["pong"] <= b
  BY <1>2, <1>3 DEF StepsAt, Sent, PingAt, PongAt
<1>5. completed["ping"] \in 0 .. Iterations /\ completed["pong"] \in 0 .. Iterations
  BY <1>1, Typed DEF Minions
<1>6. sent["pong"] <= sent["ping"]
  BY <1>3, <1>4
<1>7. completed["ping"] > 0 => FlagValue(completed["ping"]) <= sent["pong"]
  BY <1>3, <1>4, <1>5
<1>8. completed["pong"] > 0 => FlagValue(completed["pong"]) <= sent["ping"]
  BY <1>3, <1>4, <1>5
<1>9. QED
  BY <1>6, <1>7, <1>8, InvTyped DEF InStep

\* `wait_for` takes no flag of an earlier launch or iteration for the awaited one, so
\* neither Minion runs ahead of what its peer has sent.
THEOREM AlwaysInStep == Spec => []InStep
BY InvInStep, ChannelInductive, PTL

LEMMA QuietIsClean ==
  ASSUME Owned, NEW m \in Minions, NEW l \in Lines, QuietBoth(m, l)
  PROVE  Clean(l)
<1>1. ASSUME NEW c \in Caches, copy[c][l] # None, copy[c][l].dirty PROVE FALSE
  <2>1. PICK p \in Minions, k \in 0 .. 2 : c = Cache(p, k)
    BY <1>1, CacheOnPath DEF Owned
  <2>2. Path(p, l)[k] = copy[c][l]
    BY <2>1, PathAt
  <2>3. Quiet(Path(p, l), 3)
    BY <2>1, Peers DEF QuietBoth
  <2>4. k \in 0 .. 3 - 1
    OBVIOUS
  <2>5. QED
    BY <1>1, <2>2, <2>3, <2>4 DEF Quiet, Modified
<1>2. QED
  BY <1>1 DEF Clean

LEMMA InvRetired == IInv => RetiredToDdr
<1> SUFFICES ASSUME IInv, NEW m \in Minions, pc[m] = "returned"
             PROVE  /\ \A w \in Payload(m) \cup {SendFlag(m)} : Clean(LineOf(w))
                    /\ ddr[SendFlag(m)] = sent[m]
                    /\ \A i \in 1 .. Iterations, k \in 0 .. PayloadWords - 1 :
                         sent[m] = FlagValue(i) => ddr[SendData(m) + k] = Value(m, i, k)
  BY DEF RetiredToDdr, Value
<1>1. Owned /\ FlagPart(m) /\ DataPart(m)
  BY DEF IInv, Contents
<1>2. ASSUME NEW w \in Payload(m) \cup {SendFlag(m)} PROVE Clean(LineOf(w))
  <2>1. CASE w = SendFlag(m)
    BY <1>1, <2>1, FlagOwned, OwnIs, QuietIsClean DEF FlagPart, FlagLine
  <2>2. CASE w \in Payload(m)
    <3>1. LineOf(w) \in DataLines(m)
      BY <2>2 DEF Payload, DataLines, LinesOf
    <3>2. QuietBoth(m, LineOf(w)) /\ LineOf(w) \in Lines
      BY <1>1, <3>1, FlagOwned, OwnIs DEF DataPart
    <3>3. QED
      BY <1>1, <3>2, QuietIsClean
  <2>3. QED
    BY <1>2, <2>1, <2>2
\* A line that is settled in DDR.
<1>3. ASSUME NEW l \in OwnLines(m), At(m, l, 3), NEW w \in WordsOf(l) PROVE ddr[w] = Val(m, l)[w]
  <2>1. IsPath(Path(m, l), Data(m, l))
    BY <1>1 DEF Owned, Own
  <2>2. Path(m, l)[3].data = Top(Path(m, l))
    BY <1>3, <2>1, SettledInDdr DEF At
  <2>3. ddr[w] = Path(m, l)[3].data[w]
    BY WordInDdr
  <2>4. QED
    BY <2>2, <2>3 DEF Val
<1>4. ddr[SendFlag(m)] = sent[m]
  <2>1. CASE sent[m] = 0
    BY <1>1, <2>1 DEF FlagPart
  <2>2. CASE sent[m] # 0
    <3>1. At(m, FlagLine(m), 3) /\ Val(m, FlagLine(m))[SendFlag(m)] = sent[m]
      BY <1>1, <2>2 DEF FlagPart, FlagDepth
    <3>2. QED
      BY <1>3, <3>1, FlagOwned, WordPlaces
  <2>3. QED
    BY <2>1, <2>2
<1>5. ASSUME NEW i \in 1 .. Iterations, NEW k \in 0 .. PayloadWords - 1, sent[m] = FlagValue(i)
      PROVE  ddr[SendData(m) + k] = Value(m, i, k)
  <2>1. PICK w, l : w = SendData(m) + k /\ l = LineOf(w)
    OBVIOUS
  <2>2. Shows(m, i, k, 3)
    BY <1>1, <1>5 DEF DataPart, DataDepth, Writing
  <2>3. Val(m, l)[w] = Value(m, i, k) /\ At(m, l, 3)
    BY <2>1, <2>2 DEF Shows
  <2>4. w \in WordsOf(l) /\ l \in OwnLines(m)
    BY <2>1, WordPlaces, FlagOwned
  <2>5. QED
    BY <1>3, <2>1, <2>3, <2>4
<1>6. QED
  BY <1>2, <1>4, <1>5

\* `retire` leaves the flag and the payload of a Minion in DDR, and no dirty copy of
\* them in a cache.
THEOREM AlwaysRetiredToDdr == Spec => []RetiredToDdr
BY InvRetired, ChannelInductive, PTL
===============================================================================
