-------------------------- MODULE MCKernels_proofs --------------------------
(***************************************************************************)
(* Theorems about block and about the two kernels that write every element *)
(* twice, fulcrum_partition and compress_partition: the invariant of each  *)
(* call, and that each keeps the promise of concepts.hpp.  The kernels are *)
(* taken one by one, with their inductive invariants FIInv, CIInv and      *)
(* BIInv, and put together at the end.                                     *)
(***************************************************************************)
EXTENDS MCKernels, Ranges_proofs, SequenceTheorems

\* Moving an element from the cell a to the cell b keeps what the cells hold.
LEMMA SameElements ==
    ASSUME NEW u, NEW w, NEW cells, NEW a, NEW b,
           \A p \in cells : w[p] = u[p], w[b] = u[a]
    PROVE  {w[p] : p \in cells \cup {b}} = {u[p] : p \in cells \cup {a}}
OBVIOUS

\* An array that holds every element of [0, n) in [0, n) and its own elsewhere
\* is an arrangement.
LEMMA OntoRange ==
    ASSUME NEW w \in [Pos -> Pos], NEW d \in 0 .. N,
           {w[p] : p \in 0 .. d - 1} = 0 .. d - 1,
           \A p \in Pos : p >= d => w[p] = p
    PROVE  IsArrangement(w)
<1> DEFINE f == [p \in 0 .. d - 1 |-> w[p]]
<1> USE NAssumption
<1>1. f \in Surjection(0 .. d - 1, 0 .. d - 1)
  <2>1. \A p \in 0 .. d - 1 : f[p] \in 0 .. d - 1
    OBVIOUS
  <2>2. \A x \in 0 .. d - 1 : \E p \in 0 .. d - 1 : f[p] = x
    OBVIOUS
  <2> QED
    BY <2>1, <2>2 DEF Surjection
<1>2. IsFiniteSet(0 .. d - 1)
  BY FS_Interval
<1>3. f \in Injection(0 .. d - 1, 0 .. d - 1)
  BY <1>1, <1>2, FS_Surjection
<1>4. \A p, q \in 0 .. d - 1 : w[p] = w[q] => p = q
  BY <1>3 DEF Injection, IsInjective
<1>5. \A p \in 0 .. d - 1 : w[p] \in 0 .. d - 1
  OBVIOUS
<1>6. ASSUME NEW p \in Pos, NEW q \in Pos, w[p] = w[q] PROVE p = q
  <2>1. CASE p < d /\ q < d
    BY <1>4, <1>6, <2>1 DEF Pos
  <2>2. CASE p < d /\ q >= d
    BY <1>5, <1>6, <2>2 DEF Pos
  <2>3. CASE p >= d /\ q < d
    BY <1>5, <1>6, <2>3 DEF Pos
  <2>4. CASE p >= d /\ q >= d
    BY <1>6, <2>4
  <2> QED
    BY <2>1, <2>2, <2>3, <2>4 DEF Pos
<1> QED
  BY <1>6 DEF IsArrangement
-----------------------------------------------------------------------------
(***************************************************************************)
(* fulcrum_partition.                                                      *)
(***************************************************************************)
\* The elements of the middle that are not read yet.
FUnread == tpa - pta + 1

\* What the chunks that are left, and the current one, still have to read.
FBudget ==
    /\ FUnread >= 0
    /\ pc \in {"left", "right"} => FUnread = cnt * Chunk + (n % Chunk)
    /\ pc \in {"placeLeft", "placeRight"} =>
          FUnread = cnt * Chunk + (n % Chunk) + c /\ c <= Chunk
    /\ pc \in {"restLeft", "restRight"} => FUnread = c /\ cnt = 0
    /\ pc \in {"saved", "done"} => FUnread = 0
    /\ pc = "saved" => c > 0

\* The room of the two write cursors.  The rest of the chunk fits on the side it
\* is not read from.
FRoom ==
    /\ ptr = FUnread + F!Remaining - 1
    /\ F!Right <= n
    /\ pc \notin {"saved", "done"} => F!Slack >= 0 /\ F!Slack <= 2 * Save
    /\ pc \in {"placeLeft", "restLeft"} => F!Slack + c <= 2 * Save
    /\ pc \in {"placeRight", "restRight"} => F!Slack >= c

FPlaced ==
    /\ AllIn(v, below, 0, m)
    /\ NoneIn(v, below, F!Right, n)
    /\ \A p \in Pos : p >= n => v[p] = p

FIInv == F!TypeOK /\ FBudget /\ FRoom /\ FPlaced /\ F!NothingClobbered

LEMMA FNumbers ==
    ASSUME F!TypeOK
    PROVE  /\ N \in Nat /\ n \in Nat /\ n <= N /\ n >= 2 * Save + Chunk
           /\ Save \in Nat /\ Chunk \in Nat /\ Chunk > 0 /\ Save = 2 * Chunk
           /\ ptr \in Int /\ pta \in Int /\ tpa \in Int /\ m \in Nat /\ cnt \in Nat /\ c \in Nat
           /\ FUnread \in Int /\ F!Remaining \in Int /\ F!Slack \in Int /\ F!Right \in Int
           /\ n % Chunk \in 0 .. Chunk - 1
<1>1. /\ N \in Nat /\ n \in Nat /\ n <= N /\ n >= 2 * Save + Chunk
      /\ Save \in Nat /\ Chunk \in Nat /\ Chunk > 0 /\ Save = 2 * Chunk
      /\ ptr \in Int /\ pta \in Int /\ tpa \in Int /\ m \in Nat /\ cnt \in Nat /\ c \in Nat
  BY NAssumption, KernelParameters DEF F!TypeOK, F!SaveAssumption
<1>2. n % Chunk \in 0 .. Chunk - 1
  BY <1>1, DivisionFacts
<1> QED
  BY <1>1, <1>2 DEF FUnread, F!Remaining, F!Slack, F!Right

LEMMA FInit == ASSUME F!Init PROVE FIInv
<1>1. /\ N \in Nat /\ n \in Nat /\ n <= N /\ n >= 2 * Save + Chunk
      /\ Save \in Nat /\ Chunk \in Nat /\ Chunk > 0 /\ Save = 2 * Chunk
  BY NAssumption, KernelParameters DEF F!Init, F!SaveAssumption
<1>2. /\ v = [p \in Pos |-> p] /\ below \in SUBSET Pos
      /\ ptr = n - 1 /\ pta = Save /\ tpa = n - 1 - Save /\ m = 0 /\ c = 0 /\ pc = "left"
      /\ n \in 2 * Save + Chunk .. N
      /\ cnt = n \div Chunk - 2 * (Save \div Chunk)
  BY DEF F!Init, F!Pos, Pos
<1>a. swap = [s \in 0 .. 2 * Save - 1 |-> IF s < Save THEN v[s] ELSE v[n - 2 * Save + s]]
  BY DEF F!Init
<1>3. \A p \in Pos : v[p] = p
  BY <1>2
<1>4. \A s \in 0 .. 2 * Save - 1 :
          swap[s] = (IF s < Save THEN s ELSE n - 2 * Save + s)
  <2> SUFFICES ASSUME NEW s \in 0 .. 2 * Save - 1
               PROVE swap[s] = (IF s < Save THEN s ELSE n - 2 * Save + s)
    OBVIOUS
  <2>1. s \in Int /\ (s < Save => s \in Pos) /\ (s >= Save => n - 2 * Save + s \in Pos)
    BY <1>1 DEF Pos
  <2>2. swap[s] = IF s < Save THEN v[s] ELSE v[n - 2 * Save + s]
    BY <1>a
  <2> QED
    BY <1>1, <1>3, <2>1, <2>2
<1>5. cnt \in 0 .. n /\ FUnread = cnt * Chunk + (n % Chunk) /\ FUnread >= 0
  <2>1. n % Chunk \in 0 .. Chunk - 1 /\ n \div Chunk \in Nat
        /\ n = Chunk * (n \div Chunk) + (n % Chunk)
    BY <1>1, DivisionFacts
  <2>2. Save \div Chunk = 2
    BY <1>1
  <2> DEFINE q == n \div Chunk
             e == n % Chunk
  <2>3. q \in Nat /\ e \in 0 .. Chunk - 1 /\ n = Chunk * q + e /\ cnt = q - 4
    BY <1>2, <2>1, <2>2
  <2> HIDE DEF q, e
  <2>4. q >= 4
    <3>1. CASE q <= 3
      <4>1. Chunk * q <= Chunk * 3
        BY <1>1, <2>3, <3>1
      <4> QED
        BY <1>1, <2>3, <4>1
    <3> QED
      BY <2>3, <3>1
  <2>5. q <= Chunk * q
    BY <1>1, <2>3
  <2>6. (q - 4) * Chunk = Chunk * q - 4 * Chunk
    BY <1>1, <2>3
  <2>7. FUnread = n - 2 * Save
    BY <1>1, <1>2 DEF FUnread
  <2>8. cnt * Chunk = n - e - 2 * Save
    BY <1>1, <2>3, <2>6
  <2>9. cnt * Chunk + e = FUnread
    BY <1>1, <2>3, <2>7, <2>8
  <2>10. cnt \in 0 .. n
    BY <1>1, <2>3, <2>4, <2>5
  <2> QED
    BY <1>1, <2>7, <2>9, <2>10 DEF e
<1>6. F!TypeOK
  <2>1. swap \in [0 .. 2 * Save - 1 -> Pos]
    <3>1. \A s \in 0 .. 2 * Save - 1 : swap[s] \in Pos
      BY <1>1, <1>4 DEF Pos
    <3> QED
      BY <1>a, <3>1
  <2>2. v \in [Pos -> Pos]
    BY <1>2
  <2>3. below \in SUBSET Pos /\ n \in 2 * Save + Chunk .. N /\ pc = "left" /\ c \in 0 .. 2 * Save
    BY <1>1, <1>2
  <2>4. /\ ptr \in -1 .. n - 1 /\ pta \in Save .. n - Save /\ tpa \in Save - 1 .. n - 1 - Save
        /\ m \in 0 .. n /\ cnt \in 0 .. n
    BY <1>1, <1>2, <1>5
  <2> QED
    BY <2>1, <2>2, <2>3, <2>4 DEF F!TypeOK, F!Pos, Pos
<1>7. FBudget
  BY <1>2, <1>5 DEF FBudget
<1>8. FRoom
  BY <1>1, <1>2 DEF FRoom, FUnread, F!Remaining, F!Right, F!Slack
<1>9. FPlaced
  BY <1>1, <1>2, <1>3 DEF FPlaced, AllIn, NoneIn, F!Right
<1>10. F!NothingClobbered
  <2>1. F!Remaining = 2 * Save /\ F!Right = n
    BY <1>1, <1>2 DEF F!Remaining, F!Right
  <2>2. {v[p] : p \in 0 .. m - 1 \cup F!Right .. n - 1 \cup pta .. tpa}
           = Save .. n - 1 - Save
    <3>1. 0 .. m - 1 \cup F!Right .. n - 1 \cup pta .. tpa = Save .. n - 1 - Save
      BY <1>1, <1>2, <2>1
    <3>2. \A p \in Save .. n - 1 - Save : v[p] = p
      BY <1>1, <1>3 DEF Pos
    <3> QED
      BY <3>1, <3>2
  <2>3. {swap[s] : s \in 0 .. 2 * Save - 1} = 0 .. Save - 1 \cup n - Save .. n - 1
    <3>1. \A s \in 0 .. 2 * Save - 1 : swap[s] \in 0 .. Save - 1 \cup n - Save .. n - 1
      BY <1>1, <1>4
    <3>2. ASSUME NEW x \in 0 .. Save - 1 PROVE x \in 0 .. 2 * Save - 1 /\ swap[x] = x
      BY <1>1, <1>4
    <3>3. ASSUME NEW x \in n - Save .. n - 1
          PROVE x - n + 2 * Save \in 0 .. 2 * Save - 1 /\ swap[x - n + 2 * Save] = x
      BY <1>1, <1>4
    <3> QED
      BY <3>1, <3>2, <3>3
  <2>4. 2 * Save - F!Remaining .. 2 * Save - 1 = 0 .. 2 * Save - 1
    BY <1>1, <2>1
  <2>5. Save .. n - 1 - Save \cup (0 .. Save - 1 \cup n - Save .. n - 1) = 0 .. n - 1
    BY <1>1
  <2> QED
    BY <2>2, <2>3, <2>4, <2>5 DEF F!NothingClobbered
<1> QED
  BY <1>6, <1>7, <1>8, <1>9, <1>10 DEF FIInv

\* What a placement does: the element is on its side, in one of the two cells
\* written, and no other cell has changed.
FSlot(x) == IF x \in below THEN m ELSE F!Right - 1

LEMMA FPlace ==
    ASSUME FIInv, NEW x \in Pos, F!Place(x), UNCHANGED F!args, ptr >= 0
    PROVE  /\ v' \in [Pos -> Pos] /\ v'[FSlot(x)] = x
           /\ FSlot(x) \in {m, F!Right - 1}
           /\ \A p \in Pos : p # m /\ p # F!Right - 1 => v'[p] = v[p]
           /\ 0 .. m' - 1 \cup F!Right' .. n - 1 = 0 .. m - 1 \cup F!Right .. n - 1 \cup {FSlot(x)}
           /\ m' \in Nat /\ m \in Pos /\ F!Right - 1 \in Pos /\ m <= F!Right - 1
           /\ m' \in {m, m + 1} /\ ptr' = ptr - 1
           /\ F!Right' = ptr' + m' + 1 /\ F!Right' <= n /\ m' <= n
           /\ FPlaced'
<1>1. /\ N \in Nat /\ n \in Nat /\ n <= N /\ ptr \in Int /\ m \in Nat
      /\ F!Right = ptr + m + 1 /\ F!Right \in Int
  BY FNumbers DEF FIInv, F!Right
<1>2. F!Right <= n /\ v \in [Pos -> Pos] /\ FPlaced /\ ptr >= 0
  BY DEF FIInv, FRoom, F!TypeOK, F!Pos, Pos
<1>3. m \in Pos /\ ptr + m \in Pos /\ F!Right - 1 = ptr + m
  BY <1>1, <1>2 DEF Pos
<1>4. /\ v' = [v EXCEPT ![m] = x, ![ptr + m] = x]
      /\ m' = IF x \in below THEN m + 1 ELSE m
      /\ ptr' = ptr - 1 /\ n' = n /\ below' = below
  BY DEF F!Place, F!args
<1>b. PICK u : u = v'
  OBVIOUS
<1>5. /\ u \in [Pos -> Pos] /\ u[m] = x /\ u[F!Right - 1] = x
      /\ \A p \in Pos : p # m /\ p # F!Right - 1 => u[p] = v[p]
  BY <1>2, <1>3, <1>4, <1>b
<1>6. F!Right' = ptr' + m' + 1
  BY DEF F!Right
<1>7. CASE x \in below
  <2>1. /\ m' = m + 1 /\ F!Right' = F!Right /\ FSlot(x) = m
    BY <1>1, <1>4, <1>6, <1>7 DEF FSlot
  <2>2. AllIn(u, below, 0, m + 1)
    <3> SUFFICES ASSUME NEW q \in 0 .. m PROVE u[q] \in below
      BY <1>1 DEF AllIn
    <3>1. CASE q = m
      BY <1>5, <1>7, <3>1
    <3>2. CASE q # m
      <4>1. q \in 0 .. m - 1 /\ q \in Pos /\ q # F!Right - 1
        BY <1>1, <1>2, <1>3, <3>2 DEF Pos
      <4>2. v[q] \in below
        BY <1>2, <4>1 DEF FPlaced, AllIn
      <4> QED
        BY <1>5, <3>2, <4>1, <4>2
    <3> QED
      BY <3>1, <3>2
  <2>3. NoneIn(u, below, F!Right, n)
    BY <1>1, <1>2, <1>3, <1>5 DEF NoneIn, FPlaced, Pos
  <2>4. \A p \in Pos : p >= n => u[p] = p
    BY <1>1, <1>2, <1>3, <1>5 DEF FPlaced, Pos
  <2>5. FPlaced'
    BY <1>b, <1>4, <2>1, <2>2, <2>3, <2>4 DEF FPlaced
  <2>6. 0 .. m' - 1 \cup F!Right' .. n - 1 = 0 .. m - 1 \cup F!Right .. n - 1 \cup {FSlot(x)}
    BY <1>1, <2>1
  <2> QED
    BY <1>b, <1>1, <1>2, <1>3, <1>4, <1>5, <1>6, <2>1, <2>5, <2>6
<1>8. CASE x \notin below
  <2>1. /\ m' = m /\ F!Right' = F!Right - 1 /\ FSlot(x) = F!Right - 1
    BY <1>1, <1>4, <1>6, <1>8 DEF FSlot
  <2>2. AllIn(u, below, 0, m)
    BY <1>1, <1>2, <1>3, <1>5 DEF AllIn, FPlaced, Pos
  <2>3. NoneIn(u, below, F!Right - 1, n)
    <3> SUFFICES ASSUME NEW q \in F!Right - 1 .. n - 1 PROVE u[q] \notin below
      BY DEF NoneIn
    <3>1. CASE q = F!Right - 1
      BY <1>5, <1>8, <3>1
    <3>2. CASE q # F!Right - 1
      <4>1. q \in F!Right .. n - 1 /\ q \in Pos /\ q # m
        BY <1>1, <1>2, <1>3, <3>2 DEF Pos
      <4>2. v[q] \notin below
        BY <1>2, <4>1 DEF FPlaced, NoneIn
      <4> QED
        BY <1>5, <3>2, <4>1, <4>2
    <3> QED
      BY <3>1, <3>2
  <2>4. \A p \in Pos : p >= n => u[p] = p
    BY <1>1, <1>2, <1>3, <1>5 DEF FPlaced, Pos
  <2>5. FPlaced'
    BY <1>b, <1>4, <2>1, <2>2, <2>3, <2>4 DEF FPlaced
  <2>6. 0 .. m' - 1 \cup F!Right' .. n - 1 = 0 .. m - 1 \cup F!Right .. n - 1 \cup {FSlot(x)}
    BY <1>1, <1>2, <1>3, <2>1
  <2> QED
    BY <1>b, <1>1, <1>2, <1>3, <1>4, <1>5, <1>6, <2>1, <2>5, <2>6
<1> QED
  BY <1>7, <1>8

\* What NothingClobbered counts, by name.
FKept == 0 .. m - 1 \cup F!Right .. n - 1 \cup pta .. tpa
FSaved == 2 * Save - F!Remaining .. 2 * Save - 1

LEMMA FClobbered ==
    F!NothingClobbered <=> {v[p] : p \in FKept} \cup {swap[s] : s \in FSaved} = 0 .. n - 1
BY DEF F!NothingClobbered, FKept, FSaved

\* An element of the middle is placed, and the two cells that are written hold no
\* other element of the middle.
LEMMA FMiddlePlaced ==
    ASSUME FIInv, pc \notin {"saved", "done"}, pc' \notin {"saved", "done"},
           NEW a \in Pos, NEW rest, rest \subseteq Pos,
           pta .. tpa = rest \cup {a}, pta' .. tpa' = rest,
           F!Place(v[a]), UNCHANGED F!args, ptr >= 0,
           m \notin rest, F!Right - 1 \notin rest
    PROVE  F!NothingClobbered'
<1> DEFINE x == v[a]
           side == 0 .. m - 1 \cup F!Right .. n - 1
           side1 == 0 .. m' - 1 \cup F!Right' .. n - 1
<1>1. x \in Pos
  BY DEF FIInv, F!TypeOK, F!Pos, Pos
<1>2. /\ side1 = side \cup {FSlot(x)} /\ v'[FSlot(x)] = x
      /\ \A p \in Pos : p # m /\ p # F!Right - 1 => v'[p] = v[p]
      /\ m \in Pos /\ F!Right - 1 \in Pos /\ m <= F!Right - 1
  BY <1>1, FPlace
<1>3. n \in Nat /\ n <= N /\ N \in Nat /\ m \in Nat /\ F!Right \in Int
  BY FNumbers DEF FIInv
<1>4. \A p \in side : p \in Pos /\ p # m /\ p # F!Right - 1
  BY <1>2, <1>3 DEF Pos
<1>b. PICK u : u = v'
  OBVIOUS
<1>5. \A p \in side \cup rest : u[p] = v[p]
  <2> HIDE DEF side
  <2> QED
    BY <1>b, <1>2, <1>4
<1> HIDE DEF side, side1
<1>6. {u[p] : p \in (side \cup rest) \cup {FSlot(x)}} = {v[p] : p \in (side \cup rest) \cup {a}}
  <2>1. u[FSlot(x)] = v[a]
    BY <1>b, <1>2
  <2> HIDE DEF x
  <2> QED
    BY <1>5, <2>1, SameElements
<1>7. FKept = (side \cup rest) \cup {a}
  BY DEF FKept, side
<1>8. FKept' = (side \cup rest) \cup {FSlot(x)}
  <2>1. n' = n
    BY DEF F!args
  <2>2. FKept' = side1 \cup rest
    BY <2>1 DEF FKept, side1
  <2> QED
    BY <1>2, <2>2
<1>9. FSaved' = FSaved /\ swap' = swap /\ n' = n
  BY DEF FSaved, F!Remaining, F!args
<1>10. {u[p] : p \in FKept'} = {v[p] : p \in FKept}
  BY <1>6, <1>7, <1>8
<1>11. F!NothingClobbered
  BY DEF FIInv
<1>12. {u[p] : p \in FKept'} \cup {swap[s] : s \in FSaved} = 0 .. n - 1
  BY <1>10, <1>11, FClobbered
<1>13. ({v[p] : p \in FKept} \cup {swap[s] : s \in FSaved} = 0 .. n - 1)'
  BY <1>b, <1>9, <1>12
<1>14. ({v[p] : p \in FKept} \cup {swap[s] : s \in FSaved} = 0 .. n - 1)'
          => F!NothingClobbered'
  BY DEF F!NothingClobbered, FKept, FSaved
<1> QED
  BY <1>13, <1>14
-----------------------------------------------------------------------------
\* The steps that choose a side and end a chunk move no element.
FQuiet == UNCHANGED <<v, below, n, swap, ptr, pta, tpa, m>>

LEMMA FQuietStep ==
    ASSUME FIInv, FQuiet, F!Remaining' = F!Remaining,
           cnt' \in 0 .. cnt, c' \in 0 .. 2 * Save,
           pc' \in {"left", "right", "placeLeft", "placeRight", "restLeft", "restRight",
                   "saved", "done"},
           FBudget',
           pc' \notin {"saved", "done"} => pc \notin {"saved", "done"},
           pc' \in {"placeLeft", "restLeft"} => F!Slack + c' <= 2 * Save,
           pc' \in {"placeRight", "restRight"} => F!Slack >= c'
    PROVE  FIInv'
<1>1. F!TypeOK /\ FRoom /\ FPlaced /\ F!NothingClobbered
  BY DEF FIInv
<1>2. F!TypeOK'
  <2>1. cnt \in 0 .. n /\ n \in Nat
    BY <1>1, FNumbers DEF F!TypeOK
  <2>2. cnt' \in 0 .. n
    BY <2>1
  <2> QED
    BY <1>1, <2>2 DEF F!TypeOK, FQuiet, F!Pos
<1>3. F!Right' = F!Right /\ F!Slack' = F!Slack /\ FUnread' = FUnread
  BY DEF FQuiet, F!Right, F!Slack, FUnread
<1>4. FRoom'
  BY <1>1, <1>3 DEF FRoom, FQuiet
<1>5. FPlaced'
  BY <1>1, <1>3 DEF FPlaced, FQuiet
<1>6. F!NothingClobbered'
  BY <1>1, <1>3 DEF F!NothingClobbered, FQuiet
<1> QED
  BY <1>2, <1>4, <1>5, <1>6 DEF FIInv

LEMMA FNoRoomLeft == ASSUME FIInv, F!NoRoomLeft PROVE FIInv'
<1>1. /\ FQuiet /\ UNCHANGED <<cnt, c>> /\ pc = "left" /\ pc' = "right"
  BY DEF F!NoRoomLeft, FQuiet, F!args
<1>2. F!TypeOK /\ FBudget
  BY DEF FIInv
<1>3. FBudget'
  BY <1>1, <1>2 DEF FBudget, FQuiet, FUnread
<1>4. cnt' \in 0 .. cnt /\ c' \in 0 .. 2 * Save
  BY <1>1, <1>2, FNumbers DEF F!TypeOK
<1>5. F!Remaining' = F!Remaining
  BY <1>1 DEF F!Remaining
<1> QED
  BY <1>1, <1>3, <1>4, <1>5, FQuietStep

LEMMA FNoRoomRight == ASSUME FIInv, F!NoRoomRight PROVE FIInv'
<1>1. /\ FQuiet /\ UNCHANGED <<cnt, c>> /\ pc = "right" /\ pc' = "left"
  BY DEF F!NoRoomRight, FQuiet, F!args
<1>2. F!TypeOK /\ FBudget
  BY DEF FIInv
<1>3. FBudget'
  BY <1>1, <1>2 DEF FBudget, FQuiet, FUnread
<1>4. cnt' \in 0 .. cnt /\ c' \in 0 .. 2 * Save
  BY <1>1, <1>2, FNumbers DEF F!TypeOK
<1>5. F!Remaining' = F!Remaining
  BY <1>1 DEF F!Remaining
<1> QED
  BY <1>1, <1>3, <1>4, <1>5, FQuietStep

\* A chunk is taken off the count.
LEMMA FTakeChunk ==
    ASSUME FIInv, pc \in {"left", "right"}, cnt > 0, cnt' = cnt - 1, c' = Chunk,
           pc' \in {"placeLeft", "placeRight"}, FQuiet
    PROVE  FBudget' /\ cnt' \in 0 .. cnt /\ c' \in 0 .. 2 * Save
<1>1. F!TypeOK /\ FBudget
  BY DEF FIInv
<1>2. /\ Chunk \in Nat /\ Chunk > 0 /\ Save = 2 * Chunk /\ cnt \in Nat /\ FUnread \in Int
      /\ n % Chunk \in 0 .. Chunk - 1
  BY <1>1, FNumbers
<1>3. FUnread = cnt * Chunk + (n % Chunk) /\ FUnread >= 0
  BY <1>1 DEF FBudget
<1>4. (cnt - 1) * Chunk = cnt * Chunk - Chunk /\ cnt * Chunk \in Int
  BY <1>2
<1>5. FUnread = (cnt - 1) * Chunk + (n % Chunk) + Chunk
  BY <1>2, <1>3, <1>4
<1>6. FUnread' = FUnread /\ n' = n
  BY DEF FQuiet, FUnread
<1>7. FBudget'
  BY <1>2, <1>3, <1>5, <1>6 DEF FBudget
<1> QED
  BY <1>2, <1>7

LEMMA FChunkLeft == ASSUME FIInv, F!ChunkLeft PROVE FIInv'
<1>1. /\ FQuiet /\ cnt > 0 /\ cnt' = cnt - 1 /\ c' = Chunk /\ pc = "left" /\ pc' = "placeLeft"
      /\ F!Slack <= Save + Chunk
  BY DEF F!ChunkLeft, FQuiet, F!args, F!RoomLeft
<1>2. FBudget' /\ cnt' \in 0 .. cnt /\ c' \in 0 .. 2 * Save
  BY <1>1, FTakeChunk
<1>3. F!Slack + c' <= 2 * Save
  BY <1>1, FNumbers DEF FIInv
<1>4. F!Remaining' = F!Remaining
  BY <1>1 DEF F!Remaining
<1> QED
  BY <1>1, <1>2, <1>3, <1>4, FQuietStep

LEMMA FChunkRight == ASSUME FIInv, F!ChunkRight PROVE FIInv'
<1>1. /\ FQuiet /\ cnt > 0 /\ cnt' = cnt - 1 /\ c' = Chunk /\ pc = "right" /\ pc' = "placeRight"
      /\ F!Slack >= Chunk
  BY DEF F!ChunkRight, FQuiet, F!args, F!RoomRight
<1>2. FBudget' /\ cnt' \in 0 .. cnt /\ c' \in 0 .. 2 * Save
  BY <1>1, FTakeChunk
<1>3. F!Slack >= c'
  BY <1>1
<1>4. F!Remaining' = F!Remaining
  BY <1>1 DEF F!Remaining
<1> QED
  BY <1>1, <1>2, <1>3, <1>4, FQuietStep

LEMMA FLastChunk == ASSUME FIInv, F!LastChunk PROVE FIInv'
<1>1. /\ FQuiet /\ cnt = 0 /\ cnt' = cnt /\ c' = n % Chunk /\ pc \in {"left", "right"}
      /\ pc' = IF F!RoomLeft THEN "restLeft" ELSE "restRight"
  BY DEF F!LastChunk, FQuiet, F!args
<1>2. F!TypeOK /\ FBudget
  BY DEF FIInv
<1>3. /\ Chunk \in Nat /\ Chunk > 0 /\ Save = 2 * Chunk /\ FUnread \in Int /\ F!Slack \in Int
      /\ n % Chunk \in 0 .. Chunk - 1
  BY <1>2, FNumbers
<1>4. FUnread = n % Chunk
  BY <1>1, <1>2, <1>3 DEF FBudget
<1>5. FUnread' = FUnread
  BY <1>1 DEF FQuiet, FUnread
<1>6. FBudget'
  BY <1>1, <1>3, <1>4, <1>5 DEF FBudget
<1>7. F!Slack + c' <= 2 * Save \/ (pc' = "restRight" /\ F!Slack >= c')
  BY <1>1, <1>3 DEF F!RoomLeft
<1>8. pc' = "restRight" => F!Slack >= c'
  BY <1>1, <1>3 DEF F!RoomLeft
<1>9. F!Remaining' = F!Remaining
  BY <1>1 DEF F!Remaining
<1>10. cnt' \in 0 .. cnt /\ c' \in 0 .. 2 * Save
  BY <1>1, <1>3
<1> QED
  BY <1>1, <1>6, <1>7, <1>8, <1>9, <1>10, FQuietStep

LEMMA FChunkPlaced == ASSUME FIInv, F!ChunkPlaced PROVE FIInv'
<1>1. /\ FQuiet /\ cnt' = cnt /\ c = 0
      /\ \/ pc = "placeLeft" /\ pc' = "right" /\ c' = 0
         \/ pc = "placeRight" /\ pc' = "left" /\ c' = 0
         \/ pc \in {"restLeft", "restRight"} /\ pc' = "saved" /\ c' = 2 * Save
  BY DEF F!ChunkPlaced, FQuiet, F!args
<1>2. F!TypeOK /\ FBudget
  BY DEF FIInv
<1>3. /\ Chunk \in Nat /\ Chunk > 0 /\ Save = 2 * Chunk /\ FUnread \in Int /\ cnt \in Nat
      /\ n % Chunk \in 0 .. Chunk - 1
  BY <1>2, FNumbers
<1>4. FUnread' = FUnread /\ n' = n
  BY <1>1 DEF FQuiet, FUnread
<1>5. FBudget'
  <2>1. cnt * Chunk \in Int
    BY <1>3
  <2> QED
    BY <1>1, <1>2, <1>3, <1>4, <2>1 DEF FBudget
<1>6. F!Remaining' = F!Remaining
  BY <1>1 DEF F!Remaining
<1>7. cnt' \in 0 .. cnt /\ c' \in 0 .. 2 * Save
  BY <1>1, <1>3
<1> QED
  BY <1>1, <1>5, <1>6, <1>7, FQuietStep
-----------------------------------------------------------------------------
LEMMA FPlaceLeft == ASSUME FIInv, F!PlaceLeft PROVE FIInv'
<1>1. /\ pc \in {"placeLeft", "restLeft"} /\ c > 0 /\ F!Place(v[pta]) /\ pta' = pta + 1
      /\ c' = c - 1 /\ UNCHANGED F!args /\ tpa' = tpa /\ cnt' = cnt /\ pc' = pc
      /\ n' = n /\ below' = below /\ swap' = swap
  BY DEF F!PlaceLeft, F!args
<1>2. F!TypeOK /\ FBudget /\ FRoom
  BY DEF FIInv
<1>3. /\ N \in Nat /\ n \in Nat /\ n <= N /\ Save \in Nat /\ Save = 2 * Chunk
      /\ Chunk \in Nat /\ n >= 2 * Save + Chunk
      /\ ptr \in Int /\ pta \in Int /\ tpa \in Int /\ m \in Nat /\ cnt \in Nat /\ c \in Nat
      /\ n % Chunk \in 0 .. Chunk - 1
  BY <1>2, FNumbers
<1>4. /\ FUnread = tpa - pta + 1 /\ F!Remaining = 2 * Save
      /\ F!Slack = pta - m /\ F!Right = ptr + m + 1
  BY <1>1 DEF FUnread, F!Remaining, F!Slack, F!Right
<1>5. /\ pc = "placeLeft" => tpa - pta + 1 = cnt * Chunk + (n % Chunk) + c /\ c <= Chunk
      /\ pc = "restLeft" => tpa - pta + 1 = c /\ cnt = 0
  BY <1>1, <1>2, <1>4 DEF FBudget
<1>6. tpa - pta + 1 >= c
  <2>1. cnt * Chunk \in Nat
    BY <1>3
  <2> QED
    BY <1>1, <1>3, <1>5, <2>1
<1>7. /\ ptr = tpa - pta + 2 * Save /\ pta - m >= 0 /\ pta - m + c <= 2 * Save
      /\ pta >= Save /\ tpa <= n - 1 - Save
  <2>1. pta >= Save /\ tpa <= n - 1 - Save
    BY <1>2, <1>3 DEF F!TypeOK
  <2>2. ptr = tpa - pta + 2 * Save
    BY <1>2, <1>3, <1>4 DEF FRoom
  <2> QED
    BY <1>1, <1>2, <1>4, <2>1, <2>2 DEF FRoom
<1>8. pta \in Pos /\ ptr >= 0 /\ pta < F!Right - 1 /\ tpa < F!Right - 1
  BY <1>1, <1>3, <1>4, <1>6, <1>7 DEF Pos
<1>9. v[pta] \in Pos
  BY <1>2, <1>8 DEF F!TypeOK, F!Pos, Pos
<1>10. F!NothingClobbered'
  <2> DEFINE rest == pta + 1 .. tpa
  <2>1. rest \subseteq Pos /\ pta .. tpa = rest \cup {pta} /\ pta' .. tpa' = rest
    BY <1>1, <1>3, <1>6, <1>7 DEF Pos
  <2>2. m \notin rest /\ F!Right - 1 \notin rest
    BY <1>3, <1>4, <1>7, <1>8
  <2>3. pc \notin {"saved", "done"} /\ pc' \notin {"saved", "done"}
    BY <1>1
  <2> HIDE DEF rest
  <2> QED
    BY <1>1, <1>8, <2>1, <2>2, <2>3, FMiddlePlaced
<1>11. /\ v' \in [Pos -> Pos] /\ m' \in Nat /\ m' \in {m, m + 1} /\ ptr' = ptr - 1
       /\ F!Right' = ptr' + m' + 1 /\ F!Right' <= n /\ m' <= n /\ FPlaced'
  BY <1>1, <1>8, <1>9, FPlace
<1>12. F!TypeOK'
  <2>1. ptr' \in -1 .. n - 1 /\ pta' \in Save .. n - Save /\ m' \in 0 .. n /\ c' \in 0 .. 2 * Save
    BY <1>1, <1>2, <1>3, <1>6, <1>7, <1>8, <1>11 DEF F!TypeOK
  <2> QED
    BY <1>1, <1>2, <1>11, <2>1 DEF F!TypeOK, F!Pos, Pos
<1>13. FUnread' = tpa - pta /\ F!Slack' = pta + 1 - m' /\ F!Remaining' = 2 * Save
  <2>1. FUnread' = tpa' - pta' + 1 /\ F!Slack' = pta' - m'
    BY DEF FUnread, F!Slack
  <2>3. tpa' = tpa /\ pta' = pta + 1
    BY <1>1
  <2>2. F!Remaining' = 2 * Save
    BY <1>1 DEF F!Remaining
  <2> QED
    BY <1>3, <1>11, <2>1, <2>2, <2>3
<1>14. FBudget'
  <2>1. cnt * Chunk \in Int
    BY <1>3
  <2> QED
    BY <1>1, <1>3, <1>5, <1>6, <1>13, <2>1 DEF FBudget
<1>15. FRoom'
  <2>1. ptr' = FUnread' + F!Remaining' - 1
    BY <1>3, <1>7, <1>11, <1>13
  <2>2. F!Slack' >= 0 /\ F!Slack' <= 2 * Save /\ F!Slack' + c' <= 2 * Save
    <3>1. c > 0 /\ c' = c - 1 /\ m' \in {m, m + 1} /\ m' \in Int
          /\ F!Slack' = pta + 1 - m'
      BY <1>1, <1>11, <1>13
    <3>2. pta - m >= 0 /\ pta - m + c <= 2 * Save /\ pta \in Int /\ m \in Int /\ c \in Int
          /\ Save \in Int
      BY <1>3, <1>7
    <3>3. CASE m' = m
      BY <3>1, <3>2, <3>3
    <3>4. CASE m' = m + 1
      BY <3>1, <3>2, <3>4
    <3> QED
      BY <3>1, <3>3, <3>4
  <2>3. F!Right' <= n' /\ pc' \in {"placeLeft", "restLeft"}
    BY <1>1, <1>11
  <2> QED
    BY <2>1, <2>2, <2>3 DEF FRoom
<1> QED
  BY <1>10, <1>11, <1>12, <1>14, <1>15 DEF FIInv

LEMMA FPlaceRight == ASSUME FIInv, F!PlaceRight PROVE FIInv'
<1>1. /\ pc \in {"placeRight", "restRight"} /\ c > 0 /\ F!Place(v[tpa]) /\ tpa' = tpa - 1
      /\ c' = c - 1 /\ UNCHANGED F!args /\ pta' = pta /\ cnt' = cnt /\ pc' = pc
      /\ n' = n /\ below' = below /\ swap' = swap
  BY DEF F!PlaceRight, F!args
<1>2. F!TypeOK /\ FBudget /\ FRoom
  BY DEF FIInv
<1>3. /\ N \in Nat /\ n \in Nat /\ n <= N /\ Save \in Nat /\ Save = 2 * Chunk
      /\ Chunk \in Nat /\ n >= 2 * Save + Chunk
      /\ ptr \in Int /\ pta \in Int /\ tpa \in Int /\ m \in Nat /\ cnt \in Nat /\ c \in Nat
      /\ n % Chunk \in 0 .. Chunk - 1
  BY <1>2, FNumbers
<1>4. /\ FUnread = tpa - pta + 1 /\ F!Remaining = 2 * Save
      /\ F!Slack = pta - m /\ F!Right = ptr + m + 1
  BY <1>1 DEF FUnread, F!Remaining, F!Slack, F!Right
<1>5. /\ pc = "placeRight" => tpa - pta + 1 = cnt * Chunk + (n % Chunk) + c /\ c <= Chunk
      /\ pc = "restRight" => tpa - pta + 1 = c /\ cnt = 0
  BY <1>1, <1>2, <1>4 DEF FBudget
<1>6. tpa - pta + 1 >= c
  <2>1. cnt * Chunk \in Nat
    BY <1>3
  <2> QED
    BY <1>1, <1>3, <1>5, <2>1
<1>7. /\ ptr = tpa - pta + 2 * Save /\ pta - m >= c /\ pta - m <= 2 * Save
      /\ pta >= Save /\ tpa <= n - 1 - Save
  <2>1. pta >= Save /\ tpa <= n - 1 - Save
    BY <1>2, <1>3 DEF F!TypeOK
  <2>2. ptr = tpa - pta + 2 * Save
    BY <1>2, <1>3, <1>4 DEF FRoom
  <2> QED
    BY <1>1, <1>2, <1>4, <2>1, <2>2 DEF FRoom
<1>8. tpa \in Pos /\ ptr >= 0 /\ m < pta /\ tpa <= F!Right - 1
  BY <1>1, <1>3, <1>4, <1>6, <1>7 DEF Pos
<1>9. v[tpa] \in Pos
  BY <1>2, <1>8 DEF F!TypeOK, F!Pos, Pos
<1>10. F!NothingClobbered'
  <2> DEFINE rest == pta .. tpa - 1
  <2>1. rest \subseteq Pos /\ pta .. tpa = rest \cup {tpa} /\ pta' .. tpa' = rest
    BY <1>1, <1>3, <1>6, <1>7 DEF Pos
  <2>2. m \notin rest /\ F!Right - 1 \notin rest
    BY <1>3, <1>4, <1>7, <1>8
  <2>3. pc \notin {"saved", "done"} /\ pc' \notin {"saved", "done"}
    BY <1>1
  <2> HIDE DEF rest
  <2> QED
    BY <1>1, <1>8, <2>1, <2>2, <2>3, FMiddlePlaced
<1>11. /\ v' \in [Pos -> Pos] /\ m' \in Nat /\ m' \in {m, m + 1} /\ ptr' = ptr - 1
       /\ F!Right' = ptr' + m' + 1 /\ F!Right' <= n /\ m' <= n /\ FPlaced'
  BY <1>1, <1>8, <1>9, FPlace
<1>12. F!TypeOK'
  <2>1. /\ ptr' \in -1 .. n - 1 /\ tpa' \in Save - 1 .. n - 1 - Save
        /\ m' \in 0 .. n /\ c' \in 0 .. 2 * Save
    BY <1>1, <1>2, <1>3, <1>6, <1>7, <1>8, <1>11 DEF F!TypeOK
  <2> QED
    BY <1>1, <1>2, <1>11, <2>1 DEF F!TypeOK, F!Pos, Pos
<1>13. FUnread' = tpa - pta /\ F!Slack' = pta - m' /\ F!Remaining' = 2 * Save
  BY <1>1, <1>3 DEF FUnread, F!Slack, F!Remaining
<1>14. FBudget'
  <2>1. cnt * Chunk \in Int
    BY <1>3
  <2> QED
    BY <1>1, <1>3, <1>5, <1>6, <1>13, <2>1 DEF FBudget
<1>15. FRoom'
  <2>1. ptr' = FUnread' + F!Remaining' - 1
    BY <1>3, <1>7, <1>11, <1>13
  <2>2. F!Slack' >= c' /\ F!Slack' >= 0 /\ F!Slack' <= 2 * Save
    <3>1. c > 0 /\ c' = c - 1 /\ m' \in {m, m + 1} /\ m' \in Int
          /\ F!Slack' = pta - m'
      BY <1>1, <1>11, <1>13
    <3>2. pta - m >= c /\ pta - m <= 2 * Save /\ pta \in Int /\ m \in Int /\ c \in Int
          /\ Save \in Int
      BY <1>3, <1>7
    <3>3. CASE m' = m
      BY <3>1, <3>2, <3>3
    <3>4. CASE m' = m + 1
      BY <3>1, <3>2, <3>4
    <3> QED
      BY <3>1, <3>3, <3>4
  <2>3. F!Right' <= n' /\ pc' \in {"placeRight", "restRight"}
    BY <1>1, <1>11
  <2> QED
    BY <2>1, <2>2, <2>3 DEF FRoom
<1> QED
  BY <1>10, <1>11, <1>12, <1>14, <1>15 DEF FIInv

LEMMA FPlaceSaved == ASSUME FIInv, F!PlaceSaved PROVE FIInv'
<1>1. /\ pc = "saved" /\ c > 0 /\ F!Place(swap[2 * Save - c])
      /\ c' = c - 1 /\ UNCHANGED F!args /\ pta' = pta /\ tpa' = tpa /\ cnt' = cnt
      /\ pc' = (IF c = 1 THEN "done" ELSE "saved")
      /\ n' = n /\ below' = below /\ swap' = swap
  BY DEF F!PlaceSaved, F!args
<1>2. F!TypeOK /\ FBudget /\ FRoom
  BY DEF FIInv
<1>3. /\ N \in Nat /\ n \in Nat /\ n <= N /\ Save \in Nat
      /\ ptr \in Int /\ pta \in Int /\ tpa \in Int /\ m \in Nat /\ cnt \in Nat /\ c \in Nat
      /\ c <= 2 * Save
  BY <1>2, FNumbers DEF F!TypeOK
<1>4. FUnread = tpa - pta + 1 /\ F!Remaining = c /\ F!Right = ptr + m + 1
  BY <1>1 DEF FUnread, F!Remaining, F!Right
<1>5. tpa - pta + 1 = 0 /\ ptr = c - 1
  BY <1>1, <1>2, <1>3, <1>4 DEF FBudget, FRoom
<1> DEFINE s0 == 2 * Save - c
           x == swap[s0]
<1>6. s0 \in 0 .. 2 * Save - 1 /\ x \in Pos
  <2>1. s0 \in 0 .. 2 * Save - 1
    BY <1>1, <1>3
  <2> QED
    BY <1>2, <2>1 DEF F!TypeOK, F!Pos, Pos
<1>7. /\ v' \in [Pos -> Pos] /\ m' \in Nat /\ m' \in {m, m + 1} /\ ptr' = ptr - 1
      /\ F!Right' = ptr' + m' + 1 /\ F!Right' <= n /\ m' <= n /\ FPlaced'
      /\ v'[FSlot(x)] = x
      /\ \A p \in Pos : p # m /\ p # F!Right - 1 => v'[p] = v[p]
      /\ 0 .. m' - 1 \cup F!Right' .. n - 1 = 0 .. m - 1 \cup F!Right .. n - 1 \cup {FSlot(x)}
      /\ m <= F!Right - 1
  BY <1>1, <1>3, <1>5, <1>6, FPlace
<1>8. F!Remaining' = c - 1 /\ FUnread' = 0
  BY <1>1, <1>3, <1>5 DEF F!Remaining, FUnread
<1>9. F!NothingClobbered'
  <2> DEFINE side == 0 .. m - 1 \cup F!Right .. n - 1
             mid == pta .. tpa
             later == s0 + 1 .. 2 * Save - 1
  <2>b. PICK u : u = v'
    OBVIOUS
  <2>1. \A p \in side : u[p] = v[p]
    <3>1. \A p \in side : p \in Pos /\ p # m /\ p # F!Right - 1
      BY <1>3, <1>4, <1>7 DEF Pos
    <3> HIDE DEF side
    <3> QED
      BY <1>7, <2>b, <3>1
  <2>2. mid = {} /\ FKept = side
    BY <1>3, <1>5 DEF FKept
  <2>3. FSaved = later \cup {s0}
    BY <1>3, <1>4, <1>6 DEF FSaved
  <2>4. FSaved' = later /\ s0 \in Int
    BY <1>3, <1>8 DEF FSaved
  <2>5. FKept' = side \cup {FSlot(x)}
    <3>1. FKept' = 0 .. m' - 1 \cup F!Right' .. n - 1 \cup mid
      BY <1>1 DEF FKept
    <3> QED
      BY <1>7, <2>2, <3>1
  <2>6. {v[p] : p \in side} \cup {swap[s] : s \in later \cup {s0}} = 0 .. n - 1
    <3>1. F!NothingClobbered
      BY DEF FIInv
    <3> QED
      BY <2>2, <2>3, <3>1, FClobbered
  <2>7. u[FSlot(x)] = swap[s0]
    BY <1>7, <2>b
  <2> HIDE DEF side, mid, later, x, s0
  <2>8. {u[p] : p \in side \cup {FSlot(x)}} = {v[p] : p \in side} \cup {swap[s0]}
    BY <2>1, <2>7
  <2>9. {swap[s] : s \in later \cup {s0}} = {swap[s] : s \in later} \cup {swap[s0]}
    OBVIOUS
  <2>10. {u[p] : p \in side \cup {FSlot(x)}} \cup {swap[s] : s \in later} = 0 .. n - 1
    BY <2>6, <2>8, <2>9
  <2>11. ({v[p] : p \in FKept} \cup {swap[s] : s \in FSaved} = 0 .. n - 1)'
    BY <1>1, <2>b, <2>4, <2>5, <2>10
  <2>12. ({v[p] : p \in FKept} \cup {swap[s] : s \in FSaved} = 0 .. n - 1)'
            => F!NothingClobbered'
    BY DEF F!NothingClobbered, FKept, FSaved
  <2> QED
    BY <2>11, <2>12
<1>10. F!TypeOK'
  <2>1. ptr' \in -1 .. n - 1 /\ m' \in 0 .. n /\ c' \in 0 .. 2 * Save
    BY <1>1, <1>2, <1>3, <1>5, <1>7 DEF F!TypeOK
  <2> QED
    BY <1>1, <1>2, <1>7, <2>1 DEF F!TypeOK, F!Pos, Pos
<1>11. FBudget'
  BY <1>1, <1>3, <1>8 DEF FBudget
<1>12. FRoom'
  <2>1. ptr' = FUnread' + F!Remaining' - 1
    BY <1>3, <1>5, <1>7, <1>8
  <2>2. pc' \in {"saved", "done"} /\ F!Right' <= n'
    BY <1>1, <1>7
  <2> QED
    BY <2>1, <2>2 DEF FRoom
<1> QED
  BY <1>7, <1>9, <1>10, <1>11, <1>12 DEF FIInv

LEMMA FNext == FIInv /\ [F!Next]_F!vars => FIInv'
<1> SUFFICES ASSUME FIInv, [F!Next]_F!vars PROVE FIInv'
  OBVIOUS
<1>1. CASE UNCHANGED F!vars
  <2>1. FQuiet /\ UNCHANGED <<cnt, c, pc>>
    BY <1>1 DEF F!vars, F!args, FQuiet
  <2>2. F!TypeOK /\ FBudget /\ FRoom
    BY DEF FIInv
  <2>3. FBudget'
    BY <2>1, <2>2 DEF FBudget, FQuiet, FUnread
  <2>4. F!Remaining' = F!Remaining
    BY <2>1 DEF F!Remaining
  <2>5. /\ cnt' \in 0 .. cnt /\ c' \in 0 .. 2 * Save
        /\ pc' \in {"left", "right", "placeLeft", "placeRight", "restLeft", "restRight",
                   "saved", "done"}
    BY <2>1, <2>2, FNumbers DEF F!TypeOK
  <2>6. /\ pc' \in {"placeLeft", "restLeft"} => F!Slack + c' <= 2 * Save
        /\ pc' \in {"placeRight", "restRight"} => F!Slack >= c'
    BY <2>1, <2>2 DEF FRoom
  <2> QED
    BY <2>1, <2>3, <2>4, <2>5, <2>6, FQuietStep
<1> QED
  BY <1>1, FNoRoomLeft, FChunkLeft, FNoRoomRight, FChunkRight, FLastChunk, FPlaceLeft,
     FPlaceRight, FChunkPlaced, FPlaceSaved DEF F!Next

\* The parts of the invariant that the runs check.
LEMMA FImplies == FIInv => F!FulcrumInvariant
<1> SUFFICES ASSUME FIInv PROVE F!FulcrumInvariant
  OBVIOUS
<1>1. F!TypeOK /\ FBudget /\ FRoom /\ FPlaced /\ F!NothingClobbered
  BY DEF FIInv
<1>2. /\ Save \in Nat /\ Chunk \in Nat /\ n \in Nat
      /\ ptr \in Int /\ pta \in Int /\ tpa \in Int /\ m \in Nat /\ cnt \in Nat /\ c \in Nat
      /\ n % Chunk \in 0 .. Chunk - 1
  BY <1>1, FNumbers
<1>3. FUnread = tpa - pta + 1 /\ F!Slack = pta - m /\ F!Right = ptr + m + 1
  BY DEF FUnread, F!Slack, F!Right
<1>4. F!WritesBehindReads
  <2>1. ASSUME pc \in {"placeLeft", "restLeft"}, c > 0
        PROVE  {m, ptr + m} \cap (pta + 1 .. tpa) = {}
    <3>1. ptr = tpa - pta + 2 * Save
      <4>1. F!Remaining = 2 * Save
        BY <2>1 DEF F!Remaining
      <4> QED
        BY <1>1, <1>2, <1>3, <4>1 DEF FRoom
    <3>2. pta - m >= 0 /\ pta - m + c <= 2 * Save
      BY <1>1, <1>3, <2>1 DEF FRoom
    <3>3. m < pta + 1 /\ ptr + m > tpa
      BY <1>2, <2>1, <3>1, <3>2
    <3> QED
      BY <1>2, <3>3
  <2>2. ASSUME pc \in {"placeRight", "restRight"}, c > 0
        PROVE  {m, ptr + m} \cap (pta .. tpa - 1) = {}
    <3>1. ptr = tpa - pta + 2 * Save
      <4>1. F!Remaining = 2 * Save
        BY <2>2 DEF F!Remaining
      <4> QED
        BY <1>1, <1>2, <1>3, <4>1 DEF FRoom
    <3>2. pta - m >= c /\ pta - m <= 2 * Save
      BY <1>1, <1>3, <2>2 DEF FRoom
    <3>3. m < pta /\ ptr + m > tpa - 1
      BY <1>2, <2>2, <3>1, <3>2
    <3> QED
      BY <1>2, <3>3
  <2>3. ASSUME pc \in {"saved", "done"} PROVE pta > tpa
    <3>1. tpa - pta + 1 = 0
      BY <1>1, <1>3, <2>3 DEF FBudget
    <3> QED
      BY <1>2, <3>1
  <2> QED
    BY <2>1, <2>2, <2>3 DEF F!WritesBehindReads
<1>5. F!Sandwich
  <2>1. pc = "done" => F!Right = m
    <3> SUFFICES ASSUME pc = "done" PROVE F!Right = m
      OBVIOUS
    <3>1. F!Remaining = 0
      BY DEF F!Remaining
    <3>2. FUnread = 0 /\ ptr = FUnread + F!Remaining - 1
      BY <1>1 DEF FBudget, FRoom
    <3> QED
      BY <1>2, <1>3, <3>1, <3>2
  <2>2. F!AllIn(v, below, 0, m) /\ F!NoneIn(v, below, F!Right, n)
    BY <1>1 DEF FPlaced, AllIn, NoneIn, F!AllIn, F!NoneIn
  <2> QED
    BY <2>1, <2>2 DEF F!Sandwich
<1> QED
  BY <1>1, <1>4, <1>5 DEF F!FulcrumInvariant

\* What the caller gets.
FPromise ==
    IsArrangement(v) /\ Partitioned(v, below, 0, m, n) /\ \A p \in Pos : p >= n => v[p] = p

LEMMA FReturned == FIInv /\ pc = "done" => FPromise
<1> SUFFICES ASSUME FIInv, pc = "done" PROVE FPromise
  OBVIOUS
<1>1. F!TypeOK /\ FBudget /\ FRoom /\ FPlaced /\ F!FulcrumInvariant
  BY FImplies DEF FIInv
<1>2. n \in 0 .. N /\ m \in Nat /\ pta \in Int /\ tpa \in Int /\ Save \in Nat
  BY <1>1, FNumbers
<1>3. F!Right = m /\ F!Remaining = 0 /\ tpa - pta + 1 = 0 /\ m <= n
  BY <1>1, <1>2 DEF F!FulcrumInvariant, F!Sandwich, F!Remaining, FBudget, FUnread, FRoom
<1>4. {v[p] : p \in 0 .. n - 1} = 0 .. n - 1
  <2>1. FKept = 0 .. n - 1
    BY <1>2, <1>3 DEF FKept
  <2>2. FSaved = {}
    BY <1>2, <1>3 DEF FSaved
  <2>3. {v[p] : p \in FKept} \cup {swap[s] : s \in FSaved} = 0 .. n - 1
    BY FClobbered DEF FIInv
  <2> QED
    BY <2>1, <2>2, <2>3
<1>5. v \in [Pos -> Pos] /\ \A p \in Pos : p >= n => v[p] = p
  BY <1>1 DEF F!TypeOK, F!Pos, Pos, FPlaced
<1>6. IsArrangement(v)
  BY <1>2, <1>4, <1>5, OntoRange
<1>7. Partitioned(v, below, 0, m, n)
  BY <1>1, <1>2, <1>3 DEF FPlaced, Partitioned
<1> QED
  BY <1>5, <1>6, <1>7 DEF FPromise

\* Until the call returns nothing its caller could see has changed.
LEMMA FRefineStep == FIInv /\ [F!Next]_F!vars => [F!Contract!Next]_F!Contract!vars
<1> SUFFICES ASSUME FIInv, [F!Next]_F!vars PROVE [F!Contract!Next]_F!Contract!vars
  OBVIOUS
<1>1. FIInv'
  BY FNext
<1>2. UNCHANGED <<below, n>> /\ (pc = "done" => UNCHANGED <<v, m, pc>>)
  BY DEF F!Next, F!vars, F!args, F!NoRoomLeft, F!ChunkLeft, F!NoRoomRight, F!ChunkRight,
     F!LastChunk, F!PlaceLeft, F!PlaceRight, F!ChunkPlaced, F!PlaceSaved
<1>3. CASE pc = "done"
  BY <1>2, <1>3 DEF F!Contract!vars
<1>4. CASE pc # "done" /\ pc' # "done"
  BY <1>2, <1>4 DEF F!Contract!vars, F!Pos
<1>5. CASE pc # "done" /\ pc' = "done"
  <2>b. PICK u : u = v'
    OBVIOUS
  <2>1. FPromise'
    <3>1. (FIInv /\ pc = "done" => FPromise)'
      BY FReturned, PTL
    <3> QED
      BY <1>1, <1>5, <3>1
  <2>2. IsArrangement(u) /\ Partitioned(u, below, 0, m', n) /\ \A p \in Pos : p >= n => u[p] = p
    BY <1>2, <2>b, <2>1 DEF FPromise, IsArrangement, Partitioned, AllIn, NoneIn
  <2>3. F!Contract!IsArrangement(u)
    BY <2>2 DEF IsArrangement, Pos, F!Contract!IsArrangement, F!Contract!Pos
  <2>4. F!Contract!SameOutside([p \in F!Pos |-> p], u, 0, n)
    <3>1. n \in Nat /\ N \in Nat
      BY FNumbers DEF FIInv
    <3> QED
      BY <2>2, <3>1 DEF F!Contract!SameOutside, F!Contract!Pos, F!Pos, Pos
  <2>5. F!Contract!Partitioned(u, below, 0, m', n)
    BY <2>2 DEF Partitioned, AllIn, NoneIn, F!Contract!Partitioned, F!Contract!AllIn,
       F!Contract!NoneIn
  <2> QED
    BY <1>2, <1>5, <2>b, <2>3, <2>4, <2>5 DEF F!Contract!Next, F!Contract!Return,
       F!Contract!Rearranges
<1> QED
  BY <1>3, <1>4, <1>5
-----------------------------------------------------------------------------
(***************************************************************************)
(* compress_partition.                                                     *)
(***************************************************************************)
LEMMA FunctionIsSeq ==
    ASSUME NEW S, NEW d \in Nat, NEW f \in [1 .. d -> S]
    PROVE  f \in Seq(S) /\ Len(f) = d
OBVIOUS

LEMMA SameCardinality == ASSUME NEW s PROVE D!Cardinality(s) = Cardinality(s)
BY DEF D!Cardinality, Cardinality

\* A row of the table lists the lanes of the mask and then the other ones.
LEMMA Permuted ==
    ASSUME NEW mask, mask \subseteq D!Lanes
    PROVE  /\ Cardinality(mask) \in 0 .. W
           /\ D!LutPerm(mask) \in [1 .. W -> D!Lanes]
           /\ \A s \in 1 .. W : D!LutPerm(mask)[s] \in mask <=> s <= Cardinality(mask)
           /\ \A lane \in D!Lanes : \E s \in 1 .. W : D!LutPerm(mask)[s] = lane
<1> DEFINE size == Cardinality(mask)
           rest == D!Lanes \ mask
           a == ByRank(mask)
           b == ByRank(rest)
<1>1. W \in Nat /\ IsFiniteSet(D!Lanes) /\ Cardinality(D!Lanes) = W /\ D!Lanes \subseteq Int
  <2>1. W \in Nat
    BY KernelParameters
  <2> QED
    BY <2>1, FS_Interval DEF D!Lanes
<1>2. IsFiniteSet(mask) /\ size \in 0 .. W
  <2>1. IsFiniteSet(mask) /\ size <= W
    BY <1>1, FS_Subset
  <2> QED
    BY <1>1, <2>1, FS_CardinalityType
<1>3. IsFiniteSet(rest) /\ Cardinality(rest) = W - size
  <2>1. D!Lanes \cap mask = mask
    OBVIOUS
  <2> QED
    BY <1>1, <2>1, FS_Difference
<1>4. D!LutPerm(mask) = a \o b
  <2>1. D!InOrder(mask) = a
    BY DEF D!InOrder, ByRank, D!Cardinality, Cardinality
  <2>2. D!InOrder(rest) = b
    BY DEF D!InOrder, ByRank, D!Cardinality, Cardinality
  <2> HIDE DEF a, b
  <2> QED
    BY <2>1, <2>2 DEF D!LutPerm
<1>5. /\ a \in [1 .. size -> mask]
      /\ \A lane \in mask : \E s \in 1 .. size : a[s] = lane
  BY <1>1, <1>2, AscendingList
<1>6. /\ b \in [1 .. W - size -> rest]
      /\ \A lane \in rest : \E s \in 1 .. W - size : b[s] = lane
  BY <1>1, <1>3, AscendingList
<1> HIDE DEF a, b, size
<1>7. a \in Seq(D!Lanes) /\ Len(a) = size
  <2>1. a \in [1 .. size -> D!Lanes]
    BY <1>5
  <2> QED
    BY <1>2, <2>1, FunctionIsSeq
<1>8. b \in Seq(D!Lanes) /\ Len(b) = W - size
  <2>1. b \in [1 .. W - size -> D!Lanes]
    BY <1>6
  <2> QED
    BY <1>1, <1>2, <2>1, FunctionIsSeq
<1> DEFINE e == a \o b
<1>9. /\ e \in Seq(D!Lanes) /\ Len(e) = W
      /\ \A s \in 1 .. W : e[s] = IF s <= size THEN a[s] ELSE b[s - size]
  <2>1. /\ e \in Seq(D!Lanes) /\ Len(e) = Len(a) + Len(b)
        /\ \A s \in 1 .. Len(a) + Len(b) :
              e[s] = IF s <= Len(a) THEN a[s] ELSE b[s - Len(a)]
    BY <1>7, <1>8, ConcatProperties
  <2>2. Len(a) + Len(b) = W
    BY <1>1, <1>2, <1>7, <1>8
  <2> HIDE DEF e
  <2> QED
    BY <1>7, <2>1, <2>2
<1>10. e \in [1 .. W -> D!Lanes]
  BY <1>9, LenProperties
<1> HIDE DEF e, rest
<1>11. ASSUME NEW s \in 1 .. W PROVE e[s] \in mask <=> s <= size
  <2>1. CASE s <= size
    <3>1. s \in 1 .. size
      BY <1>2, <2>1
    <3>2. a[s] \in mask
      BY <1>5, <3>1
    <3> QED
      BY <1>9, <2>1, <3>2
  <2>2. CASE ~(s <= size)
    <3>1. s - size \in 1 .. W - size
      BY <1>1, <1>2, <2>2
    <3>2. b[s - size] \in rest
      BY <1>6, <3>1
    <3> QED
      BY <1>9, <2>2, <3>2 DEF rest
  <2> QED
    BY <2>1, <2>2
<1>12. ASSUME NEW lane \in D!Lanes PROVE \E s \in 1 .. W : e[s] = lane
  <2>1. CASE lane \in mask
    <3>1. PICK s \in 1 .. size : a[s] = lane
      BY <1>5, <2>1
    <3>2. s \in 1 .. W /\ s <= size
      BY <1>1, <1>2
    <3> QED
      BY <1>9, <3>1, <3>2
  <2>2. CASE lane \notin mask
    <3>1. PICK s \in 1 .. W - size : b[s] = lane
      BY <1>6, <2>2 DEF rest
    <3>2. s + size \in 1 .. W /\ ~(s + size <= size) /\ (s + size) - size = s
      BY <1>1, <1>2
    <3> QED
      BY <1>9, <3>1, <3>2
  <2> QED
    BY <2>1, <2>2
<1> QED
  BY <1>2, <1>4, <1>10, <1>11, <1>12 DEF e, size

\* The vector x is stored at both cursors, which makes u of the array: the d of its
\* elements that are below the pivot end up before the left cursor and the other
\* ones behind the right one, and the vectors' cells are the only ones written.
CStoredAs(u, x, d) ==
    /\ sl' = sl + d /\ sr' = sr - W + d
    /\ u \in [Pos -> Pos]
    /\ \A p \in Pos : p \notin sl .. sl + W - 1 /\ p \notin sr - W .. sr - 1 => u[p] = v[p]
    /\ \A p \in sl .. sl + d - 1 : u[p] \in below
    /\ \A p \in sr - W + d .. sr - 1 : u[p] \notin below
    /\ {u[p] : p \in sl .. sl + d - 1 \cup sr - W + d .. sr - 1} = {x[s] : s \in 1 .. W}

LEMMA CStored ==
    ASSUME v \in [Pos -> Pos], n \in 0 .. N, sl \in Nat, sr \in Nat, sl + W <= sr - W, sr <= n,
           NEW x \in [1 .. W -> Pos], D!Store(x)
    PROVE  \E d \in 0 .. W : CStoredAs(v', x, d)
<1> DEFINE mask == {lane \in D!Lanes : x[lane + 1] \in below}
           d == Cardinality(mask)
           row == D!LutPerm(mask)
           y == [s \in 1 .. W |-> x[row[s] + 1]]
<1>1. W \in Nat /\ W > 0 /\ N \in Nat /\ n \in Nat /\ n <= N
  BY KernelParameters, NAssumption
<1>2. /\ d \in 0 .. W /\ row \in [1 .. W -> D!Lanes]
      /\ \A s \in 1 .. W : row[s] \in mask <=> s <= d
      /\ \A lane \in D!Lanes : \E s \in 1 .. W : row[s] = lane
  BY Permuted
<1>3. /\ v' = [p \in D!Pos |-> CASE p \in sr - W .. sr - 1 -> y[p - (sr - W) + 1]
                              [] p \in (sl .. sl + W - 1) \ (sr - W .. sr - 1) -> y[p - sl + 1]
                              [] OTHER -> v[p]]
      /\ sl' = sl + d /\ sr' = sr - (W - d)
  BY SameCardinality DEF D!Store
<1>4. D!Lanes = 0 .. W - 1
  BY DEF D!Lanes
<1>5. \A s \in 1 .. W : y[s] \in Pos /\ (y[s] \in below <=> s <= d)
  <2> SUFFICES ASSUME NEW s \in 1 .. W PROVE y[s] \in Pos /\ (y[s] \in below <=> s <= d)
    OBVIOUS
  <2>1. row[s] \in 0 .. W - 1 /\ (row[s] \in mask <=> s <= d)
    BY <1>2, <1>4
  <2> HIDE DEF row, d
  <2>2. y[s] = x[row[s] + 1] /\ row[s] + 1 \in 1 .. W
    BY <1>1, <2>1
  <2>3. row[s] \in mask <=> x[row[s] + 1] \in below
    BY <1>4, <2>1
  <2> HIDE DEF y, mask
  <2>4. y[s] \in Pos
    BY <2>2
  <2> QED
    BY <2>1, <2>2, <2>3, <2>4
<1>6. {y[s] : s \in 1 .. W} = {x[s] : s \in 1 .. W}
  <2>1. ASSUME NEW s \in 1 .. W PROVE \E t \in 1 .. W : y[s] = x[t]
    <3>1. row[s] \in 0 .. W - 1
      BY <1>2, <1>4
    <3> HIDE DEF row
    <3>2. y[s] = x[row[s] + 1] /\ row[s] + 1 \in 1 .. W
      BY <1>1, <3>1
    <3> QED
      BY <3>2
  <2>2. ASSUME NEW t \in 1 .. W PROVE \E s \in 1 .. W : x[t] = y[s]
    <3>1. t - 1 \in D!Lanes
      BY <1>1, <1>4
    <3>2. PICK s \in 1 .. W : row[s] = t - 1
      BY <1>2, <3>1
    <3> HIDE DEF row
    <3>3. y[s] = x[t]
      BY <1>1, <3>2
    <3> QED
      BY <3>3
  <2> HIDE DEF y
  <2>3. {y[s] : s \in 1 .. W} \subseteq {x[s] : s \in 1 .. W}
    BY <2>1
  <2>4. {x[s] : s \in 1 .. W} \subseteq {y[s] : s \in 1 .. W}
    BY <2>2
  <2> QED
    BY <2>3, <2>4
<1> HIDE DEF y, row, d, mask
<1>7. D!Pos = Pos
  BY DEF D!Pos, Pos
<1>b. PICK u : u = v'
  OBVIOUS
<1>8. \A p \in Pos : p \in sr - W .. sr - 1 => u[p] = y[p - (sr - W) + 1]
  BY <1>3, <1>7, <1>b
<1>9. \A p \in Pos : p \in sl .. sl + W - 1 => u[p] = y[p - sl + 1]
  <2> SUFFICES ASSUME NEW p \in Pos, p \in sl .. sl + W - 1 PROVE u[p] = y[p - sl + 1]
    OBVIOUS
  <2>1. p \notin sr - W .. sr - 1
    BY <1>1
  <2> QED
    BY <1>3, <1>7, <1>b, <2>1
<1>10. \A p \in Pos : p \notin sl .. sl + W - 1 /\ p \notin sr - W .. sr - 1 => u[p] = v[p]
  BY <1>3, <1>7, <1>b
<1>11. u \in [Pos -> Pos]
  <2>1. \A p \in Pos : u[p] \in Pos
    <3> SUFFICES ASSUME NEW p \in Pos PROVE u[p] \in Pos
      OBVIOUS
    <3>1. CASE p \in sr - W .. sr - 1
      <4>1. p - (sr - W) + 1 \in 1 .. W
        BY <1>1, <3>1
      <4> QED
        BY <1>5, <1>8, <3>1, <4>1
    <3>2. CASE p \in sl .. sl + W - 1
      <4>1. p - sl + 1 \in 1 .. W
        BY <1>1, <3>2
      <4> QED
        BY <1>5, <1>9, <3>2, <4>1
    <3>3. CASE p \notin sl .. sl + W - 1 /\ p \notin sr - W .. sr - 1
      BY <1>10, <3>3
    <3> QED
      BY <3>1, <3>2, <3>3
  <2>2. u = [p \in Pos |-> u[p]]
    BY <1>3, <1>7, <1>b
  <2> QED
    BY <2>1, <2>2
<1>12. \A p \in sl .. sl + d - 1 : p \in Pos /\ p - sl + 1 \in 1 .. d /\ u[p] = y[p - sl + 1]
  <2> SUFFICES ASSUME NEW p \in sl .. sl + d - 1
               PROVE  p \in Pos /\ p - sl + 1 \in 1 .. d /\ u[p] = y[p - sl + 1]
    OBVIOUS
  <2>1. p \in Int /\ sl <= p /\ p <= sl + d - 1 /\ d \in Nat /\ d <= W
    BY <1>1, <1>2
  <2>2. p \in sl .. sl + W - 1 /\ p - sl + 1 \in 1 .. d
    BY <1>1, <2>1
  <2>3. p \in Pos
    BY <1>1, <2>1 DEF Pos
  <2> QED
    BY <1>9, <2>2, <2>3
<1>13. \A p \in sr - W + d .. sr - 1 :
          p \in Pos /\ p - (sr - W) + 1 \in d + 1 .. W /\ u[p] = y[p - (sr - W) + 1]
  <2> SUFFICES ASSUME NEW p \in sr - W + d .. sr - 1
               PROVE  p \in Pos /\ p - (sr - W) + 1 \in d + 1 .. W
                      /\ u[p] = y[p - (sr - W) + 1]
    OBVIOUS
  <2>1. p \in sr - W .. sr - 1 /\ p - (sr - W) + 1 \in d + 1 .. W /\ p \in Pos
    BY <1>1, <1>2 DEF Pos
  <2> QED
    BY <1>8, <2>1
<1>14. \A p \in sl .. sl + d - 1 : u[p] \in below
  <2>1. \A s \in 1 .. d : s \in 1 .. W /\ s <= d
    BY <1>1, <1>2
  <2> QED
    BY <1>5, <1>12, <2>1
<1>15. \A p \in sr - W + d .. sr - 1 : u[p] \notin below
  <2>1. \A s \in d + 1 .. W : s \in 1 .. W /\ ~(s <= d)
    BY <1>1, <1>2
  <2> QED
    BY <1>5, <1>13, <2>1
<1>16. {u[p] : p \in sl .. sl + d - 1 \cup sr - W + d .. sr - 1} = {y[s] : s \in 1 .. W}
  <2>1. ASSUME NEW p \in sl .. sl + d - 1 PROVE u[p] \in {y[s] : s \in 1 .. W}
    <3>1. p - sl + 1 \in 1 .. W
      BY <1>1, <1>2
    <3> QED
      BY <1>12, <3>1
  <2>2. ASSUME NEW p \in sr - W + d .. sr - 1 PROVE u[p] \in {y[s] : s \in 1 .. W}
    <3>1. p - (sr - W) + 1 \in 1 .. W
      BY <1>1, <1>2
    <3> QED
      BY <1>13, <3>1
  <2>3. ASSUME NEW s \in 1 .. W
        PROVE  y[s] \in {u[p] : p \in sl .. sl + d - 1 \cup sr - W + d .. sr - 1}
    <3>1. CASE s <= d
      <4>1. sl + s - 1 \in sl .. sl + d - 1 /\ (sl + s - 1) - sl + 1 = s
        BY <1>1, <1>2, <3>1
      <4>2. u[sl + s - 1] = y[s]
        BY <1>12, <4>1
      <4> QED
        BY <4>1, <4>2
    <3>2. CASE ~(s <= d)
      <4>1. /\ sr - W + s - 1 \in sr - W + d .. sr - 1
            /\ (sr - W + s - 1) - (sr - W) + 1 = s
        BY <1>1, <1>2, <3>2
      <4>2. u[sr - W + s - 1] = y[s]
        BY <1>13, <4>1
      <4> QED
        BY <4>1, <4>2
    <3> QED
      BY <3>1, <3>2
  <2> QED
    BY <2>1, <2>2, <2>3
<1>17. sl' = sl + d /\ sr' = sr - W + d
  BY <1>1, <1>2, <1>3
<1>18. {u[p] : p \in sl .. sl + d - 1 \cup sr - W + d .. sr - 1} = {x[s] : s \in 1 .. W}
  BY <1>6, <1>16
<1>19. CStoredAs(u, x, d)
  BY <1>10, <1>11, <1>14, <1>15, <1>17, <1>18 DEF CStoredAs
<1>20. d \in 0 .. W
  BY <1>2
<1> QED
  BY <1>b, <1>19, <1>20
-----------------------------------------------------------------------------
\* While the middle is read, two vectors' room lies between it and the cursors.
CRoom ==
    /\ W <= i /\ i <= j /\ j <= n - W
    /\ (i - sl) + (sr - j) = 2 * W
    /\ i - sl >= 0 /\ sr - j >= 0

CPlaced ==
    /\ AllIn(v, below, 0, sl)
    /\ NoneIn(v, below, sr, n)
    /\ \A p \in Pos : p >= n => v[p] = p

CKept == 0 .. sl - 1 \cup sr .. n - 1 \cup D!Unread
CHeld == {D!Outside[s] : s \in 1 .. Len(D!Outside)}

CType ==
    /\ v \in [Pos -> Pos] /\ below \in SUBSET Pos /\ n \in 2 * W .. N
    /\ held \in Seq(Pos) /\ Len(held) = 2 * W /\ tmp \in Seq(Pos)
    /\ i \in Int /\ j \in Int /\ sl \in Nat /\ sr \in Nat /\ sl <= sr /\ sr <= n
    /\ pc \in {"loop", "tail", "done"}

CIInv ==
    /\ CType
    /\ pc = "loop" => CRoom
    /\ pc # "loop" => Len(tmp) = sr - sl
    /\ pc = "done" => tmp = <<>>
    /\ CPlaced
    /\ {v[p] : p \in CKept} \cup CHeld = 0 .. n - 1

LEMMA CNumbers ==
    ASSUME CType
    PROVE  /\ N \in Nat /\ W \in Nat /\ W > 0 /\ n \in Nat /\ n <= N /\ n >= 2 * W
           /\ sl \in Nat /\ sr \in Nat /\ i \in Int /\ j \in Int /\ sl <= sr /\ sr <= n
BY NAssumption, KernelParameters DEF CType

\* The vector at a place of the middle.
LEMMA CVector ==
    ASSUME NEW g \in Nat, g + W <= N, v \in [Pos -> Pos]
    PROVE  /\ D!Vector(g) \in [1 .. W -> Pos]
           /\ \A s \in 1 .. W : D!Vector(g)[s] = v[g + s - 1]
           /\ {D!Vector(g)[s] : s \in 1 .. W} = {v[p] : p \in g .. g + W - 1}
<1>1. W \in Nat /\ N \in Nat
  BY KernelParameters, NAssumption
<1>2. D!Vector(g) = [s \in 1 .. W |-> v[g + s - 1]]
  BY DEF D!Vector
<1>3. \A s \in 1 .. W : g + s - 1 \in Pos /\ g + s - 1 \in g .. g + W - 1
  BY <1>1 DEF Pos
<1>4. \A s \in 1 .. W : v[g + s - 1] \in Pos
  BY <1>3
<1>5. \A p \in g .. g + W - 1 : p - g + 1 \in 1 .. W /\ g + (p - g + 1) - 1 = p
  BY <1>1
<1>6. D!Vector(g) \in [1 .. W -> Pos]
  BY <1>2, <1>4
<1>7. \A s \in 1 .. W : D!Vector(g)[s] = v[g + s - 1]
  BY <1>2
<1> DEFINE x == D!Vector(g)
<1> HIDE DEF x
<1>8. {x[s] : s \in 1 .. W} \subseteq {v[p] : p \in g .. g + W - 1}
  BY <1>3, <1>7 DEF x
<1>9. {v[p] : p \in g .. g + W - 1} \subseteq {x[s] : s \in 1 .. W}
  <2> SUFFICES ASSUME NEW p \in g .. g + W - 1 PROVE v[p] \in {x[s] : s \in 1 .. W}
    OBVIOUS
  <2>1. p - g + 1 \in 1 .. W /\ x[p - g + 1] = v[p]
    BY <1>5, <1>7 DEF x
  <2> QED
    BY <2>1
<1> QED
  BY <1>6, <1>7, <1>8, <1>9 DEF x

LEMMA CInit == ASSUME D!Init PROVE CIInv
<1>1. N \in Nat /\ W \in Nat /\ W > 0 /\ n \in Nat /\ n <= N /\ n >= 2 * W
  BY KernelParameters, NAssumption DEF D!Init
<1>2. /\ v = [p \in Pos |-> p] /\ below \in SUBSET Pos /\ n \in 2 * W .. N
      /\ i = W /\ j = n - W /\ sl = 0 /\ sr = n /\ tmp = <<>> /\ pc = "loop"
  BY DEF D!Init, D!Pos, Pos
<1>3. held = D!Vector(0) \o D!Vector(n - W)
  BY DEF D!Init
<1>4. v \in [Pos -> Pos] /\ \A p \in Pos : v[p] = p
  BY <1>2
<1> DEFINE a == D!Vector(0)
           b == D!Vector(n - W)
<1>5. a \in [1 .. W -> Pos] /\ {a[s] : s \in 1 .. W} = {v[p] : p \in 0 .. W - 1}
  <2>1. 0 \in Nat /\ 0 + W <= N
    BY <1>1
  <2>2. a \in [1 .. W -> Pos] /\ {a[s] : s \in 1 .. W} = {v[p] : p \in 0 .. 0 + W - 1}
    BY <1>4, <2>1, CVector
  <2>3. 0 + W - 1 = W - 1
    BY <1>1
  <2> QED
    BY <2>2, <2>3
<1>6. b \in [1 .. W -> Pos] /\ {b[s] : s \in 1 .. W} = {v[p] : p \in n - W .. n - 1}
  <2>1. n - W \in Nat /\ (n - W) + W <= N
    BY <1>1
  <2>2. b \in [1 .. W -> Pos] /\ {b[s] : s \in 1 .. W} = {v[p] : p \in n - W .. (n - W) + W - 1}
    BY <1>4, <2>1, CVector
  <2>3. (n - W) + W - 1 = n - 1
    BY <1>1
  <2> QED
    BY <2>2, <2>3
<1> HIDE DEF a, b
<1>7. a \in Seq(Pos) /\ Len(a) = W /\ b \in Seq(Pos) /\ Len(b) = W
  BY <1>1, <1>5, <1>6, FunctionIsSeq
<1>8. held = a \o b
  BY <1>3 DEF a, b
<1>9. /\ held \in Seq(Pos) /\ Len(held) = 2 * W
      /\ \A s \in 1 .. 2 * W : held[s] = IF s <= W THEN a[s] ELSE b[s - W]
  <2>1. /\ a \o b \in Seq(Pos) /\ Len(a \o b) = Len(a) + Len(b)
        /\ \A s \in 1 .. Len(a) + Len(b) :
              (a \o b)[s] = IF s <= Len(a) THEN a[s] ELSE b[s - Len(a)]
    BY <1>7, ConcatProperties
  <2>2. Len(a) + Len(b) = 2 * W
    BY <1>1, <1>7
  <2> QED
    BY <1>7, <1>8, <2>1, <2>2
<1>10. {held[s] : s \in 1 .. 2 * W} = {a[s] : s \in 1 .. W} \cup {b[s] : s \in 1 .. W}
  <2>1. ASSUME NEW s \in 1 .. 2 * W
        PROVE  held[s] \in {a[t] : t \in 1 .. W} \cup {b[t] : t \in 1 .. W}
    <3>1. CASE s <= W
      <4>1. s \in 1 .. W
        BY <1>1, <3>1
      <4> QED
        BY <1>9, <3>1, <4>1
    <3>2. CASE ~(s <= W)
      <4>1. s - W \in 1 .. W
        BY <1>1, <3>2
      <4> QED
        BY <1>9, <3>2, <4>1
    <3> QED
      BY <3>1, <3>2
  <2>2. ASSUME NEW s \in 1 .. W
        PROVE  a[s] \in {held[t] : t \in 1 .. 2 * W} /\ b[s] \in {held[t] : t \in 1 .. 2 * W}
    <3>1. s \in 1 .. 2 * W /\ s <= W /\ s + W \in 1 .. 2 * W /\ ~(s + W <= W) /\ (s + W) - W = s
      BY <1>1
    <3>2. held[s] = a[s] /\ held[s + W] = b[s]
      BY <1>9, <3>1
    <3> QED
      BY <3>1, <3>2
  <2>3. {held[s] : s \in 1 .. 2 * W} \subseteq {a[s] : s \in 1 .. W} \cup {b[s] : s \in 1 .. W}
    BY <2>1
  <2>4. {a[s] : s \in 1 .. W} \cup {b[s] : s \in 1 .. W} \subseteq {held[s] : s \in 1 .. 2 * W}
    BY <2>2
  <2> QED
    BY <2>3, <2>4
<1>11. {v[p] : p \in CKept} \cup CHeld = 0 .. n - 1
  <2>1. CHeld = {held[s] : s \in 1 .. 2 * W}
    BY <1>2, <1>9 DEF CHeld, D!Outside
  <2>2. CKept = W .. n - W - 1
    <3>1. D!Unread = W .. n - W - 1
      BY <1>2 DEF D!Unread
    <3> QED
      BY <1>1, <1>2, <3>1 DEF CKept
  <2>3. CHeld = {v[p] : p \in 0 .. W - 1} \cup {v[p] : p \in n - W .. n - 1}
    BY <1>5, <1>6, <1>10, <2>1
  <2>4. \A p \in 0 .. n - 1 : v[p] = p
    BY <1>1, <1>4 DEF Pos
  <2>5. {v[p] : p \in 0 .. W - 1} = 0 .. W - 1
    BY <1>1, <2>4
  <2>6. {v[p] : p \in n - W .. n - 1} = n - W .. n - 1
    BY <1>1, <2>4
  <2>7. {v[p] : p \in W .. n - W - 1} = W .. n - W - 1
    BY <1>1, <2>4
  <2>8. W .. n - W - 1 \cup (0 .. W - 1 \cup n - W .. n - 1) = 0 .. n - 1
    BY <1>1
  <2> QED
    BY <2>2, <2>3, <2>5, <2>6, <2>7, <2>8
<1>12. CType
  BY <1>1, <1>2, <1>4, <1>9 DEF CType
<1>13. CRoom
  BY <1>1, <1>2 DEF CRoom
<1>14. CPlaced
  BY <1>1, <1>2, <1>4 DEF CPlaced, AllIn, NoneIn
<1> QED
  BY <1>2, <1>11, <1>12, <1>13, <1>14 DEF CIInv

\* The vector at g leaves the middle, of which [a, b) remains.
CShrinks(g, a, b) ==
    /\ a \in Int /\ b \in Int
    /\ W <= a /\ a <= b /\ b <= n - W
    /\ sl + W <= a /\ b <= sr - W
    /\ (a - sl) + (sr - b) = 3 * W
    /\ i .. j - 1 = a .. b - 1 \cup g .. g + W - 1

\* A vector of the middle is placed, and neither store reaches what is left of it.
LEMMA CLoaded ==
    ASSUME CIInv, pc = "loop", pc' = "loop", UNCHANGED D!args, tmp' = tmp,
           NEW g \in Nat, D!Store(D!Vector(g)),
           NEW x, NEW y, i' = x, j' = y, CShrinks(g, x, y)
    PROVE  CIInv'
<1>1. /\ CType /\ CRoom /\ CPlaced
      /\ {v[p] : p \in CKept} \cup CHeld = 0 .. n - 1
  BY DEF CIInv
<1>2. /\ N \in Nat /\ W \in Nat /\ W > 0 /\ n \in Nat /\ n <= N
      /\ sl \in Nat /\ sr \in Nat /\ i \in Int /\ j \in Int /\ sl <= sr /\ sr <= n
  BY <1>1, CNumbers
<1>3. n' = n /\ below' = below /\ held' = held
  BY DEF D!args
<1>6. /\ sl + W <= x /\ x <= y /\ y <= sr - W /\ sl + W <= sr - W
      /\ x \in Int /\ y \in Int /\ x >= W /\ y <= n - W
  BY <1>2 DEF CShrinks
<1>4. g + W <= N
  <2>1. g + W - 1 \in i .. j - 1
    BY <1>2 DEF CShrinks
  <2>2. j <= n - W
    BY <1>1 DEF CRoom
  <2> QED
    BY <1>2, <2>1, <2>2
<1>5. /\ D!Vector(g) \in [1 .. W -> Pos]
      /\ {D!Vector(g)[s] : s \in 1 .. W} = {v[p] : p \in g .. g + W - 1}
  BY <1>1, <1>4, CVector DEF CType
<1>b. PICK u : u = v'
  OBVIOUS
<1>c. PICK d \in 0 .. W : CStoredAs(u, D!Vector(g), d)
  <2>1. v \in [Pos -> Pos] /\ n \in 0 .. N
    BY <1>1, <1>2 DEF CType
  <2>2. sl + W <= sr - W /\ sl \in Nat /\ sr \in Nat /\ sr <= n
    BY <1>2, <1>6
  <2>3. \E d \in 0 .. W : CStoredAs(v', D!Vector(g), d)
    BY <1>5, <2>1, <2>2, CStored
  <2> QED
    BY <1>b, <2>3
<1>7. /\ sl' = sl + d /\ sr' = sr - W + d
      /\ u \in [Pos -> Pos]
      /\ \A p \in Pos : p \notin sl .. sl + W - 1 /\ p \notin sr - W .. sr - 1 => u[p] = v[p]
      /\ \A p \in sl .. sl + d - 1 : u[p] \in below
      /\ \A p \in sr - W + d .. sr - 1 : u[p] \notin below
      /\ {u[p] : p \in sl .. sl + d - 1 \cup sr - W + d .. sr - 1}
           = {D!Vector(g)[s] : s \in 1 .. W}
  BY <1>c DEF CStoredAs
<1> DEFINE rest == x .. y - 1
           side == 0 .. sl - 1 \cup sr .. n - 1
           fresh == sl .. sl + d - 1 \cup sr - W + d .. sr - 1
<1>8. \A p \in side \cup rest : u[p] = v[p]
  <2> SUFFICES ASSUME NEW p \in side \cup rest PROVE u[p] = v[p]
    OBVIOUS
  <2>1. p \in Pos /\ p \notin sl .. sl + W - 1 /\ p \notin sr - W .. sr - 1
    <3>1. CASE p \in 0 .. sl - 1
      BY <1>2, <1>6, <3>1 DEF Pos
    <3>2. CASE p \in sr .. n - 1
      BY <1>2, <1>6, <3>2 DEF Pos
    <3>3. CASE p \in rest
      <4>1. p \in Int /\ x <= p /\ p <= y - 1
        BY <1>6, <3>3
      <4>2. 0 <= p /\ p <= N - 1 /\ sl + W <= p /\ p < sr - W
        BY <1>2, <1>6, <4>1
      <4> QED
        BY <1>2, <4>1, <4>2 DEF Pos
    <3> QED
      BY <3>1, <3>2, <3>3
  <2> QED
    BY <1>7, <2>1
<1>9. CPlaced'
  <2>1. AllIn(u, below, 0, sl + d)
    <3> SUFFICES ASSUME NEW p \in 0 .. (sl + d) - 1 PROVE u[p] \in below
      BY DEF AllIn
    <3>1. CASE p < sl
      <4>1. p \in 0 .. sl - 1
        BY <1>2, <3>1
      <4>2. v[p] \in below
        BY <1>1, <4>1 DEF CPlaced, AllIn
      <4> QED
        BY <1>8, <4>1, <4>2
    <3>2. CASE ~(p < sl)
      <4>1. p \in sl .. sl + d - 1
        BY <1>2, <3>2
      <4> QED
        BY <1>7, <4>1
    <3> QED
      BY <3>1, <3>2
  <2>2. NoneIn(u, below, sr - W + d, n)
    <3> SUFFICES ASSUME NEW p \in sr - W + d .. n - 1 PROVE u[p] \notin below
      BY DEF NoneIn
    <3>1. CASE p >= sr
      <4>1. p \in sr .. n - 1
        BY <1>2, <3>1
      <4>2. v[p] \notin below
        BY <1>1, <4>1 DEF CPlaced, NoneIn
      <4> QED
        BY <1>8, <4>1, <4>2
    <3>2. CASE ~(p >= sr)
      <4>1. p \in sr - W + d .. sr - 1
        BY <1>2, <3>2
      <4> QED
        BY <1>7, <4>1
    <3> QED
      BY <3>1, <3>2
  <2>3. ASSUME NEW p \in Pos, p >= n PROVE u[p] = p
    <3>1. p \notin sl .. sl + W - 1 /\ p \notin sr - W .. sr - 1
      BY <1>2, <1>6, <2>3 DEF Pos
    <3>2. v[p] = p
      BY <1>1, <2>3 DEF CPlaced
    <3> QED
      BY <1>7, <3>1, <3>2
  <2> QED
    BY <1>b, <1>3, <1>7, <2>1, <2>2, <2>3 DEF CPlaced
<1>10. ({v[p] : p \in CKept} \cup CHeld = 0 .. n - 1)'
  <2>1. CHeld' = CHeld
    BY <1>3 DEF CHeld, D!Outside
  <2>2. CKept = side \cup rest \cup g .. g + W - 1
    <3>1. D!Unread = rest \cup g .. g + W - 1
      BY DEF D!Unread, CShrinks
    <3> QED
      BY <3>1 DEF CKept
  <2>3. CKept' = side \cup rest \cup fresh
    <3>1. D!Unread' = rest
      BY DEF D!Unread
    <3>2. CKept' = 0 .. sl' - 1 \cup sr' .. n' - 1 \cup rest
      BY <3>1 DEF CKept
    <3>3. 0 .. sl' - 1 = 0 .. sl - 1 \cup sl .. sl + d - 1
      BY <1>2, <1>7
    <3>4. sr' .. n' - 1 = sr - W + d .. sr - 1 \cup sr .. n - 1
      BY <1>2, <1>3, <1>7
    <3> HIDE DEF rest
    <3> QED
      BY <3>2, <3>3, <3>4
  <2>4. {u[p] : p \in fresh} = {v[p] : p \in g .. g + W - 1}
    BY <1>5, <1>7
  <2> HIDE DEF side, rest, fresh
  <2>5. {u[p] : p \in side \cup rest} = {v[p] : p \in side \cup rest}
    BY <1>8
  <2>6. {u[p] : p \in side \cup rest \cup fresh} = {v[p] : p \in side \cup rest \cup g .. g + W - 1}
    <3>1. {u[p] : p \in side \cup rest \cup fresh}
            = {u[p] : p \in side \cup rest} \cup {u[p] : p \in fresh}
      OBVIOUS
    <3>2. {v[p] : p \in side \cup rest \cup g .. g + W - 1}
            = {v[p] : p \in side \cup rest} \cup {v[p] : p \in g .. g + W - 1}
      OBVIOUS
    <3> QED
      BY <2>4, <2>5, <3>1, <3>2
  <2>7. {u[p] : p \in CKept'} \cup CHeld = 0 .. n - 1
    BY <1>1, <2>2, <2>3, <2>6
  <2> QED
    BY <1>b, <1>3, <2>1, <2>7
<1>11. CType'
  <2>1. sl' \in Nat /\ sr' \in Nat /\ sl' <= sr' /\ sr' <= n
    BY <1>2, <1>6, <1>7
  <2>2. /\ v' \in [Pos -> Pos] /\ tmp' \in Seq(Pos) /\ pc' \in {"loop", "tail", "done"}
        /\ i' \in Int /\ j' \in Int
    BY <1>b, <1>1, <1>6, <1>7 DEF CType
  <2>3. /\ below' \in SUBSET Pos /\ n' \in 2 * W .. N
        /\ held' \in Seq(Pos) /\ Len(held') = 2 * W
    BY <1>1, <1>3 DEF CType
  <2> QED
    BY <1>3, <2>1, <2>2, <2>3 DEF CType
<1>12. CRoom'
  <2>1. /\ (i' - sl') + (sr' - j') = 2 * W
        /\ i' - sl' >= 0 /\ sr' - j' >= 0
    <3>1. (x - sl) + (sr - y) = 3 * W
      BY DEF CShrinks
    <3> QED
      BY <1>2, <1>6, <1>7, <3>1
  <2> QED
    BY <1>3, <1>6, <2>1 DEF CRoom
<1> QED
  BY <1>9, <1>10, <1>11, <1>12 DEF CIInv

LEMMA CLoadLeft == ASSUME CIInv, D!LoadLeft PROVE CIInv'
<1>1. /\ pc = "loop" /\ pc' = pc /\ j - i >= W /\ i - sl <= sr - j /\ D!Store(D!Vector(i))
      /\ i' = i + W /\ UNCHANGED D!args /\ j' = j /\ tmp' = tmp
  BY DEF D!LoadLeft, D!Full, D!MoreRoomLeft, D!args
<1>2. CType /\ CRoom
  BY <1>1 DEF CIInv
<1>3. /\ W \in Nat /\ n \in Nat /\ sl \in Nat /\ sr \in Nat /\ i \in Int /\ j \in Int
      /\ W <= i /\ i <= j /\ j <= n - W /\ (i - sl) + (sr - j) = 2 * W
      /\ i - sl >= 0 /\ sr - j >= 0
  BY <1>2, CNumbers DEF CRoom
<1>4. i \in Nat /\ CShrinks(i, i + W, j)
  BY <1>1, <1>3 DEF CShrinks
<1> QED
  BY <1>1, <1>4, CLoaded

LEMMA CLoadRight == ASSUME CIInv, D!LoadRight PROVE CIInv'
<1>1. /\ pc = "loop" /\ pc' = pc /\ j - i >= W /\ ~(i - sl <= sr - j)
      /\ D!Store(D!Vector(j - W))
      /\ j' = j - W /\ UNCHANGED D!args /\ i' = i /\ tmp' = tmp
  BY DEF D!LoadRight, D!Full, D!MoreRoomLeft, D!args
<1>2. CType /\ CRoom
  BY <1>1 DEF CIInv
<1>3. /\ W \in Nat /\ n \in Nat /\ sl \in Nat /\ sr \in Nat /\ i \in Int /\ j \in Int
      /\ W <= i /\ i <= j /\ j <= n - W /\ (i - sl) + (sr - j) = 2 * W
      /\ i - sl >= 0 /\ sr - j >= 0
  BY <1>2, CNumbers DEF CRoom
<1>4. j - W \in Nat /\ CShrinks(j - W, i, j - W)
  BY <1>1, <1>3 DEF CShrinks
<1> QED
  BY <1>1, <1>4, CLoaded

\* The elements held back, then those of the middle that is left.
LEMMA CCopyTail == ASSUME CIInv, D!CopyTail PROVE CIInv'
<1>1. /\ pc = "loop" /\ pc' = "tail" /\ UNCHANGED D!args
      /\ v' = v /\ i' = i /\ j' = j /\ sl' = sl /\ sr' = sr
      /\ tmp' = held \o [s \in 1 .. j - i |-> v[i + s - 1]]
  BY DEF D!CopyTail
<1>2. /\ CType /\ CRoom /\ CPlaced
      /\ {v[p] : p \in CKept} \cup CHeld = 0 .. n - 1
  BY <1>1 DEF CIInv
<1>3. /\ N \in Nat /\ W \in Nat /\ W > 0 /\ n \in Nat /\ n <= N
      /\ sl \in Nat /\ sr \in Nat /\ i \in Int /\ j \in Int /\ sl <= sr /\ sr <= n
  BY <1>2, CNumbers
<1>4. n' = n /\ below' = below /\ held' = held
  BY <1>1 DEF D!args
<1>5. W <= i /\ i <= j /\ j <= n - W /\ (i - sl) + (sr - j) = 2 * W
  BY <1>2 DEF CRoom
<1> DEFINE b == [s \in 1 .. j - i |-> v[i + s - 1]]
<1>6. b \in [1 .. j - i -> Pos] /\ \A s \in 1 .. j - i : b[s] = v[i + s - 1]
  <2>1. \A s \in 1 .. j - i : i + s - 1 \in Pos
    BY <1>3, <1>5 DEF Pos
  <2> QED
    BY <1>2, <2>1 DEF CType
<1>7. {b[s] : s \in 1 .. j - i} = {v[p] : p \in i .. j - 1}
  <2>1. \A s \in 1 .. j - i : i + s - 1 \in i .. j - 1
    BY <1>3
  <2>2. \A p \in i .. j - 1 : p - i + 1 \in 1 .. j - i /\ i + (p - i + 1) - 1 = p
    BY <1>3
  <2> HIDE DEF b
  <2>3. {b[s] : s \in 1 .. j - i} \subseteq {v[p] : p \in i .. j - 1}
    BY <1>6, <2>1
  <2>4. {v[p] : p \in i .. j - 1} \subseteq {b[s] : s \in 1 .. j - i}
    <3> SUFFICES ASSUME NEW p \in i .. j - 1 PROVE v[p] \in {b[s] : s \in 1 .. j - i}
      OBVIOUS
    <3>1. p - i + 1 \in 1 .. j - i /\ b[p - i + 1] = v[p]
      BY <1>6, <2>2
    <3> QED
      BY <3>1
  <2> QED
    BY <2>3, <2>4
<1> HIDE DEF b
<1>8. b \in Seq(Pos) /\ Len(b) = j - i
  <2>1. j - i \in Nat
    BY <1>3, <1>5
  <2> QED
    BY <1>6, <2>1, FunctionIsSeq
<1>9. tmp' = held \o b
  BY <1>1 DEF b
<1>10. held \in Seq(Pos) /\ Len(held) = 2 * W
  BY <1>2 DEF CType
<1>a. PICK t : t = tmp'
  OBVIOUS
<1>11. /\ t \in Seq(Pos) /\ Len(t) = 2 * W + (j - i)
       /\ \A s \in 1 .. Len(t) : t[s] = IF s <= 2 * W THEN held[s] ELSE b[s - 2 * W]
  <2>1. /\ held \o b \in Seq(Pos) /\ Len(held \o b) = Len(held) + Len(b)
        /\ \A s \in 1 .. Len(held) + Len(b) :
              (held \o b)[s] = IF s <= Len(held) THEN held[s] ELSE b[s - Len(held)]
    BY <1>8, <1>10, ConcatProperties
  <2> QED
    BY <1>a, <1>8, <1>9, <1>10, <2>1
<1>12. {t[s] : s \in 1 .. Len(t)} = {held[s] : s \in 1 .. 2 * W} \cup {b[s] : s \in 1 .. j - i}
  <2>1. ASSUME NEW s \in 1 .. Len(t)
        PROVE  t[s] \in {held[z] : z \in 1 .. 2 * W} \cup {b[z] : z \in 1 .. j - i}
    <3>1. CASE s <= 2 * W
      <4>1. s \in 1 .. 2 * W
        BY <1>3, <1>11, <3>1
      <4> QED
        BY <1>11, <3>1, <4>1
    <3>2. CASE ~(s <= 2 * W)
      <4>1. s - 2 * W \in 1 .. j - i
        BY <1>3, <1>11, <3>2
      <4> QED
        BY <1>11, <3>2, <4>1
    <3> QED
      BY <3>1, <3>2
  <2>2. ASSUME NEW s \in 1 .. 2 * W PROVE held[s] \in {t[z] : z \in 1 .. Len(t)}
    <3>1. s \in 1 .. Len(t) /\ s <= 2 * W
      BY <1>3, <1>5, <1>11
    <3>2. t[s] = held[s]
      BY <1>11, <3>1
    <3> QED
      BY <3>1, <3>2
  <2>3. ASSUME NEW s \in 1 .. j - i PROVE b[s] \in {t[z] : z \in 1 .. Len(t)}
    <3>1. /\ s + 2 * W \in 1 .. Len(t) /\ ~(s + 2 * W <= 2 * W)
          /\ (s + 2 * W) - 2 * W = s
      BY <1>3, <1>5, <1>11
    <3>2. t[s + 2 * W] = b[s]
      BY <1>11, <3>1
    <3> QED
      BY <3>1, <3>2
  <2>4. {t[s] : s \in 1 .. Len(t)}
          \subseteq {held[s] : s \in 1 .. 2 * W} \cup {b[s] : s \in 1 .. j - i}
    BY <2>1
  <2>5. {held[s] : s \in 1 .. 2 * W} \cup {b[s] : s \in 1 .. j - i}
          \subseteq {t[s] : s \in 1 .. Len(t)}
    BY <2>2, <2>3
  <2> QED
    BY <2>4, <2>5
<1>13. ({v[p] : p \in CKept} \cup CHeld = 0 .. n - 1)'
  <2>1. CHeld' = {t[s] : s \in 1 .. Len(t)}
    BY <1>a, <1>1 DEF CHeld, D!Outside
  <2>2. CHeld = {held[s] : s \in 1 .. 2 * W}
    BY <1>1, <1>10 DEF CHeld, D!Outside
  <2>3. CKept = 0 .. sl - 1 \cup sr .. n - 1 \cup i .. j - 1
    BY <1>1 DEF CKept, D!Unread
  <2>4. CKept' = 0 .. sl - 1 \cup sr .. n - 1
    BY <1>1, <1>4 DEF CKept, D!Unread
  <2> DEFINE side == 0 .. sl - 1 \cup sr .. n - 1
  <2>5. {v[p] : p \in side \cup i .. j - 1} = {v[p] : p \in side} \cup {v[p] : p \in i .. j - 1}
    OBVIOUS
  <2> HIDE DEF side
  <2>6. {v[p] : p \in side} \cup ({held[s] : s \in 1 .. 2 * W} \cup {v[p] : p \in i .. j - 1})
           = 0 .. n - 1
    BY <1>2, <2>2, <2>3, <2>5 DEF side
  <2>7. {v[p] : p \in CKept'} \cup CHeld' = 0 .. n - 1
    BY <1>7, <1>12, <2>1, <2>4, <2>6 DEF side
  <2> QED
    BY <1>1, <1>4, <2>7
<1>14. CType'
  <2>1. t \in Seq(Pos)
    BY <1>11
  <2> QED
    BY <1>a, <1>1, <1>2, <1>4, <2>1 DEF CType
<1>15. Len(tmp') = sr' - sl'
  <2>1. Len(t) = sr - sl
    <3>1. Len(t) = 2 * W + (j - i)
      BY <1>11
    <3> QED
      BY <1>3, <1>5, <3>1
  <2> QED
    BY <1>a, <1>1, <2>1
<1>16. CPlaced'
  BY <1>1, <1>2, <1>4 DEF CPlaced
<1> QED
  BY <1>1, <1>13, <1>14, <1>15, <1>16 DEF CIInv

\* What one step of the last loop does: the first of the elements held goes to the
\* cell at d, which is next to the cells placed.
CPuts(d, u, t) ==
    /\ u = [v EXCEPT ![d] = Head(tmp)]
    /\ t = Tail(tmp)
    /\ \/ Head(tmp) \in below /\ d = sl /\ sl' = sl + 1 /\ sr' = sr
       \/ Head(tmp) \notin below /\ d = sr - 1 /\ sl' = sl /\ sr' = sr - 1

LEMMA CPlaceTail == ASSUME CIInv, D!PlaceTail PROVE CIInv'
<1>1. /\ pc = "tail" /\ tmp # <<>> /\ pc' = "tail" /\ UNCHANGED D!args
      /\ i' = i /\ j' = j
  BY DEF D!PlaceTail
<1>2. /\ CType /\ Len(tmp) = sr - sl /\ CPlaced
      /\ {v[p] : p \in CKept} \cup CHeld = 0 .. n - 1
  BY <1>1 DEF CIInv
<1>3. /\ N \in Nat /\ W \in Nat /\ W > 0 /\ n \in Nat /\ n <= N
      /\ sl \in Nat /\ sr \in Nat /\ i \in Int /\ j \in Int /\ sl <= sr /\ sr <= n
  BY <1>2, CNumbers
<1>4. n' = n /\ below' = below /\ held' = held
  BY <1>1 DEF D!args
<1>5. v \in [Pos -> Pos] /\ tmp \in Seq(Pos)
  BY <1>2 DEF CType
<1>a. PICK u, t : u = v' /\ t = tmp'
  OBVIOUS
<1>b. PICK d : CPuts(d, u, t)
  <2>1. CASE Head(tmp) \in below
    <3>1. CPuts(sl, u, t)
      BY <1>a, <2>1 DEF D!PlaceTail, CPuts
    <3> QED
      BY <3>1
  <2>2. CASE Head(tmp) \notin below
    <3>1. CPuts(sr - 1, u, t)
      BY <1>a, <2>2 DEF D!PlaceTail, CPuts
    <3> QED
      BY <3>1
  <2> QED
    BY <2>1, <2>2
<1>6. /\ t \in Seq(Pos) /\ Len(t) = Len(tmp) - 1 /\ Head(tmp) = tmp[1]
      /\ \A s \in 1 .. Len(t) : t[s] = tmp[s + 1]
      /\ tmp[1] \in Pos
  <2>1. t = Tail(tmp)
    BY <1>b DEF CPuts
  <2>2. Len(tmp) \in Nat /\ Len(tmp) # 0
    BY <1>1, <1>5, EmptySeq, LenProperties
  <2> QED
    BY <1>1, <1>5, <2>1, <2>2, HeadTailProperties, LenProperties
<1>7. sl < sr /\ Len(tmp) \in Nat
  <2>1. Len(tmp) \in Nat /\ Len(tmp) # 0
    BY <1>1, <1>5, EmptySeq, LenProperties
  <2> QED
    BY <1>2, <1>3, <2>1
<1>8. d \in sl .. sr - 1 /\ d \in Pos
  <2>1. d \in sl .. sr - 1
    BY <1>b, <1>3, <1>7 DEF CPuts
  <2> QED
    BY <1>3, <2>1 DEF Pos
<1>9. u \in [Pos -> Pos] /\ u[d] = tmp[1] /\ \A p \in Pos : p # d => u[p] = v[p]
  <2>1. u = [v EXCEPT ![d] = tmp[1]]
    BY <1>b, <1>6 DEF CPuts
  <2> QED
    BY <1>5, <1>6, <1>8, <2>1
<1> DEFINE side == 0 .. sl - 1 \cup sr .. n - 1
<1>10. side \subseteq Pos /\ d \notin side
  BY <1>3, <1>8 DEF Pos
<1>11. \A p \in side : u[p] = v[p]
  BY <1>9, <1>10
<1>12. /\ sl' \in Nat /\ sr' \in Nat /\ sl' <= sr' /\ sr' <= n
       /\ Len(t) = sr' - sl'
       /\ 0 .. sl' - 1 \cup sr' .. n - 1 = side \cup {d}
  <2>1. CASE d = sl /\ sl' = sl + 1 /\ sr' = sr
    <3>1. 0 .. (sl + 1) - 1 = 0 .. sl - 1 \cup {sl}
      BY <1>3
    <3> QED
      BY <1>2, <1>3, <1>6, <1>7, <2>1, <3>1
  <2>2. CASE d = sr - 1 /\ sl' = sl /\ sr' = sr - 1
    <3>1. sr - 1 .. n - 1 = sr .. n - 1 \cup {sr - 1}
      BY <1>3, <1>7
    <3> QED
      BY <1>2, <1>3, <1>6, <1>7, <2>2, <3>1
  <2> QED
    BY <1>b, <2>1, <2>2 DEF CPuts
<1>13. AllIn(u, below, 0, sl') /\ NoneIn(u, below, sr', n)
  <2>1. (\A p \in 0 .. sl - 1 : v[p] \in below) /\ (\A p \in sr .. n - 1 : v[p] \notin below)
    BY <1>2 DEF CPlaced, AllIn, NoneIn
  <2>2. (\A p \in 0 .. sl - 1 : u[p] \in below) /\ (\A p \in sr .. n - 1 : u[p] \notin below)
    BY <1>11, <2>1
  <2>3. CASE tmp[1] \in below /\ d = sl /\ sl' = sl + 1 /\ sr' = sr
    <3>1. 0 .. sl' - 1 = 0 .. sl - 1 \cup {sl}
      BY <1>3, <2>3
    <3> QED
      BY <1>9, <2>2, <2>3, <3>1 DEF AllIn, NoneIn
  <2>4. CASE tmp[1] \notin below /\ d = sr - 1 /\ sl' = sl /\ sr' = sr - 1
    <3>1. sr' .. n - 1 = sr .. n - 1 \cup {sr - 1}
      BY <1>3, <1>7, <2>4
    <3> QED
      BY <1>9, <2>2, <2>4, <3>1 DEF AllIn, NoneIn
  <2> QED
    BY <1>b, <1>6, <2>3, <2>4 DEF CPuts
<1>14. CPlaced'
  <2>1. \A p \in Pos : p >= n => u[p] = p
    <3>1. \A p \in Pos : p >= n => p # d
      BY <1>3, <1>8 DEF Pos
    <3>2. \A p \in Pos : p >= n => v[p] = p
      BY <1>2 DEF CPlaced
    <3> QED
      BY <1>9, <3>1, <3>2
  <2> QED
    BY <1>a, <1>4, <1>13, <2>1 DEF CPlaced
<1>15. {tmp[s] : s \in 1 .. Len(tmp)} = {tmp[1]} \cup {t[s] : s \in 1 .. Len(t)}
  <2>1. ASSUME NEW s \in 1 .. Len(tmp) PROVE tmp[s] \in {tmp[1]} \cup {t[z] : z \in 1 .. Len(t)}
    <3>1. CASE s = 1
      BY <3>1
    <3>2. CASE s # 1
      <4>1. s - 1 \in 1 .. Len(t) /\ (s - 1) + 1 = s
        BY <1>6, <1>7, <3>2
      <4>2. t[s - 1] = tmp[s]
        BY <1>6, <4>1
      <4> QED
        BY <4>1, <4>2
    <3> QED
      BY <3>1, <3>2
  <2>2. ASSUME NEW s \in 1 .. Len(t) PROVE t[s] \in {tmp[z] : z \in 1 .. Len(tmp)}
    <3>1. s + 1 \in 1 .. Len(tmp)
      BY <1>6, <1>7
    <3>2. t[s] = tmp[s + 1]
      BY <1>6
    <3> QED
      BY <3>1, <3>2
  <2>3. 1 \in 1 .. Len(tmp)
    BY <1>2, <1>3, <1>7
  <2>4. {tmp[s] : s \in 1 .. Len(tmp)} \subseteq {tmp[1]} \cup {t[s] : s \in 1 .. Len(t)}
    BY <2>1
  <2>5. {tmp[1]} \cup {t[s] : s \in 1 .. Len(t)} \subseteq {tmp[s] : s \in 1 .. Len(tmp)}
    BY <2>2, <2>3
  <2> QED
    BY <2>4, <2>5
<1>16. ({v[p] : p \in CKept} \cup CHeld = 0 .. n - 1)'
  <2>1. CHeld = {tmp[s] : s \in 1 .. Len(tmp)}
    BY <1>1 DEF CHeld, D!Outside
  <2>2. CHeld' = {t[s] : s \in 1 .. Len(t)}
    BY <1>1, <1>a DEF CHeld, D!Outside
  <2>3. CKept = side
    BY <1>1 DEF CKept, D!Unread
  <2>4. CKept' = side \cup {d}
    BY <1>1, <1>4, <1>12 DEF CKept, D!Unread
  <2> HIDE DEF side
  <2>5. {u[p] : p \in side \cup {d}} = {v[p] : p \in side} \cup {tmp[1]}
    BY <1>9, <1>11
  <2>6. {v[p] : p \in side} \cup ({tmp[1]} \cup {t[s] : s \in 1 .. Len(t)}) = 0 .. n - 1
    BY <1>2, <1>15, <2>1, <2>3
  <2>7. {u[p] : p \in CKept'} \cup CHeld' = 0 .. n - 1
    BY <2>2, <2>4, <2>5, <2>6
  <2> QED
    BY <1>a, <1>4, <2>7
<1>17. CType'
  <2>1. /\ v' \in [Pos -> Pos] /\ tmp' \in Seq(Pos) /\ pc' \in {"loop", "tail", "done"}
        /\ i' \in Int /\ j' \in Int
    BY <1>a, <1>1, <1>3, <1>6, <1>9
  <2>2. /\ below' \in SUBSET Pos /\ n' \in 2 * W .. N
        /\ held' \in Seq(Pos) /\ Len(held') = 2 * W
    BY <1>2, <1>4 DEF CType
  <2>3. sl' \in Nat /\ sr' \in Nat /\ sl' <= sr' /\ sr' <= n'
    BY <1>4, <1>12
  <2> QED
    BY <2>1, <2>2, <2>3 DEF CType
<1>18. Len(tmp') = sr' - sl'
  BY <1>a, <1>12
<1> QED
  BY <1>1, <1>14, <1>16, <1>17, <1>18 DEF CIInv

LEMMA CReturn == ASSUME CIInv, D!Return PROVE CIInv'
<1>1. /\ pc = "tail" /\ tmp = <<>> /\ pc' = "done" /\ UNCHANGED D!args
      /\ v' = v /\ i' = i /\ j' = j /\ sl' = sl /\ sr' = sr /\ tmp' = tmp
  BY DEF D!Return
<1>2. n' = n /\ below' = below /\ held' = held
  BY <1>1 DEF D!args
<1>3. CKept' = CKept /\ CHeld' = CHeld
  BY <1>1, <1>2 DEF CKept, CHeld, D!Unread, D!Outside
<1>4. CType'
  BY <1>1, <1>2 DEF CIInv, CType
<1>5. CPlaced'
  BY <1>1, <1>2 DEF CIInv, CPlaced
<1> QED
  BY <1>1, <1>2, <1>3, <1>4, <1>5 DEF CIInv

LEMMA CQuiet == ASSUME CIInv, UNCHANGED D!vars PROVE CIInv'
<1>1. UNCHANGED <<v, below, n, held, i, j, sl, sr, tmp, pc>>
  BY DEF D!vars
<1>2. CKept' = CKept /\ CHeld' = CHeld
  BY <1>1 DEF CKept, CHeld, D!Unread, D!Outside
<1>3. CType' /\ CPlaced'
  BY <1>1 DEF CIInv, CType, CPlaced
<1>4. (pc = "loop" => CRoom)'
  BY <1>1 DEF CIInv, CRoom
<1> QED
  BY <1>1, <1>2, <1>3, <1>4 DEF CIInv

LEMMA CNext == CIInv /\ [D!Next]_D!vars => CIInv'
BY CLoadLeft, CLoadRight, CCopyTail, CPlaceTail, CReturn, CQuiet DEF D!Next

\* The parts of the invariant that the runs check.
LEMMA CImplies == CIInv => D!CompressInvariant
<1> SUFFICES ASSUME CIInv PROVE D!CompressInvariant
  OBVIOUS
<1>1. /\ CType /\ CPlaced /\ (pc = "loop" => CRoom)
      /\ (pc # "loop" => Len(tmp) = sr - sl)
      /\ {v[p] : p \in CKept} \cup CHeld = 0 .. n - 1
  BY DEF CIInv
<1>2. /\ W \in Nat /\ W > 0 /\ n \in Nat
      /\ sl \in Nat /\ sr \in Nat /\ i \in Int /\ j \in Int /\ sl <= sr /\ sr <= n
  BY <1>1, CNumbers
<1>3. sl + (n - sr) + D!Cardinality(D!Unread) + Len(D!Outside) = n
  <2>1. CASE pc = "loop"
    <3>1. i <= j /\ (i - sl) + (sr - j) = 2 * W
      BY <1>1, <2>1 DEF CRoom
    <3>2. Cardinality(i .. j - 1) = j - i
      <4>1. i \in Int /\ j - 1 \in Int
        BY <1>2
      <4>2. Cardinality(i .. j - 1) = IF i > j - 1 THEN 0 ELSE (j - 1) - i + 1
        BY <4>1, FS_Interval
      <4> QED
        BY <1>2, <3>1, <4>2
    <3>3. D!Cardinality(D!Unread) = j - i
      BY <2>1, <3>2, SameCardinality DEF D!Unread
    <3>4. Len(D!Outside) = 2 * W
      BY <1>1, <2>1 DEF D!Outside, CType
    <3> QED
      BY <1>2, <3>1, <3>3, <3>4
  <2>2. CASE pc # "loop"
    <3>1. D!Cardinality(D!Unread) = 0
      BY <2>2, SameCardinality, FS_EmptySet DEF D!Unread
    <3>2. Len(D!Outside) = sr - sl
      BY <1>1, <2>2 DEF D!Outside
    <3> QED
      BY <1>2, <3>1, <3>2
  <2> QED
    BY <2>1, <2>2
<1>4. D!NothingClobbered
  BY <1>1, <1>3 DEF D!NothingClobbered, CKept, CHeld
<1>5. D!RoomForStore
  <2> SUFFICES ASSUME pc = "loop"
               PROVE  /\ (i - sl) + (sr - j) = 2 * W
                      /\ i - sl >= 0 /\ sr - j >= 0
                      /\ IF i - sl <= sr - j THEN sr - j >= W ELSE i - sl >= W
    BY DEF D!RoomForStore, D!MoreRoomLeft
  <2>1. (i - sl) + (sr - j) = 2 * W /\ i - sl >= 0 /\ sr - j >= 0
    BY <1>1 DEF CRoom
  <2> QED
    BY <1>2, <2>1
<1>6. D!Sandwich
  BY <1>1, <1>2 DEF D!Sandwich, CPlaced, AllIn, NoneIn, D!AllIn, D!NoneIn
<1> QED
  BY <1>4, <1>5, <1>6 DEF D!CompressInvariant

\* What the caller gets.
CPromise ==
    IsArrangement(v) /\ Partitioned(v, below, 0, sl, n) /\ \A p \in Pos : p >= n => v[p] = p

LEMMA CReturned == CIInv /\ pc = "done" => CPromise
<1> SUFFICES ASSUME CIInv, pc = "done" PROVE CPromise
  OBVIOUS
<1>1. /\ CType /\ CPlaced /\ tmp = <<>> /\ Len(tmp) = sr - sl
      /\ {v[p] : p \in CKept} \cup CHeld = 0 .. n - 1
  BY DEF CIInv
<1>2. n \in 0 .. N /\ sl \in Nat /\ sr \in Nat /\ sr <= n
  BY <1>1, CNumbers
<1>3. sr = sl
  <2>1. Len(<<>>) = 0
    BY EmptySeq
  <2> QED
    BY <1>1, <1>2, <2>1
<1>4. {v[p] : p \in 0 .. n - 1} = 0 .. n - 1
  <2>1. CKept = 0 .. n - 1
    BY <1>2, <1>3 DEF CKept, D!Unread
  <2>2. CHeld = {}
    BY <1>1, <1>2, <1>3 DEF CHeld, D!Outside
  <2> QED
    BY <1>1, <2>1, <2>2
<1>5. v \in [Pos -> Pos] /\ \A p \in Pos : p >= n => v[p] = p
  BY <1>1 DEF CType, CPlaced
<1>6. IsArrangement(v)
  BY <1>2, <1>4, <1>5, OntoRange
<1>7. Partitioned(v, below, 0, sl, n)
  BY <1>1, <1>2, <1>3 DEF CPlaced, Partitioned
<1> QED
  BY <1>5, <1>6, <1>7 DEF CPromise

\* Until the call returns nothing its caller could see has changed.
LEMMA CRefineStep == CIInv /\ [D!Next]_D!vars => [D!Contract!Next]_D!Contract!vars
<1> SUFFICES ASSUME CIInv, [D!Next]_D!vars PROVE [D!Contract!Next]_D!Contract!vars
  OBVIOUS
<1>1. CIInv'
  BY CNext
<1>2. UNCHANGED <<below, n>> /\ (pc = "done" => UNCHANGED <<v, sl, pc>>)
  BY DEF D!Next, D!vars, D!args, D!LoadLeft, D!LoadRight, D!CopyTail, D!PlaceTail, D!Return
<1>3. CASE pc = "done"
  BY <1>2, <1>3 DEF D!Contract!vars
<1>4. CASE pc # "done" /\ pc' # "done"
  BY <1>2, <1>4 DEF D!Contract!vars, D!Pos
<1>5. CASE pc # "done" /\ pc' = "done"
  <2>b. PICK u : u = v'
    OBVIOUS
  <2>1. CPromise'
    <3>1. (CIInv /\ pc = "done" => CPromise)'
      BY CReturned, PTL
    <3> QED
      BY <1>1, <1>5, <3>1
  <2>2. IsArrangement(u) /\ Partitioned(u, below, 0, sl', n) /\ \A p \in Pos : p >= n => u[p] = p
    BY <1>2, <2>b, <2>1 DEF CPromise, IsArrangement, Partitioned, AllIn, NoneIn
  <2>3. D!Contract!IsArrangement(u)
    BY <2>2 DEF IsArrangement, Pos, D!Contract!IsArrangement, D!Contract!Pos
  <2>4. D!Contract!SameOutside([p \in D!Pos |-> p], u, 0, n)
    <3>1. n \in Nat /\ N \in Nat
      BY CNumbers DEF CIInv
    <3> QED
      BY <2>2, <3>1 DEF D!Contract!SameOutside, D!Contract!Pos, D!Pos, Pos
  <2>5. D!Contract!Partitioned(u, below, 0, sl', n)
    BY <2>2 DEF Partitioned, AllIn, NoneIn, D!Contract!Partitioned, D!Contract!AllIn,
       D!Contract!NoneIn
  <2> QED
    BY <1>2, <1>5, <2>b, <2>3, <2>4, <2>5 DEF D!Contract!Next, D!Contract!Return,
       D!Contract!Rearranges
<1> QED
  BY <1>3, <1>4, <1>5
-----------------------------------------------------------------------------
(***************************************************************************)
(* block.                                                                  *)
(***************************************************************************)
\* The buffer of one side, from the next pair on, lists each misplaced element of
\* the first x cells of its block once.
LeftHolds(x) ==
    /\ \A s \in L!Exch .. numL - 1 : L!CellL(s) \in l .. l + x - 1 /\ v[L!CellL(s)] \notin below
    /\ \A p \in l .. l + x - 1 :
          v[p] \notin below => \E s \in L!Exch .. numL - 1 : L!CellL(s) = p
    /\ \A s, t \in L!Exch .. numL - 1 : s # t => L!CellL(s) # L!CellL(t)

RightHolds(x) ==
    /\ \A s \in L!Exch .. numR - 1 : L!CellR(s) \in r - x .. r - 1 /\ v[L!CellR(s)] \in below
    /\ \A p \in r - x .. r - 1 :
          v[p] \in below => \E s \in L!Exch .. numR - 1 : L!CellR(s) = p
    /\ \A s, t \in L!Exch .. numR - 1 : s # t => L!CellR(s) # L!CellR(t)

\* While a buffer is filled it speaks of the cells seen so far, and when it is
\* carried over to the next round of its whole block.
BuffersHold ==
    /\ pc = "fillL" => LeftHolds(k)
    /\ pc \in {"right", "fillR", "swap"} \/ (pc = "loop" /\ numL > 0) => LeftHolds(B)
    /\ pc = "fillR" => RightHolds(k)
    /\ pc = "swap" \/ (pc \in {"loop", "fillL", "right"} /\ numR > 0) => RightHolds(B)

Window ==
    /\ pc \notin {"loop", "done"} => r - l > 2 * B
    /\ pc \in {"loop", "done"} => (numL = 0 \/ numR = 0) /\ (numL + numR > 0 => r - l >= B)
    /\ pc = "fillL" => startL = 0 /\ numL <= k
    /\ pc = "fillR" => startR = 0 /\ numR <= k
    /\ pc = "swap" => k <= numL /\ k <= numR

BIInv == L!TypeOK /\ IsArrangement(v) /\ L!Settled /\ Window /\ BuffersHold

LEMMA BNumbers ==
    ASSUME L!TypeOK
    PROVE  /\ N \in Nat /\ B \in Nat /\ B > 0
           /\ first \in Nat /\ last \in Nat /\ last <= N
           /\ l \in Nat /\ r \in Nat /\ first <= l /\ l <= r /\ r <= last
           /\ numL \in Nat /\ numR \in Nat /\ startL \in Nat /\ startR \in Nat
           /\ startL + numL <= B /\ startR + numR <= B
           /\ k \in Nat /\ k <= B
BY NAssumption, KernelParameters DEF L!TypeOK, L!BAssumption

\* What a buffer entry is.
LEMMA BOffsets ==
    ASSUME L!TypeOK
    PROVE  /\ \A s \in 0 .. numL - 1 : L!CellL(s) = l + offL[startL + s]
                                       /\ offL[startL + s] \in 0 .. B - 1
           /\ \A s \in 0 .. numR - 1 : L!CellR(s) = r - offR[startR + s]
                                       /\ offR[startR + s] \in 0 .. B
<1>1. \A s \in 0 .. numL - 1 : startL + s \in 0 .. B - 1
  BY BNumbers
<1>2. \A s \in 0 .. numR - 1 : startR + s \in 0 .. B - 1
  BY BNumbers
<1> QED
  BY <1>1, <1>2 DEF L!TypeOK, L!CellL, L!CellR

LEMMA BInit == ASSUME L!Init PROVE BIInv
<1>1. N \in Nat /\ B \in Nat /\ B > 0
  BY NAssumption, KernelParameters DEF L!BAssumption
<1>2. L!TypeOK
  <2>1. offL \in [0 .. B - 1 -> 0 .. B - 1]
    <3>1. 0 \in 0 .. B - 1
      BY <1>1
    <3> QED
      BY <3>1 DEF L!Init
  <2>2. offR \in [0 .. B - 1 -> 0 .. B]
    <3>1. 0 \in 0 .. B
      BY <1>1
    <3> QED
      BY <3>1 DEF L!Init
  <2>3. v \in [L!Pos -> L!Pos]
    BY DEF L!Init
  <2>4. /\ below \in SUBSET L!Pos /\ first \in 0 .. N /\ last \in first .. N
        /\ l = first /\ r = last /\ numL = 0 /\ startL = 0 /\ numR = 0 /\ startR = 0
        /\ k = 0 /\ ret = first /\ pc = "loop"
    BY DEF L!Init
  <2>5. /\ l \in first .. last /\ r \in l .. last /\ ret \in first .. last /\ k \in 0 .. B
        /\ numL \in 0 .. B /\ startL \in 0 .. B - numL
        /\ numR \in 0 .. B /\ startR \in 0 .. B - numR
    BY <1>1, <2>4
  <2> QED
    BY <2>1, <2>2, <2>3, <2>4, <2>5 DEF L!TypeOK
<1>3. IsArrangement(v)
  BY DEF L!Init, L!Pos, Pos, IsArrangement
<1>4. first \in Int /\ last \in Int /\ l = first /\ r = last
  BY <1>1 DEF L!Init
<1>5. L!Settled
  BY <1>4 DEF L!Settled, L!AllIn, L!NoneIn
<1>6. Window
  BY <1>4 DEF Window, L!Init
<1>7. BuffersHold
  BY DEF BuffersHold, L!Init
<1> QED
  BY <1>2, <1>3, <1>5, <1>6, <1>7 DEF BIInv

\* The window only moves inside the range, and what it leaves is settled.
LEMMA BSame ==
    ASSUME L!Exch' = L!Exch, UNCHANGED <<v, below, l, offL, numL, startL>>, NEW x
    PROVE  LeftHolds(x) <=> LeftHolds(x)'
BY DEF LeftHolds, L!CellL

LEMMA BSameR ==
    ASSUME L!Exch' = L!Exch, UNCHANGED <<v, below, r, offR, numR, startR>>, NEW x
    PROVE  RightHolds(x) <=> RightHolds(x)'
BY DEF RightHolds, L!CellR

LEMMA BRefillLeft == ASSUME BIInv, L!RefillLeft PROVE BIInv'
<1>1. /\ pc = "loop" /\ r - l > 2 * B /\ numL = 0 /\ startL' = 0 /\ k' = 0 /\ pc' = "fillL"
      /\ UNCHANGED <<v, below, first, last, l, r, offL, numL, offR, numR, startR, ret>>
  BY DEF L!RefillLeft, L!Wide, L!args, L!right
<1>2. L!TypeOK /\ IsArrangement(v) /\ L!Settled /\ Window /\ BuffersHold
  BY DEF BIInv
<1>3. L!TypeOK'
  <2>1. 0 \in 0 .. B /\ 0 \in 0 .. B - 0
    BY <1>2, BNumbers
  <2> QED
    BY <1>1, <1>2, <2>1 DEF L!TypeOK
<1>4. IsArrangement(v)' /\ L!Settled'
  BY <1>1, <1>2 DEF IsArrangement, L!Settled, L!AllIn, L!NoneIn
<1>5. Window'
  BY <1>1 DEF Window
<1>6. BuffersHold'
  <2>1. LeftHolds(k)'
    <3>1. l \in Int /\ l' = l /\ k' = 0 /\ numL' = 0 /\ L!Exch' = 0
      BY <1>1, <1>2, BNumbers DEF L!Exch
    <3> QED
      BY <3>1 DEF LeftHolds
  <2>2. numR' > 0 => RightHolds(B)'
    <3>1. L!Exch' = L!Exch
      BY <1>1 DEF L!Exch
    <3> QED
      BY <1>1, <1>2, <3>1, BSameR DEF BuffersHold
  <2> QED
    BY <1>1, <2>1, <2>2 DEF BuffersHold
<1> QED
  BY <1>3, <1>4, <1>5, <1>6 DEF BIInv

LEMMA BLeftReady == ASSUME BIInv, L!LeftReady PROVE BIInv'
<1>1. /\ \/ pc = "loop" /\ r - l > 2 * B /\ numL > 0
         \/ pc = "fillL" /\ k = B
      /\ pc' = "right"
      /\ UNCHANGED <<v, below, first, last, l, r, offL, numL, startL, offR, numR, startR, k, ret>>
  BY DEF L!LeftReady, L!Wide, L!args, L!right, L!left
<1>2. L!TypeOK /\ IsArrangement(v) /\ L!Settled /\ Window /\ BuffersHold
  BY DEF BIInv
<1>3. L!TypeOK'
  BY <1>1, <1>2 DEF L!TypeOK
<1>4. IsArrangement(v)' /\ L!Settled'
  BY <1>1, <1>2 DEF IsArrangement, L!Settled, L!AllIn, L!NoneIn
<1>5. Window'
  BY <1>1, <1>2 DEF Window
<1>6. BuffersHold'
  <2>1. L!Exch' = L!Exch
    BY <1>1 DEF L!Exch
  <2>2. LeftHolds(B)'
    BY <1>1, <1>2, <2>1, BSame DEF BuffersHold
  <2>3. numR' > 0 => RightHolds(B)'
    BY <1>1, <1>2, <2>1, BSameR DEF BuffersHold
  <2> QED
    BY <1>1, <2>2, <2>3 DEF BuffersHold
<1> QED
  BY <1>3, <1>4, <1>5, <1>6 DEF BIInv

LEMMA BRefillRight == ASSUME BIInv, L!RefillRight PROVE BIInv'
<1>1. /\ pc = "right" /\ numR = 0 /\ startR' = 0 /\ k' = 0 /\ pc' = "fillR"
      /\ UNCHANGED <<v, below, first, last, l, r, offL, numL, startL, offR, numR, ret>>
  BY DEF L!RefillRight, L!args, L!left
<1>2. L!TypeOK /\ IsArrangement(v) /\ L!Settled /\ Window /\ BuffersHold
  BY DEF BIInv
<1>3. L!TypeOK'
  BY <1>1, <1>2, BNumbers DEF L!TypeOK
<1>4. IsArrangement(v)' /\ L!Settled'
  BY <1>1, <1>2 DEF IsArrangement, L!Settled, L!AllIn, L!NoneIn
<1>5. Window'
  BY <1>1, <1>2 DEF Window
<1>6. BuffersHold'
  <2>1. RightHolds(k)'
    <3>1. r \in Int /\ r' = r /\ k' = 0 /\ numR' = 0 /\ L!Exch' = 0
      BY <1>1, <1>2, BNumbers DEF L!Exch
    <3> QED
      BY <3>1 DEF RightHolds
  <2>2. LeftHolds(B)'
    <3>1. L!Exch' = L!Exch
      BY <1>1 DEF L!Exch
    <3> QED
      BY <1>1, <1>2, <3>1, BSame DEF BuffersHold
  <2> QED
    BY <1>1, <2>1, <2>2 DEF BuffersHold
<1> QED
  BY <1>3, <1>4, <1>5, <1>6 DEF BIInv

LEMMA BRightReady == ASSUME BIInv, L!RightReady PROVE BIInv'
<1>1. /\ \/ pc = "right" /\ numR > 0
         \/ pc = "fillR" /\ k = B
      /\ pc' = "swap" /\ k' = 0
      /\ UNCHANGED <<v, below, first, last, l, r, offL, numL, startL, offR, numR, startR, ret>>
  BY DEF L!RightReady, L!args, L!right, L!left
<1>2. L!TypeOK /\ IsArrangement(v) /\ L!Settled /\ Window /\ BuffersHold
  BY DEF BIInv
<1>3. L!TypeOK'
  BY <1>1, <1>2, BNumbers DEF L!TypeOK
<1>4. IsArrangement(v)' /\ L!Settled'
  BY <1>1, <1>2 DEF IsArrangement, L!Settled, L!AllIn, L!NoneIn
<1>5. Window'
  BY <1>1, <1>2, BNumbers DEF Window
<1>6. BuffersHold'
  <2>1. L!Exch' = L!Exch
    BY <1>1 DEF L!Exch
  <2>2. LeftHolds(B)'
    BY <1>1, <1>2, <2>1, BSame DEF BuffersHold
  <2>3. RightHolds(B)'
    BY <1>1, <1>2, <2>1, BSameR DEF BuffersHold
  <2> QED
    BY <1>1, <2>2, <2>3 DEF BuffersHold
<1> QED
  BY <1>3, <1>4, <1>5, <1>6 DEF BIInv

LEMMA BFillLeft == ASSUME BIInv, L!FillLeft PROVE BIInv'
<1>1. /\ pc = "fillL" /\ k < B /\ pc' = "fillL" /\ k' = k + 1
      /\ numL' = (IF v[l + k] \in below THEN numL ELSE numL + 1)
      /\ UNCHANGED <<v, below, first, last, l, r, startL, offR, numR, startR, ret>>
  BY DEF L!FillLeft, L!args, L!right
<1>2. L!TypeOK /\ IsArrangement(v) /\ L!Settled /\ Window /\ BuffersHold
  BY DEF BIInv
<1>3. /\ B \in Nat /\ l \in Nat /\ k \in Nat /\ numL \in Nat /\ numL <= k
      /\ startL = 0 /\ startL' = 0
  BY <1>1, <1>2, BNumbers DEF Window
<1>a. PICK o : o = offL'
  OBVIOUS
<1>4. /\ o \in [0 .. B - 1 -> 0 .. B - 1]
      /\ o[numL] = k
      /\ \A s \in 0 .. numL - 1 : o[s] = offL[s]
  <2>1. o = [offL EXCEPT ![numL] = k]
    BY <1>a DEF L!FillLeft
  <2>2. offL \in [0 .. B - 1 -> 0 .. B - 1]
    BY <1>2 DEF L!TypeOK
  <2>3. k \in 0 .. B - 1 /\ numL \in 0 .. B - 1 /\ \A s \in 0 .. numL - 1 : s \in 0 .. B - 1 /\ s # numL
    BY <1>1, <1>3
  <2> QED
    BY <2>1, <2>2, <2>3
<1>5. numL' \in 0 .. k + 1 /\ k + 1 \in 0 .. B /\ k + 1 <= B
  BY <1>1, <1>3
<1>6. L!TypeOK'
  <2>1. numL' \in 0 .. B /\ startL' \in 0 .. B - numL'
    <3>1. PICK z \in 0 .. k + 1 : z = numL'
      BY <1>5
    <3>2. z \in 0 .. B /\ 0 \in 0 .. B - z
      BY <1>3, <1>5
    <3> QED
      BY <1>3, <3>1, <3>2
  <2>2. offL' \in [0 .. B - 1 -> 0 .. B - 1]
    BY <1>4, <1>a
  <2> QED
    BY <1>1, <1>2, <1>5, <2>1, <2>2 DEF L!TypeOK
<1>7. IsArrangement(v)' /\ L!Settled'
  BY <1>1, <1>2 DEF IsArrangement, L!Settled, L!AllIn, L!NoneIn
<1>8. Window'
  <2>1. r - l > 2 * B /\ numL' <= k + 1
    BY <1>1, <1>2, <1>5 DEF Window
  <2> QED
    BY <1>1, <1>3, <2>1 DEF Window
<1>9. /\ \A s \in 0 .. numL - 1 : L!CellL(s) = l + o[s]
      /\ \A s \in Int : L!CellL(s)' = l + o[s]
      /\ L!Exch = 0 /\ L!Exch' = 0
  <2>1. \A s \in 0 .. numL - 1 : L!CellL(s) = l + offL[0 + s]
    BY <1>2, <1>3, BOffsets
  <2>2. \A s \in Int : L!CellL(s)' = l + o[0 + s]
    BY <1>1, <1>3, <1>a DEF L!CellL
  <2>3. \A s \in Int : 0 + s = s
    OBVIOUS
  <2>4. \A s \in 0 .. numL - 1 : s \in Int
    OBVIOUS
  <2> QED
    BY <1>1, <1>4, <2>1, <2>2, <2>3, <2>4 DEF L!Exch
<1> DEFINE at(s) == l + o[s]
<1>10. /\ \A s \in 0 .. numL - 1 : at(s) \in l .. l + k - 1 /\ v[at(s)] \notin below
       /\ \A p \in l .. l + k - 1 : v[p] \notin below => \E s \in 0 .. numL - 1 : at(s) = p
       /\ \A s, t \in 0 .. numL - 1 : s # t => at(s) # at(t)
  <2>1. LeftHolds(k)
    BY <1>1, <1>2 DEF BuffersHold
  <2> QED
    BY <1>9, <2>1 DEF LeftHolds
<1>11. at(numL) = l + k
  BY <1>4
<1> HIDE DEF at
<1>12. LeftHolds(k)'
  <2> SUFFICES /\ \A s \in 0 .. numL' - 1 : at(s) \in l .. l + (k + 1) - 1 /\ v[at(s)] \notin below
               /\ \A p \in l .. l + (k + 1) - 1 :
                     v[p] \notin below => \E s \in 0 .. numL' - 1 : at(s) = p
               /\ \A s, t \in 0 .. numL' - 1 : s # t => at(s) # at(t)
    BY <1>1, <1>9 DEF LeftHolds, at
  <2>1. l .. l + (k + 1) - 1 = l .. l + k - 1 \cup {l + k}
    BY <1>3
  <2>2. CASE v[l + k] \in below
    BY <1>1, <1>10, <2>1, <2>2
  <2>3. CASE v[l + k] \notin below
    <3>1. 0 .. numL' - 1 = 0 .. numL - 1 \cup {numL} /\ numL \notin 0 .. numL - 1
      BY <1>1, <1>3, <2>3
    <3>2. l + k \notin l .. l + k - 1
      BY <1>3
    <3> QED
      BY <1>10, <1>11, <2>1, <2>3, <3>1, <3>2
  <2> QED
    BY <2>2, <2>3
<1>13. numR' > 0 => RightHolds(B)'
  BY <1>1, <1>2, <1>9, BSameR DEF BuffersHold
<1> QED
  BY <1>1, <1>6, <1>7, <1>8, <1>12, <1>13 DEF BIInv, BuffersHold

LEMMA BFillRight == ASSUME BIInv, L!FillRight PROVE BIInv'
<1>1. /\ pc = "fillR" /\ k < B /\ pc' = "fillR" /\ k' = k + 1
      /\ numR' = (IF v[r - (k + 1)] \in below THEN numR + 1 ELSE numR)
      /\ UNCHANGED <<v, below, first, last, l, r, offL, numL, startL, startR, ret>>
  BY DEF L!FillRight, L!args, L!left
<1>2. L!TypeOK /\ IsArrangement(v) /\ L!Settled /\ Window /\ BuffersHold
  BY DEF BIInv
<1>3. /\ B \in Nat /\ r \in Nat /\ k \in Nat /\ numR \in Nat /\ numR <= k
      /\ startR = 0 /\ startR' = 0
  BY <1>1, <1>2, BNumbers DEF Window
<1>a. PICK o : o = offR'
  OBVIOUS
<1>4. /\ o \in [0 .. B - 1 -> 0 .. B]
      /\ o[numR] = k + 1
      /\ \A s \in 0 .. numR - 1 : o[s] = offR[s]
  <2>1. o = [offR EXCEPT ![numR] = k + 1]
    BY <1>a DEF L!FillRight
  <2>2. offR \in [0 .. B - 1 -> 0 .. B]
    BY <1>2 DEF L!TypeOK
  <2>3. k + 1 \in 0 .. B /\ numR \in 0 .. B - 1 /\ \A s \in 0 .. numR - 1 : s \in 0 .. B - 1 /\ s # numR
    BY <1>1, <1>3
  <2> QED
    BY <2>1, <2>2, <2>3
<1>5. numR' \in 0 .. k + 1 /\ k + 1 \in 0 .. B /\ k + 1 <= B
  BY <1>1, <1>3
<1>6. L!TypeOK'
  <2>1. numR' \in 0 .. B /\ startR' \in 0 .. B - numR'
    <3>1. PICK z \in 0 .. k + 1 : z = numR'
      BY <1>5
    <3>2. z \in 0 .. B /\ 0 \in 0 .. B - z
      BY <1>3, <1>5
    <3> QED
      BY <1>3, <3>1, <3>2
  <2>2. offR' \in [0 .. B - 1 -> 0 .. B]
    BY <1>4, <1>a
  <2> QED
    BY <1>1, <1>2, <1>5, <2>1, <2>2 DEF L!TypeOK
<1>7. IsArrangement(v)' /\ L!Settled'
  BY <1>1, <1>2 DEF IsArrangement, L!Settled, L!AllIn, L!NoneIn
<1>8. Window'
  <2>1. r - l > 2 * B /\ numR' <= k + 1
    BY <1>1, <1>2, <1>5 DEF Window
  <2> QED
    BY <1>1, <1>3, <2>1 DEF Window
<1>9. /\ \A s \in 0 .. numR - 1 : L!CellR(s) = r - o[s]
      /\ \A s \in Int : L!CellR(s)' = r - o[s]
      /\ L!Exch = 0 /\ L!Exch' = 0
  <2>1. \A s \in 0 .. numR - 1 : L!CellR(s) = r - offR[0 + s]
    BY <1>2, <1>3, BOffsets
  <2>2. \A s \in Int : L!CellR(s)' = r - o[0 + s]
    BY <1>1, <1>3, <1>a DEF L!CellR
  <2>3. \A s \in Int : 0 + s = s
    OBVIOUS
  <2>4. \A s \in 0 .. numR - 1 : s \in Int
    OBVIOUS
  <2> QED
    BY <1>1, <1>4, <2>1, <2>2, <2>3, <2>4 DEF L!Exch
<1> DEFINE at(s) == r - o[s]
<1>10. /\ \A s \in 0 .. numR - 1 : at(s) \in r - k .. r - 1 /\ v[at(s)] \in below
       /\ \A p \in r - k .. r - 1 : v[p] \in below => \E s \in 0 .. numR - 1 : at(s) = p
       /\ \A s, t \in 0 .. numR - 1 : s # t => at(s) # at(t)
  <2>1. RightHolds(k)
    BY <1>1, <1>2 DEF BuffersHold
  <2> QED
    BY <1>9, <2>1 DEF RightHolds
<1>11. at(numR) = r - (k + 1)
  BY <1>4
<1> HIDE DEF at
<1>12. RightHolds(k)'
  <2> SUFFICES /\ \A s \in 0 .. numR' - 1 : at(s) \in r - (k + 1) .. r - 1 /\ v[at(s)] \in below
               /\ \A p \in r - (k + 1) .. r - 1 :
                     v[p] \in below => \E s \in 0 .. numR' - 1 : at(s) = p
               /\ \A s, t \in 0 .. numR' - 1 : s # t => at(s) # at(t)
    BY <1>1, <1>9 DEF RightHolds, at
  <2>1. r - (k + 1) .. r - 1 = r - k .. r - 1 \cup {r - (k + 1)}
    BY <1>3
  <2>2. CASE v[r - (k + 1)] \notin below
    BY <1>1, <1>10, <2>1, <2>2
  <2>3. CASE v[r - (k + 1)] \in below
    <3>1. 0 .. numR' - 1 = 0 .. numR - 1 \cup {numR} /\ numR \notin 0 .. numR - 1
      BY <1>1, <1>3, <2>3
    <3>2. r - (k + 1) \notin r - k .. r - 1
      BY <1>3
    <3> QED
      BY <1>10, <1>11, <2>1, <2>3, <3>1, <3>2
  <2> QED
    BY <2>2, <2>3
<1>13. LeftHolds(B)'
  BY <1>1, <1>2, <1>9, BSame DEF BuffersHold
<1> QED
  BY <1>1, <1>6, <1>7, <1>8, <1>12, <1>13 DEF BIInv, BuffersHold

\* A pair is exchanged: one misplaced element fewer on each side.
LEMMA BSwapPair == ASSUME BIInv, L!SwapPair PROVE BIInv' /\ SameOutside(v, v', first, last)
<1>1. /\ pc = "swap" /\ k < L!Num /\ pc' = "swap" /\ k' = k + 1
      /\ v' = Swap(v, L!CellL(k), L!CellR(k))
      /\ UNCHANGED <<below, first, last, l, r, offL, numL, startL, offR, numR, startR, ret>>
  BY DEF L!SwapPair, L!args, L!left, L!right, L!Swap, Swap
<1>2. L!TypeOK /\ IsArrangement(v) /\ L!Settled /\ Window /\ BuffersHold
  BY DEF BIInv
<1>3. /\ N \in Nat /\ B \in Nat /\ B > 0 /\ first \in Nat /\ last \in Nat /\ last <= N
      /\ l \in Nat /\ r \in Nat /\ first <= l /\ l <= r /\ r <= last
      /\ numL \in Nat /\ numR \in Nat /\ numL <= B /\ numR <= B /\ k \in Nat /\ r - l > 2 * B
  BY <1>1, <1>2, BNumbers DEF Window
<1>4. k < numL /\ k < numR
  BY <1>1, <1>3 DEF L!Num
<1>5. L!Exch = k /\ L!Exch' = k + 1
  BY <1>1 DEF L!Exch
<1>6. LeftHolds(B) /\ RightHolds(B)
  BY <1>1, <1>2 DEF BuffersHold
<1> DEFINE a == L!CellL(k)
           b == L!CellR(k)
<1>7. /\ a \in l .. l + B - 1 /\ v[a] \notin below
      /\ b \in r - B .. r - 1 /\ v[b] \in below
  <2>1. k \in k .. numL - 1 /\ k \in k .. numR - 1
    BY <1>3, <1>4
  <2> QED
    BY <1>5, <1>6, <2>1 DEF LeftHolds, RightHolds
<1>8. /\ \A s \in Int : L!CellL(s)' = L!CellL(s) /\ L!CellR(s)' = L!CellR(s)
  BY <1>1 DEF L!CellL, L!CellR
<1> HIDE DEF a, b
<1>9. /\ \A p \in l .. l + B - 1 : p \in Pos /\ p # b
      /\ \A p \in r - B .. r - 1 : p \in Pos /\ p # a
      /\ \A p \in Pos : ~(l <= p /\ p < r) => p # a /\ p # b
  BY <1>3, <1>7 DEF Pos
<1>b. PICK u : u = v'
  OBVIOUS
<1>10. /\ IsArrangement(u) /\ u \in [Pos -> Pos] /\ u[a] = v[b] /\ u[b] = v[a]
       /\ \A p \in Pos : p # a /\ p # b => u[p] = v[p]
  <2>1. u = Swap(v, a, b)
    BY <1>1, <1>b DEF a, b
  <2>2. a \in Pos /\ b \in Pos
    BY <1>7, <1>9
  <2>3. IsArrangement(v)
    BY <1>2
  <2>4. v \in [Pos -> Pos]
    BY <2>3 DEF IsArrangement
  <2>5. IsArrangement(Swap(v, a, b))
    BY <2>2, <2>3, SwapArrangement
  <2>6. /\ Swap(v, a, b) \in [Pos -> Pos]
        /\ Swap(v, a, b)[a] = v[b]
        /\ Swap(v, a, b)[b] = v[a]
        /\ \A p \in Pos : p # a /\ p # b => Swap(v, a, b)[p] = v[p]
    BY <2>2, <2>4, SwapCells
  <2> QED
    BY <2>1, <2>5, <2>6
<1>11. LeftHolds(B)'
  <2> SUFFICES /\ \A s \in k + 1 .. numL - 1 :
                     L!CellL(s) \in l .. l + B - 1 /\ u[L!CellL(s)] \notin below
               /\ \A p \in l .. l + B - 1 :
                     u[p] \notin below => \E s \in k + 1 .. numL - 1 : L!CellL(s) = p
               /\ \A s, t \in k + 1 .. numL - 1 : s # t => L!CellL(s) # L!CellL(t)
    BY <1>1, <1>5, <1>8, <1>b DEF LeftHolds
  <2>1. /\ \A s \in k .. numL - 1 : L!CellL(s) \in l .. l + B - 1 /\ v[L!CellL(s)] \notin below
        /\ \A p \in l .. l + B - 1 :
              v[p] \notin below => \E s \in k .. numL - 1 : L!CellL(s) = p
        /\ \A s, t \in k .. numL - 1 : s # t => L!CellL(s) # L!CellL(t)
    BY <1>5, <1>6 DEF LeftHolds
  <2>2. k .. numL - 1 = {k} \cup k + 1 .. numL - 1 /\ k \notin k + 1 .. numL - 1
    BY <1>3, <1>4
  <2>3. \A p \in l .. l + B - 1 : p # a => u[p] = v[p]
    BY <1>9, <1>10
  <2>4. u[a] \in below
    BY <1>7, <1>10
  <2>5. \A s \in k + 1 .. numL - 1 : L!CellL(s) # a
    BY <2>1, <2>2 DEF a
  <2>6. ASSUME NEW s \in k + 1 .. numL - 1
        PROVE  L!CellL(s) \in l .. l + B - 1 /\ u[L!CellL(s)] \notin below
    BY <2>1, <2>2, <2>3, <2>5
  <2>7. ASSUME NEW p \in l .. l + B - 1, u[p] \notin below
        PROVE  \E s \in k + 1 .. numL - 1 : L!CellL(s) = p
    <3>1. p # a
      BY <2>4, <2>7
    <3>2. PICK s \in k .. numL - 1 : L!CellL(s) = p
      BY <2>1, <2>3, <2>7, <3>1
    <3>3. s # k
      BY <3>1, <3>2 DEF a
    <3> QED
      BY <2>2, <3>2, <3>3
  <2>8. \A s, t \in k + 1 .. numL - 1 : s # t => L!CellL(s) # L!CellL(t)
    BY <2>1, <2>2
  <2> QED
    BY <2>6, <2>7, <2>8
<1>12. RightHolds(B)'
  <2> SUFFICES /\ \A s \in k + 1 .. numR - 1 :
                     L!CellR(s) \in r - B .. r - 1 /\ u[L!CellR(s)] \in below
               /\ \A p \in r - B .. r - 1 :
                     u[p] \in below => \E s \in k + 1 .. numR - 1 : L!CellR(s) = p
               /\ \A s, t \in k + 1 .. numR - 1 : s # t => L!CellR(s) # L!CellR(t)
    BY <1>1, <1>5, <1>8, <1>b DEF RightHolds
  <2>1. /\ \A s \in k .. numR - 1 : L!CellR(s) \in r - B .. r - 1 /\ v[L!CellR(s)] \in below
        /\ \A p \in r - B .. r - 1 :
              v[p] \in below => \E s \in k .. numR - 1 : L!CellR(s) = p
        /\ \A s, t \in k .. numR - 1 : s # t => L!CellR(s) # L!CellR(t)
    BY <1>5, <1>6 DEF RightHolds
  <2>2. k .. numR - 1 = {k} \cup k + 1 .. numR - 1 /\ k \notin k + 1 .. numR - 1
    BY <1>3, <1>4
  <2>3. \A p \in r - B .. r - 1 : p # b => u[p] = v[p]
    BY <1>9, <1>10
  <2>4. u[b] \notin below
    BY <1>7, <1>10
  <2>5. \A s \in k + 1 .. numR - 1 : L!CellR(s) # b
    BY <2>1, <2>2 DEF b
  <2>6. ASSUME NEW s \in k + 1 .. numR - 1
        PROVE  L!CellR(s) \in r - B .. r - 1 /\ u[L!CellR(s)] \in below
    BY <2>1, <2>2, <2>3, <2>5
  <2>7. ASSUME NEW p \in r - B .. r - 1, u[p] \in below
        PROVE  \E s \in k + 1 .. numR - 1 : L!CellR(s) = p
    <3>1. p # b
      BY <2>4, <2>7
    <3>2. PICK s \in k .. numR - 1 : L!CellR(s) = p
      BY <2>1, <2>3, <2>7, <3>1
    <3>3. s # k
      BY <3>1, <3>2 DEF b
    <3> QED
      BY <2>2, <3>2, <3>3
  <2>8. \A s, t \in k + 1 .. numR - 1 : s # t => L!CellR(s) # L!CellR(t)
    BY <2>1, <2>2
  <2> QED
    BY <2>6, <2>7, <2>8
<1>13. L!Settled'
  <2>1. ASSUME NEW p \in first .. l - 1 PROVE u[p] \in below
    <3>1. p \in Pos /\ ~(l <= p /\ p < r)
      BY <1>3 DEF Pos
    <3>2. u[p] = v[p]
      BY <1>9, <1>10, <3>1
    <3> QED
      BY <1>2, <3>2 DEF L!Settled, L!AllIn
  <2>2. ASSUME NEW p \in r .. last - 1 PROVE u[p] \notin below
    <3>1. p \in Pos /\ ~(l <= p /\ p < r)
      BY <1>3 DEF Pos
    <3>2. u[p] = v[p]
      BY <1>9, <1>10, <3>1
    <3> QED
      BY <1>2, <3>2 DEF L!Settled, L!NoneIn
  <2> QED
    BY <1>1, <1>b, <2>1, <2>2 DEF L!Settled, L!AllIn, L!NoneIn
<1>14. SameOutside(v, u, first, last)
  <2> SUFFICES ASSUME NEW p \in Pos, p \notin first .. last - 1 PROVE v[p] = u[p]
    BY DEF SameOutside
  <2>1. ~(l <= p /\ p < r)
    BY <1>3 DEF Pos
  <2> QED
    BY <1>9, <1>10, <2>1
<1>15. L!TypeOK'
  <2>1. v' \in [L!Pos -> L!Pos]
    BY <1>10, <1>b DEF L!Pos, Pos
  <2>2. k' \in 0 .. B
    BY <1>1, <1>3, <1>4
  <2> QED
    BY <1>1, <1>2, <2>1, <2>2 DEF L!TypeOK
<1>16. Window'
  BY <1>1, <1>3, <1>4 DEF Window
<1>17. IsArrangement(v)'
  BY <1>10, <1>b DEF IsArrangement
<1> QED
  BY <1>1, <1>b, <1>11, <1>12, <1>13, <1>14, <1>15, <1>16, <1>17 DEF BIInv, BuffersHold

\* An end of the window moves by a block when nothing of it is misplaced any more.
LEMMA BAdvance == ASSUME BIInv, L!Advance PROVE BIInv'
<1>1. /\ pc = "swap" /\ k = L!Num /\ pc' = "loop"
      /\ numL' = numL - k /\ startL' = startL + k
      /\ numR' = numR - k /\ startR' = startR + k
      /\ l' = (IF numL = k THEN l + B ELSE l)
      /\ r' = (IF numR = k THEN r - B ELSE r)
      /\ UNCHANGED <<v, below, first, last, offL, offR, k, ret>>
  BY DEF L!Advance, L!args
<1>2. L!TypeOK /\ IsArrangement(v) /\ L!Settled /\ Window /\ BuffersHold
  BY DEF BIInv
<1>3. /\ N \in Nat /\ B \in Nat /\ B > 0 /\ first \in Nat /\ last \in Nat /\ last <= N
      /\ l \in Nat /\ r \in Nat /\ first <= l /\ l <= r /\ r <= last
      /\ numL \in Nat /\ numR \in Nat /\ startL \in Nat /\ startR \in Nat
      /\ startL + numL <= B /\ startR + numR <= B /\ k \in Nat /\ r - l > 2 * B
  BY <1>1, <1>2, BNumbers DEF Window
<1>4. k <= numL /\ k <= numR /\ (k = numL \/ k = numR)
  BY <1>1, <1>3 DEF L!Num
<1>5. L!Exch = k /\ L!Exch' = 0
  BY <1>1 DEF L!Exch
<1>6. LeftHolds(B) /\ RightHolds(B)
  BY <1>1, <1>2 DEF BuffersHold
<1>7. PICK x, y : x = l' /\ y = r'
  OBVIOUS
<1>8. /\ x \in {l, l + B} /\ y \in {r - B, r}
      /\ (x = l + B => numL = k) /\ (y = r - B => numR = k)
      /\ (numL = k => x = l + B) /\ (numR = k => y = r - B)
  BY <1>1, <1>3, <1>7
<1>9. x \in first .. last /\ y \in x .. last
  BY <1>3, <1>8
<1>10. L!TypeOK'
  <2>1. /\ numL - k \in 0 .. B /\ startL + k \in 0 .. B - (numL - k)
        /\ numR - k \in 0 .. B /\ startR + k \in 0 .. B - (numR - k)
    BY <1>3, <1>4
  <2>2. /\ numL' \in 0 .. B /\ startL' \in 0 .. B - numL'
        /\ numR' \in 0 .. B /\ startR' \in 0 .. B - numR'
    BY <1>1, <2>1
  <2>3. l' \in first .. last /\ r' \in l' .. last
    BY <1>7, <1>9
  <2> QED
    BY <1>1, <1>2, <2>2, <2>3 DEF L!TypeOK
<1>11. L!Settled'
  <2>1. ASSUME NEW p \in first .. x - 1 PROVE v[p] \in below
    <3>1. CASE p \in first .. l - 1
      BY <1>2, <3>1 DEF L!Settled, L!AllIn
    <3>2. CASE p \notin first .. l - 1
      <4>1. x = l + B /\ p \in l .. l + B - 1
        BY <1>3, <1>8, <3>2
      <4>2. L!Exch .. numL - 1 = {}
        BY <1>3, <1>5, <1>8, <4>1
      <4> QED
        BY <1>6, <4>1, <4>2 DEF LeftHolds
    <3> QED
      BY <3>1, <3>2
  <2>2. ASSUME NEW p \in y .. last - 1 PROVE v[p] \notin below
    <3>1. CASE p \in r .. last - 1
      BY <1>2, <3>1 DEF L!Settled, L!NoneIn
    <3>2. CASE p \notin r .. last - 1
      <4>1. y = r - B /\ p \in r - B .. r - 1
        BY <1>3, <1>8, <3>2
      <4>2. L!Exch .. numR - 1 = {}
        BY <1>3, <1>5, <1>8, <4>1
      <4> QED
        BY <1>6, <4>1, <4>2 DEF RightHolds
    <3> QED
      BY <3>1, <3>2
  <2> QED
    BY <1>1, <1>7, <2>1, <2>2 DEF L!Settled, L!AllIn, L!NoneIn
<1>12. Window'
  <2>1. numL - k = 0 \/ numR - k = 0
    BY <1>3, <1>4
  <2>2. (numL - k) + (numR - k) > 0 => y - x >= B
    <3>1. CASE x = l /\ y \in {r - B, r}
      BY <1>3, <3>1
    <3>2. CASE y = r /\ x \in {l, l + B}
      BY <1>3, <3>2
    <3>3. CASE x = l + B /\ y = r - B
      BY <1>3, <1>8, <3>3
    <3> QED
      BY <1>8, <3>1, <3>2, <3>3
  <2> QED
    BY <1>1, <1>7, <2>1, <2>2 DEF Window
<1>13. ASSUME numL - k > 0 PROVE LeftHolds(B)'
  <2>1. l' = l
    BY <1>3, <1>7, <1>8, <1>13
  <2>2. /\ \A s \in k .. numL - 1 : L!CellL(s) \in l .. l + B - 1 /\ v[L!CellL(s)] \notin below
        /\ \A p \in l .. l + B - 1 :
              v[p] \notin below => \E s \in k .. numL - 1 : L!CellL(s) = p
        /\ \A s, t \in k .. numL - 1 : s # t => L!CellL(s) # L!CellL(t)
    BY <1>5, <1>6 DEF LeftHolds
  <2>3. \A s \in Int : L!CellL(s)' = L!CellL(k + s)
    <3>1. \A s \in Int : (startL + k) + s = startL + (k + s)
      BY <1>3
    <3> QED
      BY <1>1, <2>1, <3>1 DEF L!CellL
  <2>4. \A s \in 0 .. (numL - k) - 1 : k + s \in k .. numL - 1
    BY <1>3
  <2>5. \A s \in k .. numL - 1 : s - k \in 0 .. (numL - k) - 1 /\ k + (s - k) = s
    BY <1>3
  <2> DEFINE at(s) == L!CellL(k + s)
  <2>6. \A s \in 0 .. (numL - k) - 1 : at(s) \in l .. l + B - 1 /\ v[at(s)] \notin below
    BY <2>2, <2>4
  <2>7. \A p \in l .. l + B - 1 :
            v[p] \notin below => \E s \in 0 .. (numL - k) - 1 : at(s) = p
    BY <2>2, <2>5
  <2>8. \A s, t \in 0 .. (numL - k) - 1 : s # t => at(s) # at(t)
    <3>1. \A s, t \in 0 .. (numL - k) - 1 : s # t => k + s # k + t
      BY <1>3
    <3> QED
      BY <2>2, <2>4, <3>1
  <2>9. \A s \in 0 .. (numL - k) - 1 : L!CellL(s)' = at(s)
    BY <2>3
  <2> HIDE DEF at
  <2> QED
    BY <1>1, <1>5, <2>1, <2>6, <2>7, <2>8, <2>9 DEF LeftHolds
<1>14. ASSUME numR - k > 0 PROVE RightHolds(B)'
  <2>1. r' = r
    BY <1>3, <1>7, <1>8, <1>14
  <2>2. /\ \A s \in k .. numR - 1 : L!CellR(s) \in r - B .. r - 1 /\ v[L!CellR(s)] \in below
        /\ \A p \in r - B .. r - 1 :
              v[p] \in below => \E s \in k .. numR - 1 : L!CellR(s) = p
        /\ \A s, t \in k .. numR - 1 : s # t => L!CellR(s) # L!CellR(t)
    BY <1>5, <1>6 DEF RightHolds
  <2>3. \A s \in Int : L!CellR(s)' = L!CellR(k + s)
    <3>1. \A s \in Int : (startR + k) + s = startR + (k + s)
      BY <1>3
    <3> QED
      BY <1>1, <2>1, <3>1 DEF L!CellR
  <2>4. \A s \in 0 .. (numR - k) - 1 : k + s \in k .. numR - 1
    BY <1>3
  <2>5. \A s \in k .. numR - 1 : s - k \in 0 .. (numR - k) - 1 /\ k + (s - k) = s
    BY <1>3
  <2> DEFINE at(s) == L!CellR(k + s)
  <2>6. \A s \in 0 .. (numR - k) - 1 : at(s) \in r - B .. r - 1 /\ v[at(s)] \in below
    BY <2>2, <2>4
  <2>7. \A p \in r - B .. r - 1 :
            v[p] \in below => \E s \in 0 .. (numR - k) - 1 : at(s) = p
    BY <2>2, <2>5
  <2>8. \A s, t \in 0 .. (numR - k) - 1 : s # t => at(s) # at(t)
    <3>1. \A s, t \in 0 .. (numR - k) - 1 : s # t => k + s # k + t
      BY <1>3
    <3> QED
      BY <2>2, <2>4, <3>1
  <2>9. \A s \in 0 .. (numR - k) - 1 : L!CellR(s)' = at(s)
    BY <2>3
  <2> HIDE DEF at
  <2> QED
    BY <1>1, <1>5, <2>1, <2>6, <2>7, <2>8, <2>9 DEF RightHolds
<1>15. BuffersHold'
  <2>1. (numL' > 0 => LeftHolds(B)') /\ (numR' > 0 => RightHolds(B)')
    BY <1>1, <1>13, <1>14
  <2> QED
    BY <1>1, <2>1 DEF BuffersHold
<1>16. IsArrangement(v)'
  BY <1>1, <1>2 DEF IsArrangement
<1> QED
  BY <1>10, <1>11, <1>12, <1>15, <1>16 DEF BIInv

\* hoare settles the window, a block partly done or not, and the boundary it
\* returns is that of the range.
LEMMA BFinishWindow ==
    ASSUME BIInv, L!FinishWindow
    PROVE  /\ BIInv' /\ SameOutside(v, v', first, last)
           /\ Partitioned(v', below, first, ret', last)
<1>1. /\ pc = "loop" /\ pc' = "done"
      /\ UNCHANGED <<below, first, last, l, r, offL, numL, startL, offR, numR, startR, k>>
  BY DEF L!FinishWindow, L!args, L!left, L!right
<1>2. L!TypeOK /\ IsArrangement(v) /\ L!Settled /\ Window /\ BuffersHold
  BY DEF BIInv
<1>3. /\ N \in Nat /\ first \in Nat /\ last \in Nat /\ last <= N
      /\ l \in Nat /\ r \in Nat /\ first <= l /\ l <= r /\ r <= last
  BY <1>2, BNumbers
<1>4. PICK o \in L!PartitionOutcomes(v, below, l, r) : v' = o.array /\ ret' = o.boundary
  BY DEF L!FinishWindow
<1>5. PICK u, b : u = v' /\ b = ret'
  OBVIOUS
<1>6. /\ b \in l .. r /\ IsArrangement(u)
      /\ AllIn(u, below, l, b) /\ NoneIn(u, below, b, r)
      /\ \A p \in Pos : p \notin l .. r - 1 => u[p] = v[p]
  <2> DEFINE arrays == {[p \in L!Pos |-> IF p \in l .. r - 1 THEN v[f[p]] ELSE v[p]] :
                          f \in L!Permutations(l .. r - 1)}
  <2>1. /\ o \in [array : arrays, boundary : l .. r]
        /\ L!Partitioned(o.array, below, l, o.boundary, r)
        /\ L!IsArrangement(o.array)
    BY DEF L!PartitionOutcomes
  <2>2. u \in arrays /\ b \in l .. r
    BY <1>4, <1>5, <2>1
  <2>3. \A p \in Pos : p \notin l .. r - 1 => u[p] = v[p]
    BY <2>2 DEF L!Pos, Pos
  <2> HIDE DEF arrays
  <2>4. L!Partitioned(u, below, l, b, r) /\ L!IsArrangement(u)
    BY <1>4, <1>5, <2>1
  <2> QED
    BY <2>2, <2>3, <2>4 DEF L!Partitioned, L!AllIn, L!NoneIn, AllIn, NoneIn,
       L!IsArrangement, IsArrangement, L!Pos, Pos
<1>7. b \in first .. last
  BY <1>3, <1>6
<1>8. ASSUME NEW p \in Pos, p < l \/ p >= r PROVE u[p] = v[p]
  <2>1. p \notin l .. r - 1
    BY <1>3, <1>8 DEF Pos
  <2> QED
    BY <1>6, <2>1
<1>9. /\ \A p \in first .. l - 1 : u[p] \in below
      /\ \A p \in r .. last - 1 : u[p] \notin below
  <2>1. ASSUME NEW p \in first .. l - 1 PROVE u[p] \in below
    <3>1. p \in Pos /\ p < l
      BY <1>3 DEF Pos
    <3> QED
      BY <1>2, <1>8, <3>1 DEF L!Settled, L!AllIn
  <2>2. ASSUME NEW p \in r .. last - 1 PROVE u[p] \notin below
    <3>1. p \in Pos /\ p >= r
      BY <1>3 DEF Pos
    <3> QED
      BY <1>2, <1>8, <3>1 DEF L!Settled, L!NoneIn
  <2> QED
    BY <2>1, <2>2
<1>10. L!Settled'
  BY <1>1, <1>5, <1>9 DEF L!Settled, L!AllIn, L!NoneIn
<1>11. L!TypeOK'
  <2>1. v' \in [L!Pos -> L!Pos]
    BY <1>5, <1>6 DEF IsArrangement, L!Pos, Pos
  <2>2. ret' \in first .. last
    BY <1>5, <1>7
  <2> QED
    BY <1>1, <1>2, <2>1, <2>2 DEF L!TypeOK
<1>12. Window' /\ BuffersHold'
  BY <1>1, <1>2 DEF Window, BuffersHold
<1>13. SameOutside(v, u, first, last)
  <2> SUFFICES ASSUME NEW p \in Pos, p \notin first .. last - 1 PROVE v[p] = u[p]
    BY DEF SameOutside
  <2>1. p < l \/ p >= r
    BY <1>3 DEF Pos
  <2> QED
    BY <1>8, <2>1
<1>14. Partitioned(u, below, first, b, last)
  <2>1. \A p \in first .. b - 1 : p \in first .. l - 1 \/ p \in l .. b - 1
    BY <1>3, <1>6
  <2>2. \A p \in b .. last - 1 : p \in b .. r - 1 \/ p \in r .. last - 1
    BY <1>3, <1>6
  <2> QED
    BY <1>6, <1>7, <1>9, <2>1, <2>2 DEF Partitioned, AllIn, NoneIn
<1>15. IsArrangement(v)'
  BY <1>5, <1>6 DEF IsArrangement
<1> QED
  BY <1>5, <1>10, <1>11, <1>12, <1>13, <1>14, <1>15 DEF BIInv

LEMMA BQuiet == ASSUME BIInv, UNCHANGED L!vars PROVE BIInv'
<1>1. UNCHANGED <<v, below, first, last, l, r, offL, numL, startL, offR, numR, startR, k, ret, pc>>
  BY DEF L!vars, L!args, L!left, L!right
<1>2. L!TypeOK /\ IsArrangement(v) /\ L!Settled /\ Window /\ BuffersHold
  BY DEF BIInv
<1>3. L!TypeOK' /\ IsArrangement(v)' /\ L!Settled' /\ Window'
  BY <1>1, <1>2 DEF L!TypeOK, IsArrangement, L!Settled, L!AllIn, L!NoneIn, Window
<1>4. L!Exch' = L!Exch
  BY <1>1 DEF L!Exch
<1>5. (\A x : LeftHolds(x) <=> LeftHolds(x)') /\ (\A x : RightHolds(x) <=> RightHolds(x)')
  BY <1>1, <1>4, BSame, BSameR
<1>6. BuffersHold'
  BY <1>1, <1>2, <1>5 DEF BuffersHold
<1> QED
  BY <1>3, <1>6 DEF BIInv

LEMMA BNext == BIInv /\ [L!Next]_L!vars => BIInv'
BY BRefillLeft, BFillLeft, BLeftReady, BRefillRight, BFillRight, BRightReady, BSwapPair,
   BAdvance, BFinishWindow, BQuiet DEF L!Next

\* The parts of the invariant that the runs check.
LEMMA BImplies == BIInv => L!WindowInvariant
<1> SUFFICES ASSUME BIInv PROVE L!WindowInvariant
  OBVIOUS
<1>1. L!TypeOK /\ L!Settled /\ Window /\ BuffersHold
  BY DEF BIInv
<1>2. /\ B \in Nat /\ B > 0 /\ l \in Nat /\ r \in Nat /\ numL \in Nat /\ numR \in Nat
      /\ pc \in {"loop", "fillL", "right", "fillR", "swap", "done"}
  BY <1>1, BNumbers DEF L!TypeOK
<1>3. LeftHolds(B) => L!PendingL = {p \in l .. l + B - 1 : v[p] \notin below}
  BY DEF LeftHolds, L!PendingL
<1>4. RightHolds(B) => L!PendingR = {p \in r - B .. r - 1 : v[p] \in below}
  BY DEF RightHolds, L!PendingR
<1>5. numL > 0 /\ numR > 0 => l + B <= r - B
  <2> SUFFICES ASSUME numL > 0, numR > 0 PROVE l + B <= r - B
    OBVIOUS
  <2>1. r - l > 2 * B
    BY <1>1, <1>2 DEF Window
  <2> QED
    BY <1>2, <2>1
<1>6. L!BufferedExactly
  BY <1>1, <1>3, <1>4, <1>5 DEF L!BufferedExactly, BuffersHold, Window
<1>7. L!PartialBlockInside
  <2>1. r - l > 2 * B => r - l >= B
    BY <1>2
  <2> QED
    BY <1>1, <2>1 DEF L!PartialBlockInside, Window
<1> QED
  BY <1>1, <1>6, <1>7 DEF L!WindowInvariant

LEMMA BRefineStep == BIInv /\ [L!Next]_L!vars => [L!Contract!Next]_L!Contract!vars
<1> SUFFICES ASSUME BIInv, [L!Next]_L!vars PROVE [L!Contract!Next]_L!Contract!vars
  OBVIOUS
<1>1. UNCHANGED <<below, first, last>>
  BY DEF L!Next, L!vars, L!args, L!RefillLeft, L!FillLeft, L!LeftReady, L!RefillRight,
     L!FillRight, L!RightReady, L!SwapPair, L!Advance, L!FinishWindow
<1>b. PICK u : u = v'
  OBVIOUS
<1>2. CASE L!SwapPair
  <2>1. IsArrangement(u) /\ SameOutside(v, u, first, last)
    BY <1>2, <1>b, BSwapPair DEF BIInv, IsArrangement
  <2>2. L!Contract!IsArrangement(u) /\ L!Contract!SameOutside(v, u, first, last)
    BY <2>1 DEF L!Contract!IsArrangement, L!Contract!SameOutside, L!Contract!Pos,
       IsArrangement, SameOutside, Pos
  <2>3. pc = "swap" /\ pc' = "swap" /\ ret' = ret
    BY <1>2 DEF L!SwapPair
  <2> QED
    BY <1>1, <1>b, <2>2, <2>3 DEF L!Contract!Next, L!Contract!Work, L!Contract!Rearranges
<1>3. CASE L!FinishWindow
  <2>1. /\ IsArrangement(u) /\ SameOutside(v, u, first, last)
        /\ Partitioned(u, below, first, ret', last)
    BY <1>3, <1>b, BFinishWindow DEF BIInv, IsArrangement
  <2>2. /\ L!Contract!IsArrangement(u) /\ L!Contract!SameOutside(v, u, first, last)
        /\ L!Contract!Partitioned(u, below, first, ret', last)
    BY <2>1 DEF L!Contract!IsArrangement, L!Contract!SameOutside, L!Contract!Pos,
       L!Contract!Partitioned, L!Contract!AllIn, L!Contract!NoneIn,
       IsArrangement, SameOutside, Pos, Partitioned, AllIn, NoneIn
  <2>3. pc = "loop" /\ pc' = "done"
    BY <1>3 DEF L!FinishWindow
  <2> QED
    BY <1>1, <1>b, <2>2, <2>3 DEF L!Contract!Next, L!Contract!Return, L!Contract!Rearranges
<1>4. CASE ~L!SwapPair /\ ~L!FinishWindow
  <2>1. UNCHANGED <<v, ret>> /\ (pc = "done" <=> pc' = "done")
    BY <1>4 DEF L!Next, L!vars, L!RefillLeft, L!FillLeft, L!LeftReady, L!RefillRight,
       L!FillRight, L!RightReady, L!Advance
  <2> QED
    BY <1>1, <2>1 DEF L!Contract!vars
<1> QED
  BY <1>2, <1>3, <1>4
-----------------------------------------------------------------------------
(***************************************************************************)
(* The three kernels together.                                             *)
(***************************************************************************)
MCIInv ==
    /\ kernel \in {"block", "fulcrum", "compress"}
    /\ kernel = "block" => BIInv
    /\ kernel = "fulcrum" => FIInv /\ first = 0
    /\ kernel = "compress" => CIInv /\ first = 0

\* A step is one of the kernel that was called.
LEMMA OneKernel ==
    ASSUME [MCNext]_allVars
    PROVE  /\ UNCHANGED kernel
           /\ kernel = "block" => [L!Next]_L!vars
           /\ kernel = "fulcrum" => [F!Next]_F!vars /\ UNCHANGED first
           /\ kernel = "compress" => [D!Next]_D!vars /\ UNCHANGED first
<1>1. UNCHANGED kernel
  BY DEF MCNext, allVars, others
<1>2. UNCHANGED allVars \/ (\E x \in {"block", "fulcrum", "compress"} : others(x))
  BY DEF MCNext
<1>3. kernel # "block" => UNCHANGED first
  BY <1>2 DEF others, allVars, ofBlock
<1>4. CASE UNCHANGED allVars
  BY <1>4 DEF allVars, ofBlock, ofFulcrum, ofCompress, L!vars, L!args, L!left, L!right,
     F!vars, F!args, D!vars, D!args
<1>5. CASE others("block")
  BY <1>1, <1>5 DEF MCNext, others, L!Next, L!vars, L!args, L!left, L!right, allVars, ofBlock
<1>6. CASE others("fulcrum")
  BY <1>1, <1>3, <1>6 DEF MCNext, others, F!Next, F!vars, F!args, allVars, ofFulcrum
<1>7. CASE others("compress")
  BY <1>1, <1>3, <1>7 DEF MCNext, others, D!Next, D!vars, D!args, allVars, ofCompress
<1> QED
  BY <1>2, <1>4, <1>5, <1>6, <1>7

LEMMA MCInitIInv == MCInit => MCIInv
BY BInit, FInit, CInit DEF MCInit, MCIInv, BlockCalls, FulcrumCalls, CompressCalls, NotBlock

LEMMA MCNextIInv == MCIInv /\ [MCNext]_allVars => MCIInv'
BY OneKernel, BNext, FNext, CNext DEF MCIInv

THEOREM KernelsInvariance == MCSpec => []MCIInv
<1>1. MCInit => MCIInv
  BY MCInitIInv
<1>2. MCIInv /\ [MCNext]_allVars => MCIInv'
  BY MCNextIInv
<1> QED
  BY <1>1, <1>2, PTL DEF MCSpec

\* block: the window, the buffers and what lies outside the window agree at every
\* step, for every block size and every range.
THEOREM WindowInvariantHolds ==
    (L!Spec => []L!WindowInvariant) /\ (MCSpec => []WindowInvariant)
<1>1. L!Init => BIInv
  BY BInit
<1>2. BIInv /\ [L!Next]_L!vars => BIInv'
  BY BNext
<1>3. BIInv => L!WindowInvariant
  BY BImplies
<1>4. MCIInv => WindowInvariant
  BY BImplies DEF MCIInv, WindowInvariant
<1>5. L!Spec => []L!WindowInvariant
  BY <1>1, <1>2, <1>3, PTL DEF L!Spec
<1>6. MCSpec => []WindowInvariant
  BY <1>4, KernelsInvariance, PTL
<1> QED
  BY <1>5, <1>6

\* fulcrum_partition: no element is lost between the range, the unread middle and
\* the saved elements, and no write lands on an element not read yet, for every
\* chunk and every range it is called for.
THEOREM FulcrumInvariantHolds ==
    (F!Spec => []F!FulcrumInvariant) /\ (MCSpec => []FulcrumInvariant)
<1>1. F!Init => FIInv
  BY FInit
<1>2. FIInv /\ [F!Next]_F!vars => FIInv'
  BY FNext
<1>3. FIInv => F!FulcrumInvariant
  BY FImplies
<1>4. MCIInv => FulcrumInvariant
  BY FImplies DEF MCIInv, FulcrumInvariant
<1>5. F!Spec => []F!FulcrumInvariant
  BY <1>1, <1>2, <1>3, PTL DEF F!Spec
<1>6. MCSpec => []FulcrumInvariant
  BY <1>4, KernelsInvariance, PTL
<1> QED
  BY <1>5, <1>6

\* compress_partition: the cursors keep two vectors' room, a whole store fits in
\* front of the side that is not read from, and no element is lost, for every
\* vector width and every range it is called for.
THEOREM CompressInvariantHolds ==
    (D!Spec => []D!CompressInvariant) /\ (MCSpec => []CompressInvariant)
<1>1. D!Init => CIInv
  BY CInit
<1>2. CIInv /\ [D!Next]_D!vars => CIInv'
  BY CNext
<1>3. CIInv => D!CompressInvariant
  BY CImplies
<1>4. MCIInv => CompressInvariant
  BY CImplies DEF MCIInv, CompressInvariant
<1>5. D!Spec => []D!CompressInvariant
  BY <1>1, <1>2, <1>3, PTL DEF D!Spec
<1>6. MCSpec => []CompressInvariant
  BY <1>4, KernelsInvariance, PTL
<1> QED
  BY <1>5, <1>6
-----------------------------------------------------------------------------
LEMMA BContractInit == L!Init => L!Contract!Init
<1> SUFFICES ASSUME L!Init PROVE L!Contract!Init
  OBVIOUS
<1> QED
  BY DEF L!Init, L!Pos, L!Contract!Init, L!Contract!Pos

LEMMA FContractInit == F!Init => F!Contract!Init
<1> SUFFICES ASSUME F!Init PROVE F!Contract!Init
  OBVIOUS
<1>1. n \in 0 .. N
  BY FInit, FNumbers DEF FIInv
<1>2. below \in SUBSET F!Pos /\ pc = "left"
  BY DEF F!Init
<1>3. 0 \in 0 .. N
  BY NAssumption
<1> QED
  BY <1>1, <1>2, <1>3 DEF F!Pos, F!Contract!Init, F!Contract!Pos

LEMMA CContractInit == D!Init => D!Contract!Init
<1> SUFFICES ASSUME D!Init PROVE D!Contract!Init
  OBVIOUS
<1>1. n \in 0 .. N
  BY CInit, CNumbers DEF CIInv
<1>2. below \in SUBSET D!Pos /\ pc = "loop"
  BY DEF D!Init
<1>3. 0 \in 0 .. N
  BY NAssumption
<1> QED
  BY <1>1, <1>2, <1>3 DEF D!Pos, D!Contract!Init, D!Contract!Pos

\* The contract of the three, for each of them.
LEMMA MCContractStep ==
    MCIInv /\ [MCNext]_allVars => [Contract!Next]_Contract!vars
<1> SUFFICES ASSUME MCIInv, [MCNext]_allVars PROVE [Contract!Next]_Contract!vars
  OBVIOUS
<1>1. CASE kernel = "block"
  <2>1. [L!Contract!Next]_L!Contract!vars /\ kernel' = "block"
    BY <1>1, OneKernel, BRefineStep DEF MCIInv
  <2> QED
    BY <1>1, <2>1 DEF L!Contract!Next, L!Contract!Work, L!Contract!Return, L!Contract!vars,
       L!Contract!Rearranges, L!Contract!IsArrangement, L!Contract!SameOutside,
       L!Contract!Partitioned, L!Contract!AllIn, L!Contract!NoneIn, L!Contract!Pos,
       Contract!Next, Contract!Work, Contract!Return, Contract!vars,
       Contract!Rearranges, Contract!IsArrangement, Contract!SameOutside,
       Contract!Partitioned, Contract!AllIn, Contract!NoneIn, Contract!Pos
<1>2. CASE kernel = "fulcrum"
  <2>1. [F!Contract!Next]_F!Contract!vars /\ kernel' = "fulcrum" /\ first = 0 /\ first' = 0
    BY <1>2, OneKernel, FRefineStep DEF MCIInv
  <2> QED
    BY <1>2, <2>1 DEF F!Contract!Next, F!Contract!Work, F!Contract!Return, F!Contract!vars,
       F!Contract!Rearranges, F!Contract!IsArrangement, F!Contract!SameOutside,
       F!Contract!Partitioned, F!Contract!AllIn, F!Contract!NoneIn, F!Contract!Pos, F!Pos, Pos,
       Contract!Next, Contract!Work, Contract!Return, Contract!vars,
       Contract!Rearranges, Contract!IsArrangement, Contract!SameOutside,
       Contract!Partitioned, Contract!AllIn, Contract!NoneIn, Contract!Pos
<1>3. CASE kernel = "compress"
  <2>1. [D!Contract!Next]_D!Contract!vars /\ kernel' = "compress" /\ first = 0 /\ first' = 0
    BY <1>3, OneKernel, CRefineStep DEF MCIInv
  <2> QED
    BY <1>3, <2>1 DEF D!Contract!Next, D!Contract!Work, D!Contract!Return, D!Contract!vars,
       D!Contract!Rearranges, D!Contract!IsArrangement, D!Contract!SameOutside,
       D!Contract!Partitioned, D!Contract!AllIn, D!Contract!NoneIn, D!Contract!Pos, D!Pos, Pos,
       Contract!Next, Contract!Work, Contract!Return, Contract!vars,
       Contract!Rearranges, Contract!IsArrangement, Contract!SameOutside,
       Contract!Partitioned, Contract!AllIn, Contract!NoneIn, Contract!Pos
<1> QED
  BY <1>1, <1>2, <1>3 DEF MCIInv

LEMMA MCContractInit == MCInit => Contract!Init
<1> SUFFICES ASSUME MCInit PROVE Contract!Init
  OBVIOUS
<1>1. CASE BlockCalls
  <2>1. L!Contract!Init /\ kernel = "block"
    BY <1>1, BContractInit DEF BlockCalls
  <2> QED
    BY <2>1 DEF L!Contract!Init, L!Contract!Pos, Contract!Init, Contract!Pos
<1>2. CASE FulcrumCalls
  <2>1. F!Contract!Init /\ kernel = "fulcrum" /\ first = 0 /\ pc = "left"
    BY <1>2, FContractInit DEF FulcrumCalls, NotBlock, F!Init
  <2> QED
    BY <2>1 DEF F!Contract!Init, F!Contract!Pos, F!Pos, Pos, Contract!Init, Contract!Pos
<1>3. CASE CompressCalls
  <2>1. D!Contract!Init /\ kernel = "compress" /\ first = 0 /\ pc = "loop"
    BY <1>3, CContractInit DEF CompressCalls, NotBlock, D!Init
  <2> QED
    BY <2>1 DEF D!Contract!Init, D!Contract!Pos, D!Pos, Pos, Contract!Init, Contract!Pos
<1> QED
  BY <1>1, <1>2, <1>3 DEF MCInit

\* Each of the three keeps the promise of concepts.hpp: it rearranges its range
\* and nothing else, and returns its boundary.
THEOREM KernelsImplement ==
    /\ L!Spec => L!Implements
    /\ F!Spec => F!Implements
    /\ D!Spec => D!Implements
    /\ MCSpec => Implements
<1>1. L!Spec => L!Implements
  <2>1. L!Init => BIInv
    BY BInit
  <2>2. BIInv /\ [L!Next]_L!vars => BIInv'
    BY BNext
  <2> QED
    BY <2>1, <2>2, BContractInit, BRefineStep, PTL DEF L!Spec, L!Implements, L!Contract!Spec
<1>2. F!Spec => F!Implements
  <2>1. F!Init => FIInv
    BY FInit
  <2>2. FIInv /\ [F!Next]_F!vars => FIInv'
    BY FNext
  <2> QED
    BY <2>1, <2>2, FContractInit, FRefineStep, PTL DEF F!Spec, F!Implements, F!Contract!Spec
<1>3. D!Spec => D!Implements
  <2>1. D!Init => CIInv
    BY CInit
  <2>2. CIInv /\ [D!Next]_D!vars => CIInv'
    BY CNext
  <2> QED
    BY <2>1, <2>2, CContractInit, CRefineStep, PTL DEF D!Spec, D!Implements, D!Contract!Spec
<1>4. MCSpec => Implements
  BY MCContractInit, MCContractStep, KernelsInvariance, PTL DEF MCSpec, Implements, Contract!Spec
<1> QED
  BY <1>1, <1>2, <1>3, <1>4
=============================================================================
