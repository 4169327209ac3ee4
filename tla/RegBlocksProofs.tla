---------------------------- MODULE RegBlocksProofs ---------------------------
(***************************************************************************)
(* The loops of the address map, for every port: sorting the fields,       *)
(* collecting the blocks to read, and finding the name of a register.      *)
(* Induction is from the least element of a set of numbers: the library's  *)
(* induction theorems take a predicate, which the provers cannot           *)
(* instantiate, but a set does as well.                                    *)
(***************************************************************************)
EXTENDS RegBlocks, SequenceTheorems, FiniteSetTheorems, WellFoundedInduction, TLAPS

--------------------------------------------------------------------------------
(* Induction.  The invariant of a loop is the set of the turns that keep it.  *)

\* A set of natural numbers that is not empty has a least element.
LEMMA LeastElement ==
    ASSUME NEW S \in SUBSET Nat, S # {}
    PROVE  \E x \in S : \A y \in S : x <= y
<1>1. \E x \in S : \A y \in S : ~ (<<y, x>> \in OpToRel(<, Nat))
  BY NatLessThanWellFounded, WFMin
<1>2. \A x, y \in Nat : x < y => <<x, y>> \in OpToRel(<, Nat)
  BY DEF OpToRel
<1>3. \E x \in S : \A y \in S : ~ (y < x)
  BY <1>1, <1>2, Zenon
<1> QED
  BY <1>3

\* Induction, stated of a set of numbers.
LEMMA Induction ==
    ASSUME NEW S, 0 \in S, \A n \in Nat : n \in S => n + 1 \in S
    PROVE  \A n \in Nat : n \in S
<1> SUFFICES ASSUME Nat \ S # {} PROVE FALSE
  OBVIOUS
<1>1. PICK n \in Nat \ S : \A m \in Nat \ S : n <= m
  BY LeastElement
<1>2. n # 0 /\ n - 1 \in Nat /\ n - 1 \in S
  BY <1>1
<1> QED
  BY <1>1, <1>2

\* What a loop keeps from each turn to the next holds after the last.
LEMMA LoopInduction ==
    ASSUME NEW n \in Nat, NEW S, 0 \in S, \A i \in 0 .. (n - 1) : i \in S => i + 1 \in S
    PROVE  \A i \in 0 .. n : i \in S
<1> DEFINE upTo == {i \in Nat : i <= n => i \in S}
<1>1. 0 \in upTo /\ \A i \in Nat : i \in upTo => i + 1 \in upTo
  OBVIOUS
<1> HIDE DEF upTo
<1>2. \A i \in Nat : i \in upTo
  BY <1>1, Induction
<1> QED
  BY <1>2 DEF upTo

--------------------------------------------------------------------------------
(* FoldLeft is the loop over a sequence: there is a function that is what it  *)
(* is defined to be, and its values are what the loop has after each turn.    *)

LEMMA LargestIs ==
    ASSUME NEW k \in Nat, NEW s \in SUBSET (1 .. k + 1), k + 1 \in s
    PROVE  Max(s) = k + 1
<1>1. k + 1 \in s /\ \A y \in s : k + 1 >= y
  OBVIOUS
<1>2. \A x \in s : (\A y \in s : x >= y) => x = k + 1
  BY <1>1
<1> QED
  BY <1>1, <1>2 DEF Max

LEMMA LargestIn ==
    ASSUME NEW n \in Nat, NEW s \in SUBSET (1 .. n), s # {}
    PROVE  Max(s) \in s
<1> DEFINE below == {d \in Nat : \E x \in s : d = n - x}
<1>1. below # {}
  <2>1. PICK x \in s : TRUE
    OBVIOUS
  <2>2. n - x \in below
    BY <2>1
  <2> QED
    BY <2>2
<1>2. PICK d \in below : \A e \in below : d <= e
  BY <1>1, LeastElement
<1>3. PICK x \in s : d = n - x
  BY <1>2
<1>4. \A y \in s : n - y \in below
  OBVIOUS
<1>5. \A y \in s : x >= y
  BY <1>2, <1>3, <1>4
<1> QED
  BY <1>3, <1>5 DEF Max

Folds(n, base, turn, g) ==
    g = [s \in SUBSET (1 .. n) |->
            IF s = {} THEN base ELSE turn[<<g[s \ {Max(s)}], Max(s)>>]]

LEMMA FoldExists ==
    ASSUME NEW S, NEW base \in S, NEW turn \in [S \X Nat -> S], NEW n \in Nat
    PROVE  \E g \in [SUBSET (1 .. n) -> S] : Folds(n, base, turn, g)
<1> DEFINE foldable == {k \in Nat : \E g \in [SUBSET (1 .. k) -> S] : Folds(k, base, turn, g)}
<1>1. 0 \in foldable
  <2>1. SUBSET (1 .. 0) = {{}}
    OBVIOUS
  <2>2. Folds(0, base, turn, [s \in SUBSET (1 .. 0) |-> base])
    BY <2>1 DEF Folds
  <2> QED
    BY <2>2
<1>2. ASSUME NEW k \in Nat, k \in foldable PROVE k + 1 \in foldable
  <2>1. PICK g \in [SUBSET (1 .. k) -> S] : Folds(k, base, turn, g)
    BY <1>2
  <2> DEFINE h == [s \in SUBSET (1 .. k + 1) |->
                     IF k + 1 \in s THEN turn[<<g[s \ {k + 1}], k + 1>>] ELSE g[s]]
  <2>2. \A s \in SUBSET (1 .. k + 1) : /\ k + 1 \notin s => s \in SUBSET (1 .. k)
                                       /\ s \ {k + 1} \in SUBSET (1 .. k)
    OBVIOUS
  <2>3. h \in [SUBSET (1 .. k + 1) -> S]
    <3>1. ASSUME NEW s \in SUBSET (1 .. k + 1)
          PROVE  (IF k + 1 \in s THEN turn[<<g[s \ {k + 1}], k + 1>>] ELSE g[s]) \in S
      <4>1. CASE k + 1 \in s
        <5>1. g[s \ {k + 1}] \in S /\ k + 1 \in Nat
          BY <2>2
        <5>2. turn[<<g[s \ {k + 1}], k + 1>>] \in S
          BY <5>1
        <5> QED
          BY <4>1, <5>2
      <4>2. CASE k + 1 \notin s
        BY <2>2, <4>2
      <4> QED
        BY <4>1, <4>2
    <3> QED
      BY <3>1
  <2>4. ASSUME NEW s \in SUBSET (1 .. k + 1)
        PROVE  h[s] = IF s = {} THEN base ELSE turn[<<h[s \ {Max(s)}], Max(s)>>]
    <3>1. CASE k + 1 \in s
      <4>1. Max(s) = k + 1
        BY <3>1, LargestIs
      <4>2. h[s] = turn[<<g[s \ {k + 1}], k + 1>>]
        BY <3>1
      <4>3. h[s \ {k + 1}] = g[s \ {k + 1}]
        BY <2>2
      <4> QED
        BY <3>1, <4>1, <4>2, <4>3
    <3>2. CASE k + 1 \notin s
      <4>1. h[s] = g[s] /\ s \in SUBSET (1 .. k)
        BY <2>2, <3>2
      <4>2. g[s] = IF s = {} THEN base ELSE turn[<<g[s \ {Max(s)}], Max(s)>>]
        BY <2>1, <4>1 DEF Folds
      <4>3. h[s \ {Max(s)}] = g[s \ {Max(s)}]
        BY <3>2, <4>1
      <4> QED
        BY <4>1, <4>2, <4>3
    <3> QED
      BY <3>1, <3>2
  <2>5. Folds(k + 1, base, turn, h)
    <3> HIDE DEF h
    <3> QED
      BY <2>3, <2>4 DEF Folds
  <2> HIDE DEF h
  <2> QED
    BY <2>3, <2>5
<1> HIDE DEF foldable
<1>3. n \in foldable
  BY <1>1, <1>2, Induction
<1> QED
  BY <1>3 DEF foldable

\* The values of such a function on the first i turns are what the loop has then.
LEMMA FoldTurns ==
    ASSUME NEW n \in Nat, NEW i \in 1 .. n
    PROVE  /\ 1 .. i \in SUBSET (1 .. n) /\ 1 .. (i - 1) \in SUBSET (1 .. n)
           /\ 1 .. i # {} /\ Max(1 .. i) = i /\ (1 .. i) \ {i} = 1 .. (i - 1)
<1>1. i - 1 \in Nat /\ 1 .. i \in SUBSET (1 .. (i - 1) + 1) /\ (i - 1) + 1 \in 1 .. i
  OBVIOUS
<1>2. Max(1 .. i) = (i - 1) + 1
  BY <1>1, LargestIs
<1> QED
  BY <1>2

\* The loop that collects blocks, in get_reg_read_list.
BlockRec == [base : Nat, len : Nat, is_hole : BOOLEAN]
Run == [blocks : Seq(BlockRec), base : Nat, len : Nat]

LEMMA AddToRunType ==
    ASSUME NEW run \in Run, NEW f \in Field
    PROVE  AddToRun(run, f) \in Run
<1> DEFINE next == run.base + run.len
           closed == Block(run.base, run.len, FALSE)
           hole == Block(next, f.base_addr - next, TRUE)
<1>1. /\ run.blocks \in Seq(BlockRec) /\ run.base \in Nat /\ run.len \in Nat /\ next \in Nat
      /\ f.base_addr \in Nat /\ f.n_regs \in Nat
  BY DEF Run, Field
<1>2. CASE f.base_addr < next
  BY <1>2 DEF AddToRun
<1>3. CASE f.base_addr = next
  <2>1. AddToRun(run, f) = [run EXCEPT !.len = @ + f.n_regs]
    BY <1>1, <1>3 DEF AddToRun
  <2>2. [run EXCEPT !.len = @ + f.n_regs] \in Run
    BY <1>1 DEF Run
  <2> QED
    BY <2>1, <2>2
<1>4. CASE f.base_addr > next
  <2>1. closed \in BlockRec /\ hole \in BlockRec
    BY <1>1, <1>4 DEF Block, BlockRec
  <2> HIDE DEF closed, hole
  <2>2. run.blocks \o <<closed, hole>> \in Seq(BlockRec)
    BY <1>1, <2>1
  <2>3. AddToRun(run, f) = [blocks |-> run.blocks \o <<closed, hole>>,
                            base |-> f.base_addr, len |-> f.n_regs]
    BY <1>1, <1>4 DEF AddToRun, closed, hole
  <2> QED
    BY <1>1, <2>2, <2>3 DEF Run
<1> QED
  BY <1>1, <1>2, <1>3, <1>4

LEMMA RunLoop ==
    ASSUME NEW base \in Run, NEW n \in Nat, NEW seq \in [1 .. n -> Field]
    PROVE  \E r \in [0 .. n -> Run] :
              /\ r[0] = base
              /\ \A i \in 1 .. n : r[i] = AddToRun(r[i - 1], seq[i])
              /\ FoldLeft(AddToRun, base, seq) = r[n]
<1> DEFINE turn == [p \in Run \X Nat |->
                      IF p[2] \in 1 .. n THEN AddToRun(p[1], seq[p[2]]) ELSE base]
           Loops(g) == g = [s \in SUBSET (DOMAIN seq) |->
                               IF s = {} THEN base ELSE AddToRun(g[s \ {Max(s)}], seq[Max(s)])]
           fold == CHOOSE g : Loops(g)
<1>1. turn \in [Run \X Nat -> Run]
  BY AddToRunType
<1>2. PICK g \in [SUBSET (1 .. n) -> Run] : Folds(n, base, turn, g)
  <2> HIDE DEF turn
  <2> QED
    BY <1>1, FoldExists
<1>3. Loops(g)
  <2>1. ASSUME NEW s \in SUBSET (1 .. n), s # {}
        PROVE  turn[<<g[s \ {Max(s)}], Max(s)>>] = AddToRun(g[s \ {Max(s)}], seq[Max(s)])
    <3>1. Max(s) \in 1 .. n /\ g[s \ {Max(s)}] \in Run
      BY <2>1, LargestIn
    <3> QED
      BY <3>1
  <2> HIDE DEF turn
  <2>2. g = [s \in SUBSET (1 .. n) |->
                   IF s = {} THEN base ELSE AddToRun(g[s \ {Max(s)}], seq[Max(s)])]
    BY <1>2, <2>1 DEF Folds
  <2> QED
    BY <2>2
<1>4. Loops(fold)
  <2> HIDE DEF Loops
  <2> QED
    BY <1>3
<1>5. FoldLeft(AddToRun, base, seq) = fold[1 .. n]
  BY DEF FoldLeft, MapThenFoldSet
<1> HIDE DEF fold
<1> DEFINE r == [i \in 0 .. n |-> fold[1 .. i]]
<1>6. r[0] = base /\ r[n] = fold[1 .. n]
  BY <1>4
<1>7. ASSUME NEW i \in 1 .. n PROVE r[i] = AddToRun(r[i - 1], seq[i])
  <2>1. fold[1 .. i] = AddToRun(fold[1 .. (i - 1)], seq[i])
    <3>1. /\ 1 .. i \in SUBSET (1 .. n) /\ 1 .. i # {}
          /\ Max(1 .. i) = i /\ (1 .. i) \ {i} = 1 .. (i - 1)
      BY FoldTurns
    <3> QED
      BY <1>4, <3>1
  <2> QED
    BY <2>1
<1> HIDE DEF r
<1>8. \A i \in 0 .. n : r[i] \in Run
  <2> DEFINE typed == {i \in 0 .. n : r[i] \in Run}
  <2>1. 0 \in typed
    BY <1>6
  <2>2. ASSUME NEW i \in 0 .. (n - 1), i \in typed PROVE i + 1 \in typed
    <3>1. i + 1 \in 1 .. n /\ (i + 1) - 1 = i
      OBVIOUS
    <3>2. r[i + 1] = AddToRun(r[i], seq[i + 1])
      BY <1>7, <3>1
    <3> QED
      BY <2>2, <3>1, <3>2, AddToRunType
  <2> HIDE DEF typed
  <2>3. \A i \in 0 .. n : i \in typed
    BY <2>1, <2>2, LoopInduction
  <2> QED
    BY <2>3 DEF typed
<1>9. r \in [0 .. n -> Run]
  BY <1>8 DEF r
<1> QED
  BY <1>5, <1>6, <1>7, <1>9

\* The loop that looks for the fields of a register, in peripheral_name_from_addr.
Found == [fields : SUBSET Field, stop : BOOLEAN]

LEMMA LookAtType ==
    ASSUME NEW found \in Found, NEW f \in Field, NEW addr
    PROVE  LookAt(found, f, addr) \in Found
<1>1. found.fields \in SUBSET Field /\ found.stop \in BOOLEAN /\ found.fields \cup {f} \in SUBSET Field
  BY DEF Found
<1>2. /\ [found EXCEPT !.stop = TRUE] \in Found
      /\ [found EXCEPT !.fields = @ \cup {f}] \in Found
      /\ [fields |-> found.fields \cup {f}, stop |-> TRUE] \in Found
  BY <1>1 DEF Found
<1> QED
  BY <1>2 DEF LookAt

Search(base, seq, addr) == FoldLeft(LAMBDA found, f : LookAt(found, f, addr), base, seq)

Searches(base, seq, addr, n, r) ==
    /\ r[0] = base
    /\ \A i \in 1 .. n : r[i] = LookAt(r[i - 1], seq[i], addr)
    /\ Search(base, seq, addr) = r[n]

LEMMA NamesLoop ==
    ASSUME NEW base \in Found, NEW addr, NEW n \in Nat, NEW seq \in [1 .. n -> Field]
    PROVE  \E r \in [0 .. n -> Found] : Searches(base, seq, addr, n, r)
<1> DEFINE turn == [p \in Found \X Nat |->
                      IF p[2] \in 1 .. n THEN LookAt(p[1], seq[p[2]], addr) ELSE base]
           Loops(g) == g = [s \in SUBSET (DOMAIN seq) |->
                               IF s = {} THEN base ELSE LookAt(g[s \ {Max(s)}], seq[Max(s)], addr)]
           fold == CHOOSE g : Loops(g)
<1>1. turn \in [Found \X Nat -> Found]
  BY LookAtType
<1>2. PICK g \in [SUBSET (1 .. n) -> Found] : Folds(n, base, turn, g)
  <2> HIDE DEF turn
  <2> QED
    BY <1>1, FoldExists
<1>3. Loops(g)
  <2>1. ASSUME NEW s \in SUBSET (1 .. n), s # {}
        PROVE  turn[<<g[s \ {Max(s)}], Max(s)>>] = LookAt(g[s \ {Max(s)}], seq[Max(s)], addr)
    <3>1. Max(s) \in 1 .. n /\ g[s \ {Max(s)}] \in Found
      BY <2>1, LargestIn
    <3> QED
      BY <3>1
  <2> HIDE DEF turn
  <2>2. g = [s \in SUBSET (1 .. n) |->
                   IF s = {} THEN base ELSE LookAt(g[s \ {Max(s)}], seq[Max(s)], addr)]
    BY <1>2, <2>1 DEF Folds
  <2> QED
    BY <2>2
<1>4. Loops(fold)
  <2> HIDE DEF Loops
  <2> QED
    BY <1>3
<1>5. Search(base, seq, addr) = fold[1 .. n]
  BY DEF Search, FoldLeft, MapThenFoldSet
<1> HIDE DEF fold
<1> DEFINE r == [i \in 0 .. n |-> fold[1 .. i]]
<1>6. r[0] = base /\ r[n] = fold[1 .. n]
  BY <1>4
<1>7. ASSUME NEW i \in 1 .. n PROVE r[i] = LookAt(r[i - 1], seq[i], addr)
  <2>1. fold[1 .. i] = LookAt(fold[1 .. (i - 1)], seq[i], addr)
    <3>1. /\ 1 .. i \in SUBSET (1 .. n) /\ 1 .. i # {}
          /\ Max(1 .. i) = i /\ (1 .. i) \ {i} = 1 .. (i - 1)
      BY FoldTurns
    <3> QED
      BY <1>4, <3>1
  <2> QED
    BY <2>1
<1> HIDE DEF r
<1>8. \A i \in 0 .. n : r[i] \in Found
  <2> DEFINE typed == {i \in 0 .. n : r[i] \in Found}
  <2>1. 0 \in typed
    BY <1>6
  <2>2. ASSUME NEW i \in 0 .. (n - 1), i \in typed PROVE i + 1 \in typed
    <3>1. i + 1 \in 1 .. n /\ (i + 1) - 1 = i
      OBVIOUS
    <3>2. r[i + 1] = LookAt(r[i], seq[i + 1], addr)
      BY <1>7, <3>1
    <3> QED
      BY <2>2, <3>1, <3>2, LookAtType
  <2> HIDE DEF typed
  <2>3. \A i \in 0 .. n : i \in typed
    BY <2>1, <2>2, LoopInduction
  <2> QED
    BY <2>3 DEF typed
<1>9. r \in [0 .. n -> Found]
  BY <1>8 DEF r
<1>10. Searches(base, seq, addr, n, r)
  BY <1>5, <1>6, <1>7 DEF Searches
<1> QED
  BY <1>9, <1>10

--------------------------------------------------------------------------------
(* The fields of a port in order of address.                                  *)

\* Fields the order tells apart.
Apart(fields) ==
    /\ fields \in SUBSET Field /\ IsFiniteSet(fields)
    /\ \A f, g \in fields : f # g => Compatible(f, g)

LEMMA FieldTypes ==
    ASSUME NEW f \in Field
    PROVE  /\ f.base_addr \in Nat /\ f.bit_base \in Nat /\ f.n_regs \in Nat /\ f.n_regs >= 1
           /\ End(f) \in Nat /\ End(f) = f.base_addr + f.n_regs /\ f.base_addr < End(f)
           /\ f.f_type = "BitField" => f.n_regs = 1
           /\ f.f_type \in {"BitField", "RAM", "FIFO"}
BY DEF Field, End

\* Fields that share no bits are in order, one way or the other.
LEMMA InOrder ==
    ASSUME NEW f \in Field, NEW g \in Field, Compatible(f, g)
    PROVE  FieldLess(f, g) \/ FieldLess(g, f)
BY FieldTypes DEF Compatible, FieldLess

\* A field that is first.
LEMMA FirstField ==
    ASSUME NEW fields, Apart(fields), fields # {}
    PROVE  \E f \in fields : \A g \in fields : g # f => FieldLess(f, g)
<1>0. \A f \in fields : f \in Field /\ f.base_addr \in Nat /\ f.bit_base \in Nat
  BY FieldTypes DEF Apart
<1> DEFINE bases == {f.base_addr : f \in fields}
<1>1. bases \in SUBSET Nat /\ bases # {}
  BY <1>0
<1>2. PICK b \in bases : \A c \in bases : b <= c
  BY <1>1, LeastElement
<1> DEFINE lowest == {f \in fields : f.base_addr = b}
           bits == {f.bit_base : f \in lowest}
<1>3. bits \in SUBSET Nat /\ bits # {}
  BY <1>0, <1>2
<1>4. PICK bit \in bits : \A c \in bits : bit <= c
  BY <1>3, LeastElement
<1>5. PICK f \in lowest : f.bit_base = bit
  BY <1>4
<1>6. ASSUME NEW g \in fields, g # f PROVE FieldLess(f, g)
  <2>1. Compatible(f, g) /\ f \in fields /\ f \in Field /\ g \in Field
    BY <1>0, <1>6 DEF Apart
  <2>2. FieldLess(f, g) \/ FieldLess(g, f)
    BY <2>1, InOrder
  <2>3. b \in Nat /\ f.base_addr = b /\ b <= g.base_addr
    BY <1>0, <1>2
  <2>4. g.base_addr = b => f.bit_base <= g.bit_base
    BY <1>4, <1>5
  <2> QED
    BY <1>0, <2>1, <2>2, <2>3, <2>4 DEF FieldLess
<1> QED
  BY <1>5, <1>6

LEMMA LessIsStrict ==
    ASSUME NEW f \in Field, NEW g \in Field, FieldLess(f, g)
    PROVE  f # g /\ ~FieldLess(g, f)
BY FieldTypes DEF FieldLess

\* s lists the fields by address.
Lists(s, fields) ==
    /\ s \in SetToSeqs(fields)
    /\ \A i, j \in 1 .. Cardinality(fields) : i < j => ~FieldLess(s[j], s[i])

LEMMA ListExists ==
    ASSUME NEW fields, Apart(fields)
    PROVE  \E s : Lists(s, fields)
<1> DEFINE Listed(F) == \E s : Lists(s, F)
           listable == {n \in Nat : \A F \in SUBSET fields : Cardinality(F) = n => Listed(F)}
<1>1. \A F \in SUBSET fields : Apart(F) /\ Cardinality(F) \in Nat
  <2> TAKE F \in SUBSET fields
  <2>1. IsFiniteSet(F)
    BY FS_Subset DEF Apart
  <2> QED
    BY <2>1, FS_CardinalityType DEF Apart
<1>2. 0 \in listable
  <2>1. ASSUME NEW F \in SUBSET fields, Cardinality(F) = 0 PROVE Lists([i \in 1 .. 0 |-> 0], F)
    BY <2>1 DEF Lists, SetToSeqs
  <2> QED
    BY <2>1
<1>3. ASSUME NEW n \in Nat, n \in listable, NEW F \in SUBSET fields, Cardinality(F) = n + 1
      PROVE  Listed(F)
  <2>1. Apart(F) /\ F # {}
    BY <1>1, <1>3, FS_EmptySet DEF Apart
  <2>2. PICK f \in F : \A g \in F : g # f => FieldLess(f, g)
    BY <2>1, FirstField
  <2> DEFINE G == F \ {f}
  <2>3. G \in SUBSET fields /\ Cardinality(G) = n
    <3>1. IsFiniteSet(F)
      BY <2>1 DEF Apart
    <3>2. Cardinality(F \ {f}) = Cardinality(F) - 1
      BY <3>1, FS_RemoveElement
    <3> QED
      BY <1>3, <3>2
  <2> HIDE DEF G
  <2>4. PICK t : Lists(t, G)
    BY <1>3, <2>3
  <2>5. /\ t \in [1 .. n -> G] /\ \A i, j \in 1 .. n : i # j => t[i] # t[j]
        /\ \A i, j \in 1 .. n : i < j => ~FieldLess(t[j], t[i])
    BY <2>3, <2>4 DEF Lists, SetToSeqs
  <2> DEFINE s == [i \in 1 .. (n + 1) |-> IF i = 1 THEN f ELSE t[i - 1]]
  <2>6. \A i \in 1 .. (n + 1) : i # 1 => i - 1 \in 1 .. n /\ s[i] = t[i - 1] /\ s[i] \in G
    BY <2>5
  <2>7. s[1] = f /\ DOMAIN s = 1 .. (n + 1) /\ s = [i \in 1 .. (n + 1) |-> s[i]]
    OBVIOUS
  <2> HIDE DEF s
  <2>8. \A g \in G : g \in F /\ g # f /\ g \in Field /\ f \in Field
    BY <2>1, <2>2 DEF G, Apart
  <2>9. s \in [1 .. (n + 1) -> F]
    <3>1. \A i \in 1 .. (n + 1) : s[i] \in F
      BY <2>6, <2>7, <2>8
    <3> QED
      BY <2>7, <3>1
  <2>10. ASSUME NEW i \in 1 .. (n + 1), NEW j \in 1 .. (n + 1), i < j
         PROVE  s[i] # s[j] /\ ~FieldLess(s[j], s[i])
    <3>1. j # 1 /\ j - 1 \in 1 .. n /\ s[j] = t[j - 1] /\ s[j] \in G
      BY <2>6, <2>10
    <3>2. CASE i = 1
      <4>1. FieldLess(f, s[j]) /\ f # s[j] /\ f \in Field /\ s[j] \in Field
        BY <2>2, <2>8, <3>1
      <4> QED
        BY <2>7, <3>2, <4>1, LessIsStrict
    <3>3. CASE i # 1
      <4>1. i - 1 \in 1 .. n /\ s[i] = t[i - 1] /\ i - 1 < j - 1
        BY <2>6, <2>10, <3>3
      <4> QED
        BY <2>5, <3>1, <4>1
    <3> QED
      BY <3>2, <3>3
  <2>11. \A i, j \in 1 .. (n + 1) : i # j => s[i] # s[j]
    <3> TAKE i, j \in 1 .. (n + 1)
    <3>1. i # j => i < j \/ j < i
      OBVIOUS
    <3> QED
      BY <2>10, <3>1
  <2>12. Lists(s, F)
    BY <1>3, <2>9, <2>10, <2>11 DEF Lists, SetToSeqs
  <2> QED
    BY <2>12
<1> HIDE DEF Listed
<1>4. \A n \in Nat : n \in listable => n + 1 \in listable
  BY <1>3
<1> HIDE DEF listable
<1>5. \A n \in Nat : n \in listable
  BY <1>2, <1>4, Induction
<1>6. fields \in SUBSET fields
  OBVIOUS
<1>7. Listed(fields)
  BY <1>1, <1>5, <1>6 DEF listable
<1> QED
  BY <1>7 DEF Listed

\* The list the program keeps: all fields, each once, in order of address.  One
\* starts where another ends or later, or both are bitfields of one register.
LEMMA AddressOrder ==
    ASSUME NEW fields, Apart(fields)
    PROVE  LET n == Cardinality(fields)
               s == InAddressOrder(fields)
           IN  /\ n \in Nat /\ s \in [1 .. n -> Field]
               /\ \A i \in 1 .. n : s[i] \in fields
               /\ \A f \in fields : \E i \in 1 .. n : s[i] = f
               /\ \A i, j \in 1 .. n : i < j =>
                    \/ End(s[i]) <= s[j].base_addr
                    \/ /\ s[i].base_addr = s[j].base_addr /\ End(s[i]) = End(s[j])
                       /\ s[i].f_type = "BitField" /\ s[j].f_type = "BitField"
<1> DEFINE n == Cardinality(fields)
           s == InAddressOrder(fields)
<1>1. n \in Nat /\ IsFiniteSet(fields)
  BY FS_CardinalityType DEF Apart
<1>2. Lists(s, fields)
  <2>1. PICK t : Lists(t, fields)
    BY ListExists
  <2>2. t \in SetToSeqs(fields) /\ \A i, j \in 1 .. n : i < j => ~FieldLess(t[j], t[i])
    BY <2>1 DEF Lists
  <2> QED
    BY <2>2 DEF Lists, InAddressOrder
<1> HIDE DEF s
<1>3. s \in [1 .. n -> fields] /\ \A i, j \in 1 .. n : i # j => s[i] # s[j]
  BY <1>2 DEF Lists, SetToSeqs
<1>4. \A f \in fields : \E i \in 1 .. n : s[i] = f
  <2>1. IsFiniteSet(1 .. n) /\ Cardinality(1 .. n) = n
    BY <1>1, FS_Interval
  <2>2. s \in Injection(1 .. n, fields)
    BY <1>3 DEF Injection, IsInjective
  <2>3. s \in Surjection(1 .. n, fields)
    BY <1>1, <2>1, <2>2, FS_Injection
  <2> QED
    BY <2>3 DEF Surjection
<1>5. \A f \in fields : f \in Field
  BY DEF Apart
<1>6. ASSUME NEW i \in 1 .. n, NEW j \in 1 .. n, i < j
      PROVE  \/ End(s[i]) <= s[j].base_addr
             \/ /\ s[i].base_addr = s[j].base_addr /\ End(s[i]) = End(s[j])
                /\ s[i].f_type = "BitField" /\ s[j].f_type = "BitField"
  <2>1. s[i] \in Field /\ s[j] \in Field /\ Compatible(s[i], s[j])
    BY <1>3, <1>5, <1>6 DEF Apart
  <2>2. ~FieldLess(s[j], s[i])
    BY <1>2, <1>6 DEF Lists
  <2> QED
    BY <2>1, <2>2, FieldTypes DEF FieldLess, Compatible
<1>7. s \in [1 .. n -> Field] /\ \A i \in 1 .. n : s[i] \in fields
  BY <1>3, <1>5
<1> QED
  BY <1>1, <1>4, <1>6, <1>7 DEF s

--------------------------------------------------------------------------------
(* The blocks of a port.                                                      *)

\* Blocks that follow each other from start to stop, registers and holes in turn,
\* registers first and last.
Chain(blocks, start, stop) ==
    /\ \A i \in 1 .. Len(blocks) :
        /\ blocks[i].len > 0
        /\ start <= blocks[i].base /\ blocks[i].base + blocks[i].len <= stop
    /\ ~blocks[1].is_hole /\ blocks[1].base = start
    /\ LET last == blocks[Len(blocks)]
       IN  ~last.is_hole /\ last.base + last.len = stop
    /\ \A i \in 1 .. (Len(blocks) - 1) :
        /\ blocks[i + 1].base = blocks[i].base + blocks[i].len
        /\ ~(blocks[i + 1].is_hole <=> blocks[i].is_hole)

\* Is register addr read?
Reads(blocks, addr) ==
    \E i \in 1 .. Len(blocks) :
        /\ ~blocks[i].is_hole
        /\ blocks[i].base <= addr /\ addr < blocks[i].base + blocks[i].len

Closed(run) == Append(run.blocks, Block(run.base, run.len, FALSE))

LEMMA ClosedIs ==
    ASSUME NEW run \in Run
    PROVE  /\ Closed(run) \in Seq(BlockRec) /\ Len(Closed(run)) = Len(run.blocks) + 1
           /\ Len(run.blocks) \in Nat
           /\ \A i \in 1 .. Len(run.blocks) : Closed(run)[i] = run.blocks[i]
           /\ Closed(run)[Len(run.blocks) + 1] = Block(run.base, run.len, FALSE)
<1>1. run.blocks \in Seq(BlockRec) /\ run.base \in Nat /\ run.len \in Nat
  BY DEF Run
<1>2. Block(run.base, run.len, FALSE) \in BlockRec
  BY ONLY <1>1 DEF Block, BlockRec
<1> DEFINE b == Block(run.base, run.len, FALSE)
<1>3. /\ Append(run.blocks, b) \in Seq(BlockRec)
      /\ Len(Append(run.blocks, b)) = Len(run.blocks) + 1
      /\ \A i \in 1 .. Len(run.blocks) : Append(run.blocks, b)[i] = run.blocks[i]
      /\ Append(run.blocks, b)[Len(run.blocks) + 1] = b
  <2> HIDE DEF b
  <2>1. b \in BlockRec
    BY <1>2 DEF b
  <2> QED
    BY <1>1, <2>1, AppendProperties
<1>4. Len(run.blocks) \in Nat
  BY <1>1, LenProperties
<1> QED
  BY <1>3, <1>4 DEF Closed

\* One register more.
LEMMA LongerChain ==
    ASSUME NEW run \in Run, NEW start \in Nat, NEW stop \in Nat, NEW k \in Nat, k > 0,
           Chain(Closed(run), start, stop), NEW longer \in Run,
           longer.blocks = run.blocks, longer.base = run.base, longer.len = run.len + k
    PROVE  /\ Chain(Closed(longer), start, stop + k)
           /\ \A addr \in Nat : Reads(Closed(longer), addr) <=>
                \/ Reads(Closed(run), addr)
                \/ stop <= addr /\ addr < stop + k
<1> DEFINE c == Closed(run)
           d == Closed(longer)
           m == Len(run.blocks)
<1>1. /\ m \in Nat /\ Len(c) = m + 1 /\ Len(d) = m + 1
      /\ \A i \in 1 .. m : c[i] = d[i]
      /\ c \in Seq(BlockRec) /\ d \in Seq(BlockRec)
  BY ClosedIs
<1>2. /\ c[m + 1].base = run.base /\ c[m + 1].len = run.len /\ ~c[m + 1].is_hole
      /\ d[m + 1].base = run.base /\ d[m + 1].len = run.len + k /\ ~d[m + 1].is_hole
      /\ run.base \in Nat /\ run.len \in Nat
  <2>1. run.base \in Nat /\ run.len \in Nat /\ longer.base \in Nat /\ longer.len \in Nat
    BY DEF Run
  <2>2. c[m + 1] = Block(run.base, run.len, FALSE)
    BY ClosedIs
  <2>3. d[m + 1] = Block(longer.base, longer.len, FALSE)
    BY ClosedIs
  <2> HIDE DEF c, d
  <2>4. /\ c[m + 1].base = run.base /\ c[m + 1].len = run.len /\ ~c[m + 1].is_hole
        /\ d[m + 1].base = longer.base /\ d[m + 1].len = longer.len /\ ~d[m + 1].is_hole
    BY <2>2, <2>3 DEF Block
  <2> QED
    BY <2>1, <2>4
<1>3. \A i \in 1 .. m + 1 : c[i].base \in Nat /\ c[i].len \in Nat
  <2>1. \A i \in 1 .. m + 1 : c[i] \in BlockRec
    BY <1>1, ElementOfSeq
  <2> QED
    BY <2>1 DEF BlockRec
<1> HIDE DEF c, d, m
<1>4. run.base + run.len = stop
  BY <1>1, <1>2 DEF Chain, c
<1>5. Chain(c, start, stop)
  BY DEF c
<1>6. Chain(d, start, stop + k)
  <2>1. \A i \in 1 .. m + 1 : i # m + 1 => i \in 1 .. m
    BY <1>1
  <2>2. \A i \in 1 .. m + 1 : /\ d[i].base = c[i].base /\ (d[i].is_hole <=> c[i].is_hole)
                              /\ i # m + 1 => d[i].len = c[i].len
    <3> TAKE i \in 1 .. m + 1
    <3>1. CASE i = m + 1
      BY <1>2, <3>1
    <3>2. CASE i # m + 1
      BY <1>1, <2>1, <3>2
    <3> QED
      BY <3>1, <3>2
  <2>3. \A i \in 1 .. m + 1 : /\ d[i].len > 0 /\ start <= d[i].base
                              /\ d[i].base + d[i].len <= stop + k
    <3> TAKE i \in 1 .. m + 1
    <3>1. /\ c[i].len > 0 /\ start <= c[i].base /\ c[i].base + c[i].len <= stop
          /\ c[i].base \in Nat /\ c[i].len \in Nat
      BY <1>1, <1>3, <1>5 DEF Chain
    <3>2. CASE i = m + 1
      BY <1>2, <1>4, <3>1, <3>2
    <3>3. CASE i # m + 1
      BY <2>2, <3>1, <3>3
    <3> QED
      BY <3>2, <3>3
  <2>4. ~d[1].is_hole /\ d[1].base = start
    BY <1>1, <1>5, <2>2 DEF Chain
  <2>5. ~d[m + 1].is_hole /\ d[m + 1].base + d[m + 1].len = stop + k
    BY <1>2, <1>4
  <2>6. \A i \in 1 .. m : /\ d[i + 1].base = d[i].base + d[i].len
                          /\ ~(d[i + 1].is_hole <=> d[i].is_hole)
    <3> TAKE i \in 1 .. m
    <3>1. i + 1 \in 1 .. m + 1 /\ i \in 1 .. m + 1 /\ i # m + 1 /\ m = Len(c) - 1
      BY <1>1
    <3>2. c[i + 1].base = c[i].base + c[i].len /\ ~(c[i + 1].is_hole <=> c[i].is_hole)
      BY <1>5, <3>1 DEF Chain
    <3> QED
      BY <2>2, <3>1, <3>2
  <2> QED
    BY <1>1, <2>3, <2>4, <2>5, <2>6 DEF Chain
<1>7. ASSUME NEW addr \in Nat
      PROVE  Reads(d, addr) <=> Reads(c, addr) \/ (stop <= addr /\ addr < stop + k)
  <2>1. \A i \in 1 .. m + 1 : i # m + 1 => d[i] = c[i]
    BY <1>1
  <2>2. stop > run.base /\ m + 1 \in 1 .. m + 1
    BY <1>1, <1>2, <1>4, <1>5 DEF Chain
  <2>3. ASSUME Reads(d, addr) PROVE Reads(c, addr) \/ (stop <= addr /\ addr < stop + k)
    <3>1. PICK i \in 1 .. m + 1 : /\ ~d[i].is_hole
                                  /\ d[i].base <= addr /\ addr < d[i].base + d[i].len
      BY <1>1, <2>3 DEF Reads
    <3>2. CASE i # m + 1
      <4>1. ~c[i].is_hole /\ c[i].base <= addr /\ addr < c[i].base + c[i].len
        BY ONLY <2>1, <3>1, <3>2
      <4> QED
        BY ONLY <1>1, <3>1, <4>1 DEF Reads
    <3>3. CASE i = m + 1
      <4>1. run.base <= addr /\ addr < run.base + (run.len + k)
        BY ONLY <1>2, <3>1, <3>3
      <4>2. CASE stop <= addr
        <5>1. run.base + (run.len + k) = stop + k
          BY <1>2, <1>4
        <5> QED
          BY ONLY <4>1, <4>2, <5>1
      <4>3. CASE ~(stop <= addr)
        <5>1. addr < run.base + run.len
          BY <1>4, <4>3
        <5>2. ~c[m + 1].is_hole /\ c[m + 1].base <= addr /\ addr < c[m + 1].base + c[m + 1].len
          BY ONLY <1>2, <4>1, <5>1
        <5> QED
          BY ONLY <1>1, <2>2, <5>2 DEF Reads
      <4> QED
        BY <4>2, <4>3
    <3> QED
      BY <3>2, <3>3
  <2>4. ASSUME Reads(c, addr) PROVE Reads(d, addr)
    <3>1. PICK i \in 1 .. m + 1 : /\ ~c[i].is_hole
                                  /\ c[i].base <= addr /\ addr < c[i].base + c[i].len
      BY <1>1, <2>4 DEF Reads
    <3>2. CASE i = m + 1
      <4>1. /\ ~d[m + 1].is_hole
            /\ d[m + 1].base <= addr /\ addr < d[m + 1].base + d[m + 1].len
        BY <1>2, <3>1, <3>2
      <4> QED
        BY ONLY <1>1, <2>2, <4>1 DEF Reads
    <3>3. CASE i # m + 1
      <4>1. ~d[i].is_hole /\ d[i].base <= addr /\ addr < d[i].base + d[i].len
        BY ONLY <2>1, <3>1, <3>3
      <4> QED
        BY ONLY <1>1, <3>1, <4>1 DEF Reads
    <3> QED
      BY <3>2, <3>3
  <2>5. ASSUME stop <= addr, addr < stop + k PROVE Reads(d, addr)
    <3>1. run.base <= addr /\ addr < run.base + (run.len + k)
      BY <1>2, <1>4, <2>5
    <3>2. /\ ~d[m + 1].is_hole
          /\ d[m + 1].base <= addr /\ addr < d[m + 1].base + d[m + 1].len
      BY ONLY <1>2, <3>1
    <3> QED
      BY ONLY <1>1, <2>2, <3>2 DEF Reads
  <2> QED
    BY <2>3, <2>4, <2>5
<1> QED
  BY <1>6, <1>7 DEF c, d

\* A hole of h registers, and k registers behind it.
LEMMA ChainAfterHole ==
    ASSUME NEW run \in Run, NEW start \in Nat, NEW stop \in Nat,
           NEW h \in Nat, h > 0, NEW k \in Nat, k > 0,
           Chain(Closed(run), start, stop), NEW after \in Run,
           after.blocks = run.blocks \o <<Block(run.base, run.len, FALSE), Block(stop, h, TRUE)>>,
           after.base = stop + h, after.len = k
    PROVE  /\ Chain(Closed(after), start, stop + h + k)
           /\ \A addr \in Nat : Reads(Closed(after), addr) <=>
                \/ Reads(Closed(run), addr)
                \/ stop + h <= addr /\ addr < stop + h + k
<1> DEFINE c == Closed(run)
           d == Closed(after)
           m == Len(run.blocks)
<1>1. /\ m \in Nat /\ Len(c) = m + 1 /\ c \in Seq(BlockRec)
      /\ \A i \in 1 .. m : c[i] = run.blocks[i]
      /\ c[m + 1] = Block(run.base, run.len, FALSE)
  BY ClosedIs
<1>2. /\ Block(run.base, run.len, FALSE) \in BlockRec /\ Block(stop, h, TRUE) \in BlockRec
      /\ Block(stop, h, TRUE).base = stop /\ Block(stop, h, TRUE).len = h
      /\ Block(stop, h, TRUE).is_hole
      /\ Block(stop + h, k, FALSE).base = stop + h /\ Block(stop + h, k, FALSE).len = k
      /\ ~Block(stop + h, k, FALSE).is_hole
  <2>1. run.base \in Nat /\ run.len \in Nat /\ stop + h \in Nat
    BY DEF Run
  <2>2. /\ Block(run.base, run.len, FALSE) \in BlockRec /\ Block(stop, h, TRUE) \in BlockRec
        /\ Block(stop, h, TRUE).base = stop /\ Block(stop, h, TRUE).len = h
        /\ Block(stop, h, TRUE).is_hole
    <3>1. Block(run.base, run.len, FALSE) \in BlockRec
      BY ONLY <2>1 DEF Block, BlockRec
    <3>2. Block(stop, h, TRUE) \in BlockRec
      BY ONLY stop \in Nat, h \in Nat DEF Block, BlockRec
    <3>3. /\ Block(stop, h, TRUE).base = stop /\ Block(stop, h, TRUE).len = h
          /\ Block(stop, h, TRUE).is_hole
      BY ONLY DEF Block
    <3> QED
      BY ONLY <3>1, <3>2, <3>3
  <2>3. /\ Block(stop + h, k, FALSE).base = stop + h /\ Block(stop + h, k, FALSE).len = k
        /\ ~Block(stop + h, k, FALSE).is_hole
    BY DEF Block
  <2> QED
    BY <2>2, <2>3
<1>3. /\ Len(after.blocks) = m + 2
      /\ \A i \in 1 .. m : after.blocks[i] = run.blocks[i]
      /\ after.blocks[m + 1] = Block(run.base, run.len, FALSE)
      /\ after.blocks[m + 2] = Block(stop, h, TRUE)
  <2> DEFINE more == <<Block(run.base, run.len, FALSE), Block(stop, h, TRUE)>>
  <2>1. run.blocks \in Seq(BlockRec) /\ more \in Seq(BlockRec)
    <3>1. \A a, b \in BlockRec : <<a, b>> \in Seq(BlockRec)
      OBVIOUS
    <3> QED
      BY <1>2, <3>1 DEF Run
  <2>2. Len(more) = 2 /\ more[1] = Block(run.base, run.len, FALSE) /\ more[2] = Block(stop, h, TRUE)
    OBVIOUS
  <2> HIDE DEF more
  <2>3. /\ Len(run.blocks \o more) = m + 2
        /\ \A i \in 1 .. m + 2 :
            (run.blocks \o more)[i] = IF i <= m THEN run.blocks[i] ELSE more[i - m]
    <3>1. /\ Len(run.blocks \o more) = Len(run.blocks) + Len(more)
          /\ \A i \in 1 .. Len(run.blocks) + Len(more) :
                (run.blocks \o more)[i] =
                    IF i <= Len(run.blocks) THEN run.blocks[i] ELSE more[i - Len(run.blocks)]
      BY <2>1, ConcatProperties
    <3> QED
      BY <2>2, <3>1
  <2>4. after.blocks = run.blocks \o more
    BY DEF more
  <2>5. /\ m + 1 \in 1 .. m + 2 /\ ~(m + 1 <= m) /\ (m + 1) - m = 1
        /\ m + 2 \in 1 .. m + 2 /\ ~(m + 2 <= m) /\ (m + 2) - m = 2
        /\ \A i \in 1 .. m : i \in 1 .. m + 2 /\ i <= m
    BY <1>1
  <2> HIDE DEF m
  <2> QED
    BY <2>2, <2>3, <2>4, <2>5
<1>4. /\ Len(d) = m + 3 /\ d \in Seq(BlockRec)
      /\ \A i \in 1 .. m + 1 : d[i] = c[i]
      /\ d[m + 2] = Block(stop, h, TRUE) /\ d[m + 3] = Block(stop + h, k, FALSE)
  <2>1. /\ Len(d) = (m + 2) + 1 /\ d \in Seq(BlockRec)
        /\ \A i \in 1 .. m + 2 : d[i] = after.blocks[i]
        /\ d[(m + 2) + 1] = Block(stop + h, k, FALSE)
    BY <1>3, ClosedIs
  <2>2. /\ (m + 2) + 1 = m + 3 /\ m + 2 \in 1 .. m + 2
        /\ \A i \in 1 .. m + 1 : i \in 1 .. m + 2 /\ (i \in 1 .. m \/ i = m + 1)
    BY <1>1
  <2> HIDE DEF m, c, d
  <2> QED
    BY <1>1, <1>3, <2>1, <2>2
<1>5. Chain(c, start, stop)
  OBVIOUS
<1> HIDE DEF c, d, m
<1>6. \A i \in 1 .. m + 1 : c[i].base \in Nat /\ c[i].len \in Nat
  <2>1. \A i \in 1 .. m + 1 : c[i] \in BlockRec
    BY <1>1, ElementOfSeq
  <2> QED
    BY <2>1 DEF BlockRec
<1>7. \A i \in 1 .. m + 3 : i \in 1 .. m + 1 \/ i = m + 2 \/ i = m + 3
  BY <1>1
<1>8. start < stop
  <2>1. m + 1 \in 1 .. m + 1
    BY <1>1
  <2>2. start <= c[m + 1].base /\ c[m + 1].len > 0 /\ c[m + 1].base + c[m + 1].len <= stop
    BY <1>1, <1>5, <2>1 DEF Chain
  <2>3. c[m + 1].base \in Nat /\ c[m + 1].len \in Nat
    BY <1>6, <2>1
  <2> QED
    BY <2>2, <2>3
<1>9. Chain(d, start, stop + h + k)
  <2>1. \A i \in 1 .. m + 3 : /\ d[i].len > 0 /\ start <= d[i].base
                              /\ d[i].base + d[i].len <= stop + h + k
    <3>1. \A i \in 1 .. m + 1 : d[i].len > 0 /\ start <= d[i].base /\ d[i].base + d[i].len <= stop
                                /\ d[i].base \in Nat /\ d[i].len \in Nat
      BY <1>1, <1>4, <1>5, <1>6 DEF Chain
    <3>2. d[m + 2].len = h /\ d[m + 2].base = stop /\ d[m + 3].len = k /\ d[m + 3].base = stop + h
      BY <1>2, <1>4
    <3>3. \A i \in 1 .. m + 1 : d[i].base + d[i].len <= stop + h + k
      BY <3>1
    <3> TAKE i \in 1 .. m + 3
    <3>4. CASE i \in 1 .. m + 1
      BY <3>1, <3>3, <3>4
    <3>5. CASE i = m + 2
      BY <1>8, <3>2, <3>5
    <3>6. CASE i = m + 3
      BY <1>8, <3>2, <3>6
    <3> QED
      BY <1>7, <3>4, <3>5, <3>6
  <2>2. ~d[1].is_hole /\ d[1].base = start
    BY <1>1, <1>4, <1>5 DEF Chain
  <2>3. ~d[m + 3].is_hole /\ d[m + 3].base + d[m + 3].len = stop + h + k
    BY <1>2, <1>4
  <2>4. \A i \in 1 .. m + 2 : /\ d[i + 1].base = d[i].base + d[i].len
                              /\ ~(d[i + 1].is_hole <=> d[i].is_hole)
    <3> TAKE i \in 1 .. m + 2
    <3>1. CASE i \in 1 .. m
      <4>1. c[i + 1].base = c[i].base + c[i].len /\ ~(c[i + 1].is_hole <=> c[i].is_hole)
        BY <1>1, <1>5, <3>1 DEF Chain
      <4>2. i \in 1 .. m + 1 /\ i + 1 \in 1 .. m + 1
        BY <1>1, <3>1
      <4> QED
        BY <1>4, <4>1, <4>2
    <3>2. CASE i = m + 1
      <4>1. c[m + 1].base + c[m + 1].len = stop /\ ~c[m + 1].is_hole
        BY <1>1, <1>5 DEF Chain
      <4>2. d[m + 1] = c[m + 1] /\ i + 1 = m + 2
        <5>1. m + 1 \in 1 .. m + 1
          BY <1>1
        <5>2. d[m + 1] = c[m + 1]
          BY <1>4, <5>1
        <5> QED
          BY <1>1, <3>2, <5>2
      <4> QED
        BY <1>2, <1>4, <3>2, <4>1, <4>2
    <3>3. CASE i = m + 2
      <4>1. i + 1 = m + 3
        BY <1>1, <3>3
      <4> QED
        BY <1>2, <1>4, <3>3, <4>1
    <3> QED
      BY <1>1, <3>1, <3>2, <3>3
  <2>5. Len(d) - 1 = m + 2
    BY <1>1, <1>4
  <2> QED
    BY <1>4, <2>1, <2>2, <2>3, <2>4, <2>5 DEF Chain
<1>10. ASSUME NEW addr \in Nat
       PROVE  Reads(d, addr) <=> Reads(c, addr) \/ (stop + h <= addr /\ addr < stop + h + k)
  <2>1. ASSUME Reads(d, addr) PROVE Reads(c, addr) \/ (stop + h <= addr /\ addr < stop + h + k)
    <3>1. PICK i \in 1 .. m + 3 : /\ ~d[i].is_hole
                                  /\ d[i].base <= addr /\ addr < d[i].base + d[i].len
      BY <1>4, <2>1 DEF Reads
    <3>2. CASE i \in 1 .. m + 1
      BY <1>1, <1>4, <3>1, <3>2 DEF Reads
    <3>3. CASE i = m + 2
      BY <1>2, <1>4, <3>1, <3>3
    <3>4. CASE i = m + 3
      BY <1>2, <1>4, <3>1, <3>4
    <3> QED
      BY <1>7, <3>2, <3>3, <3>4
  <2>2. ASSUME Reads(c, addr) PROVE Reads(d, addr)
    <3>1. PICK i \in 1 .. m + 1 : /\ ~c[i].is_hole
                                  /\ c[i].base <= addr /\ addr < c[i].base + c[i].len
      BY <1>1, <2>2 DEF Reads
    <3>2. i \in 1 .. m + 3 /\ d[i] = c[i]
      BY <1>1, <1>4
    <3> QED
      BY <1>4, <3>1, <3>2 DEF Reads
  <2>3. ASSUME stop + h <= addr, addr < stop + h + k PROVE Reads(d, addr)
    <3>1. m + 3 \in 1 .. m + 3
      BY <1>1
    <3> QED
      BY <1>2, <1>4, <2>3, <3>1 DEF Reads
  <2> QED
    BY <2>1, <2>2, <2>3
<1> QED
  BY <1>9, <1>10 DEF c, d

\* One turn of the loop: the blocks so far end where the last field ends, and are
\* the registers of the fields so far.
LEMMA AddToRunKeeps ==
    ASSUME NEW run \in Run, NEW start \in Nat, NEW e \in Field, NEW f \in Field,
           Chain(Closed(run), start, End(e)), run.base + run.len = End(e), run.len > 0,
           \/ End(e) <= f.base_addr
           \/ e.base_addr = f.base_addr /\ End(e) = End(f)
    PROVE  LET next == AddToRun(run, f)
           IN  /\ next \in Run /\ Chain(Closed(next), start, End(f))
               /\ next.base + next.len = End(f) /\ next.len > 0
               /\ \A addr \in Nat : Reads(Closed(next), addr) <=>
                    \/ Reads(Closed(run), addr)
                    \/ addr >= f.base_addr /\ addr < End(f) /\ End(e) <= f.base_addr
<1> DEFINE next == AddToRun(run, f)
           stop == End(e)
<1>1. /\ e.base_addr \in Nat /\ e.base_addr < stop /\ stop \in Nat
      /\ f.base_addr \in Nat /\ f.n_regs \in Nat /\ f.n_regs > 0
      /\ End(f) \in Nat /\ End(f) = f.base_addr + f.n_regs
  BY FieldTypes
<1>2. run.base \in Nat /\ run.len \in Nat /\ next \in Run
  BY AddToRunType DEF Run
<1>3. CASE f.base_addr < stop
  <2>1. next = run
    BY <1>3 DEF AddToRun
  <2>2. stop = End(f) /\ ~(stop <= f.base_addr)
    BY <1>1, <1>3
  <2> QED
    BY <1>2, <2>1, <2>2
<1>4. CASE f.base_addr = stop
  <2>1. next = [run EXCEPT !.len = @ + f.n_regs]
    BY <1>1, <1>2, <1>4 DEF AddToRun
  <2>2. next.blocks = run.blocks /\ next.base = run.base /\ next.len = run.len + f.n_regs
    BY <2>1 DEF Run
  <2>3. End(f) = stop + f.n_regs
    BY <1>1, <1>4
  <2> HIDE DEF next
  <2>4. /\ Chain(Closed(next), start, stop + f.n_regs)
        /\ \A addr \in Nat : Reads(Closed(next), addr) <=>
                \/ Reads(Closed(run), addr)
                \/ stop <= addr /\ addr < stop + f.n_regs
    BY <1>1, <1>2, <2>2, LongerChain
  <2>5. next.base + next.len = End(f) /\ next.len > 0
    BY <1>1, <1>2, <2>2, <2>3
  <2> HIDE DEF stop
  <2>6. \A addr \in Nat : stop <= addr /\ addr < stop + f.n_regs
                            <=> addr >= f.base_addr /\ addr < End(f) /\ stop <= f.base_addr
    BY <1>1, <1>4, <2>3
  <2>7. \A addr \in Nat : Reads(Closed(next), addr) <=>
                \/ Reads(Closed(run), addr)
                \/ addr >= f.base_addr /\ addr < End(f) /\ stop <= f.base_addr
    BY <2>4, <2>6
  <2> QED
    BY <1>2, <2>3, <2>4, <2>5, <2>7 DEF stop, next
<1>5. CASE f.base_addr > stop
  <2> DEFINE h == f.base_addr - stop
  <2>1. h \in Nat /\ h > 0 /\ stop + h = f.base_addr /\ stop + h + f.n_regs = End(f)
    BY <1>1, <1>5
  <2>2. next = [blocks |-> run.blocks \o <<Block(run.base, run.len, FALSE), Block(stop, h, TRUE)>>,
                base |-> f.base_addr, len |-> f.n_regs]
    <3> DEFINE t == run.base + run.len
    <3>1. t = stop /\ ~(f.base_addr < t) /\ f.base_addr # t
      BY <1>1, <1>5
    <3>2. next = [blocks |-> run.blocks \o <<Block(run.base, run.len, FALSE),
                                            Block(t, f.base_addr - t, TRUE)>>,
                  base |-> f.base_addr, len |-> f.n_regs]
      BY <3>1 DEF AddToRun
    <3> HIDE DEF t, stop, next
    <3> QED
      BY <3>1, <3>2
  <2> HIDE DEF next, h, stop
  <2>3. /\ next.blocks = run.blocks \o <<Block(run.base, run.len, FALSE), Block(stop, h, TRUE)>>
        /\ next.base = stop + h /\ next.len = f.n_regs
    BY <2>1, <2>2
  <2>4. Chain(Closed(run), start, stop)
    BY DEF stop
  <2>5. /\ Chain(Closed(next), start, stop + h + f.n_regs)
        /\ \A addr \in Nat : Reads(Closed(next), addr) <=>
                \/ Reads(Closed(run), addr)
                \/ stop + h <= addr /\ addr < stop + h + f.n_regs
    BY <1>1, <1>2, <2>1, <2>3, <2>4, ChainAfterHole
  <2>6. next.base + next.len = End(f) /\ next.len > 0
    BY <1>1, <2>1, <2>3
  <2>7. \A addr \in Nat : stop + h <= addr /\ addr < stop + h + f.n_regs
                            <=> addr >= f.base_addr /\ addr < End(f) /\ stop <= f.base_addr
    BY <1>1, <1>5, <2>1
  <2>8. \A addr \in Nat : Reads(Closed(next), addr) <=>
                \/ Reads(Closed(run), addr)
                \/ addr >= f.base_addr /\ addr < End(f) /\ stop <= f.base_addr
    BY <2>5, <2>7
  <2> QED
    BY <1>2, <2>1, <2>5, <2>6, <2>8 DEF stop, next
<1> QED
  BY <1>1, <1>3, <1>4, <1>5

\* What the blocks of a port are, at the end of the loop.
LEMMA BlocksOfPort ==
    ASSUME NEW port, Apart(port.fields), port.fields # {}, SpansFields(port),
           port.base_addr \in Nat, port.n_regs \in Nat
    PROVE  LET blocks == RegReadList(port)
           IN  /\ blocks \in Seq(BlockRec) /\ Len(blocks) \in Nat /\ Len(blocks) > 0
               /\ Chain(blocks, port.base_addr, End(port))
               /\ \A addr \in Nat : Reads(blocks, addr) <=>
                    \E f \in port.fields : f.base_addr <= addr /\ addr < End(f)
<1> DEFINE n == Cardinality(port.fields)
           s == InAddressOrder(port.fields)
           start == port.base_addr
<1>1. /\ n \in Nat /\ s \in [1 .. n -> Field]
      /\ \A i \in 1 .. n : s[i] \in port.fields
      /\ \A f \in port.fields : \E i \in 1 .. n : s[i] = f
      /\ \A i, j \in 1 .. n : i < j =>
            \/ End(s[i]) <= s[j].base_addr
            \/ /\ s[i].base_addr = s[j].base_addr /\ End(s[i]) = End(s[j])
               /\ s[i].f_type = "BitField" /\ s[j].f_type = "BitField"
  BY AddressOrder
<1> DEFINE first == [blocks |-> IF start = s[1].base_addr THEN <<>>
                                ELSE <<Block(start, s[1].base_addr - start, TRUE)>>,
                     base |-> s[1].base_addr,
                     len |-> s[1].n_regs]
           run == FoldLeft(AddToRun, first, Tail(s))
<1>2. RegReadList(port) = run.blocks \o IF run.len = 0 THEN <<>> ELSE <<Block(run.base, run.len, FALSE)>>
  BY DEF RegReadList
<1> HIDE DEF s, n, run
<1>3. n >= 1
  <2>1. PICK f \in port.fields : TRUE
    OBVIOUS
  <2> QED
    BY <1>1, <2>1
<1>4. \A i \in 1 .. n : /\ s[i] \in Field /\ s[i].base_addr \in Nat /\ s[i].n_regs \in Nat
                        /\ s[i].n_regs > 0 /\ End(s[i]) \in Nat
                        /\ End(s[i]) = s[i].base_addr + s[i].n_regs
  BY <1>1, FieldTypes
<1>5. s[1].base_addr = start
  <2>1. PICK f \in port.fields : f.base_addr = start
    BY DEF SpansFields
  <2>2. PICK i \in 1 .. n : s[i] = f
    BY <1>1
  <2>3. 1 \in 1 .. n /\ start <= s[1].base_addr
    BY <1>1, <1>3 DEF SpansFields
  <2>4. CASE i = 1
    BY <2>1, <2>2, <2>4
  <2>5. CASE 1 < i
    <3>1. End(s[1]) <= s[i].base_addr \/ s[1].base_addr = s[i].base_addr
      BY <1>1, <2>3, <2>5
    <3>2. /\ s[1].base_addr \in Nat /\ s[1].n_regs \in Nat /\ s[1].n_regs > 0
          /\ End(s[1]) = s[1].base_addr + s[1].n_regs
      BY <1>4, <2>3
    <3> QED
      BY <2>1, <2>2, <2>3, <3>1, <3>2
  <2> QED
    BY <2>4, <2>5
<1>6. End(s[n]) = End(port)
  <2>1. PICK f \in port.fields : End(f) = End(port)
    BY DEF SpansFields
  <2>2. PICK i \in 1 .. n : s[i] = f
    BY <1>1
  <2>3. n \in 1 .. n /\ End(s[n]) <= End(port)
    BY <1>1, <1>3 DEF SpansFields
  <2>4. CASE i = n
    BY <2>1, <2>2, <2>4
  <2>5. CASE i < n
    <3>1. End(s[i]) <= s[n].base_addr \/ End(s[i]) = End(s[n])
      BY <1>1, <2>3, <2>5
    <3>2. /\ s[n].base_addr \in Nat /\ s[n].n_regs \in Nat /\ s[n].n_regs > 0
          /\ End(s[n]) = s[n].base_addr + s[n].n_regs /\ End(s[i]) \in Nat
      BY <1>4, <2>3
    <3> QED
      BY <2>1, <2>2, <2>3, <3>1, <3>2
  <2> QED
    BY <1>1, <2>4, <2>5
<1>7. first = [blocks |-> <<>>, base |-> start, len |-> s[1].n_regs]
  BY <1>5
<1>8. first \in Run /\ first.base = start /\ first.len = s[1].n_regs /\ first.blocks = <<>>
  <2> HIDE DEF first
  <2>1. start \in Nat /\ s[1].n_regs \in Nat /\ <<>> \in Seq(BlockRec)
    BY <1>1, <1>3, <1>4, EmptySeq
  <2> QED
    BY <1>7, <2>1 DEF Run
<1>9. /\ Tail(s) \in [1 .. (n - 1) -> Field] /\ n - 1 \in Nat
      /\ \A i \in 1 .. (n - 1) : Tail(s)[i] = s[i + 1]
  <2>1. s \in Seq(Field) /\ Len(s) = n /\ s # <<>>
    BY <1>1, <1>3
  <2>2. /\ Tail(s) \in Seq(Field) /\ Len(Tail(s)) = n - 1
        /\ \A i \in 1 .. Len(Tail(s)) : Tail(s)[i] = s[i + 1]
    BY <2>1, HeadTailProperties
  <2>3. Tail(s) \in [1 .. Len(Tail(s)) -> Field]
    BY <2>2, LenProperties
  <2> QED
    BY <1>1, <1>3, <2>2, <2>3
<1> HIDE DEF first
<1>10. PICK r \in [0 .. (n - 1) -> Run] :
            /\ r[0] = first
            /\ \A i \in 1 .. (n - 1) : r[i] = AddToRun(r[i - 1], Tail(s)[i])
            /\ run = r[n - 1]
  BY <1>8, <1>9, RunLoop DEF run
<1> DEFINE good == {i \in 0 .. (n - 1) :
                /\ Chain(Closed(r[i]), start, End(s[i + 1]))
                /\ r[i].base + r[i].len = End(s[i + 1]) /\ r[i].len > 0
                /\ \A addr \in Nat : Reads(Closed(r[i]), addr) <=>
                    \E j \in 1 .. (i + 1) : s[j].base_addr <= addr /\ addr < End(s[j])}
<1>11. 0 \in good
  <2> DEFINE c == Closed(first)
  <2>1. /\ Len(c) = 1 /\ c[1] = Block(start, s[1].n_regs, FALSE)
    <3>1. Len(first.blocks) = 0
      BY <1>8
    <3>2. /\ Len(c) = Len(first.blocks) + 1
          /\ c[Len(first.blocks) + 1] = Block(first.base, first.len, FALSE)
      BY <1>8, ClosedIs
    <3>3. Len(first.blocks) + 1 = 1
      BY <3>1
    <3> HIDE DEF c
    <3>4. Len(c) = 1 /\ c[1] = Block(first.base, first.len, FALSE)
      BY <3>2, <3>3
    <3> QED
      BY <1>8, <3>4
  <2>2. c[1].base = start /\ c[1].len = s[1].n_regs /\ ~c[1].is_hole
    BY <2>1 DEF Block
  <2>3. /\ s[1].n_regs \in Nat /\ s[1].n_regs > 0 /\ End(s[1]) = start + s[1].n_regs
        /\ start \in Nat
    BY <1>1, <1>3, <1>4, <1>5
  <2> HIDE DEF c
  <2>4. Chain(c, start, End(s[1]))
    <3>1. (\A i \in 1 .. Len(c) : i = 1) /\ 1 .. (Len(c) - 1) = {}
      BY <2>1
    <3>2. c[1].len > 0 /\ start <= c[1].base /\ c[1].base + c[1].len = End(s[1])
          /\ c[1].base + c[1].len <= End(s[1])
      BY <2>2, <2>3
    <3> QED
      BY <2>1, <2>2, <3>1, <3>2 DEF Chain
  <2>5. \A addr \in Nat : Reads(c, addr) <=> start <= addr /\ addr < End(s[1])
    <3>1. (\A i \in 1 .. Len(c) : i = 1) /\ 1 \in 1 .. Len(c)
      BY <2>1
    <3>2. c[1].base = start /\ c[1].base + c[1].len = End(s[1])
      BY <2>2, <2>3
    <3> QED
      BY <2>2, <3>1, <3>2 DEF Reads
  <2>6. \A addr \in Nat : (\E j \in 1 .. (0 + 1) : s[j].base_addr <= addr /\ addr < End(s[j]))
                            <=> start <= addr /\ addr < End(s[1])
    BY <1>5
  <2>7. 0 \in 0 .. (n - 1) /\ r[0] = first /\ 0 + 1 = 1
    BY <1>3, <1>9, <1>10
  <2>8. \A addr \in Nat : Reads(c, addr) <=>
            \E j \in 1 .. (0 + 1) : s[j].base_addr <= addr /\ addr < End(s[j])
    BY <2>5, <2>6
  <2> QED
    BY <1>8, <2>3, <2>4, <2>7, <2>8 DEF c
<1>12. ASSUME NEW i \in 0 .. ((n - 1) - 1), i \in good PROVE i + 1 \in good
  <2> DEFINE e == s[i + 1]
             f == s[i + 2]
             now == r[i]
             next == r[i + 1]
  <2>1. /\ i + 1 \in 1 .. (n - 1) /\ (i + 1) - 1 = i /\ (i + 1) + 1 = i + 2
        /\ i + 1 \in 1 .. n /\ i + 2 \in 1 .. n /\ i + 1 < i + 2 /\ i + 1 \in 0 .. (n - 1)
        /\ i \in 0 .. (n - 1)
    BY <1>1
  <2>2. next = AddToRun(now, f) /\ now \in Run /\ e \in Field /\ f \in Field
    BY <1>4, <1>9, <1>10, <2>1
  <2>3. /\ Chain(Closed(now), start, End(e))
        /\ now.base + now.len = End(e) /\ now.len > 0
        /\ \A addr \in Nat : Reads(Closed(now), addr) <=>
             \E j \in 1 .. (i + 1) : s[j].base_addr <= addr /\ addr < End(s[j])
    BY <1>12
  <2>4. \/ End(e) <= f.base_addr
        \/ e.base_addr = f.base_addr /\ End(e) = End(f)
    BY <1>1, <2>1
  <2> HIDE DEF now, next, e, f
  <2>5. /\ next \in Run /\ Chain(Closed(next), start, End(f))
        /\ next.base + next.len = End(f) /\ next.len > 0
        /\ \A addr \in Nat : Reads(Closed(next), addr) <=>
             \/ Reads(Closed(now), addr)
             \/ addr >= f.base_addr /\ addr < End(f) /\ End(e) <= f.base_addr
    BY <2>2, <2>3, <2>4, AddToRunKeeps
  <2>6. ASSUME NEW addr \in Nat
        PROVE  Reads(Closed(next), addr) <=>
                    \E j \in 1 .. (i + 2) : s[j].base_addr <= addr /\ addr < End(s[j])
    <3>1. \A j \in 1 .. (i + 2) : j \in 1 .. (i + 1) \/ j = i + 2
      BY <2>1
    <3>2. (\E j \in 1 .. (i + 2) : s[j].base_addr <= addr /\ addr < End(s[j]))
          <=> \/ \E j \in 1 .. (i + 1) : s[j].base_addr <= addr /\ addr < End(s[j])
              \/ f.base_addr <= addr /\ addr < End(f)
      <4>1. i + 2 \in 1 .. (i + 2) /\ \A j \in 1 .. (i + 1) : j \in 1 .. (i + 2)
        BY <2>1
      <4> QED
        BY <3>1, <4>1 DEF f
    <3>3. CASE End(e) <= f.base_addr
      BY <2>3, <2>5, <3>2, <3>3, <1>4, <2>1 DEF f
    <3>4. CASE ~(End(e) <= f.base_addr)
      <4>1. e.base_addr = f.base_addr /\ End(e) = End(f)
        BY <2>4, <3>4
      <4>2. i + 1 \in 1 .. (i + 1)
        BY <2>1
      <4>3. f.base_addr <= addr /\ addr < End(f)
              => \E j \in 1 .. (i + 1) : s[j].base_addr <= addr /\ addr < End(s[j])
        BY <4>1, <4>2 DEF e
      <4> QED
        BY <2>3, <2>5, <3>2, <3>4, <4>3
    <3> QED
      BY <3>3, <3>4
  <2> QED
    BY <2>1, <2>5, <2>6 DEF next, f
<1> HIDE DEF good
<1>13. n - 1 \in good
  <2>1. \A i \in 0 .. (n - 1) : i \in good
    BY <1>9, <1>11, <1>12, LoopInduction
  <2> QED
    BY <1>9, <2>1
<1>14. /\ run \in Run /\ run.len > 0 /\ Chain(Closed(run), start, End(port))
       /\ \A addr \in Nat : Reads(Closed(run), addr) <=>
            \E j \in 1 .. n : s[j].base_addr <= addr /\ addr < End(s[j])
  <2>1. (n - 1) + 1 = n /\ n - 1 \in 0 .. (n - 1)
    BY <1>1, <1>9
  <2> QED
    BY <1>6, <1>10, <1>13, <2>1 DEF good
<1>15. RegReadList(port) = Closed(run)
  <2>1. run.base \in Nat /\ run.len \in Nat /\ run.blocks \in Seq(BlockRec)
    BY <1>14 DEF Run
  <2>2. Block(run.base, run.len, FALSE) \in BlockRec
    BY ONLY <2>1 DEF Block, BlockRec
  <2>3. Append(run.blocks, Block(run.base, run.len, FALSE)) = run.blocks \o <<Block(run.base, run.len, FALSE)>>
    BY <2>1, <2>2, AppendIsConcat
  <2>4. run.len # 0
    BY <1>14, <2>1
  <2> QED
    BY <1>2, <2>3, <2>4 DEF Closed
<1>16. ASSUME NEW addr \in Nat
       PROVE  Reads(Closed(run), addr) <=>
                    \E f \in port.fields : f.base_addr <= addr /\ addr < End(f)
  BY <1>1, <1>14
<1>17. Closed(run) \in Seq(BlockRec) /\ Len(Closed(run)) \in Nat /\ Len(Closed(run)) > 0
  <2>1. Closed(run) \in Seq(BlockRec) /\ Len(run.blocks) \in Nat
        /\ Len(Closed(run)) = Len(run.blocks) + 1
    BY <1>14, ClosedIs
  <2> QED
    BY <2>1
<1> QED
  BY <1>14, <1>15, <1>16, <1>17

--------------------------------------------------------------------------------
(* The name of a register.                                                    *)

\* A register is called after f.
Names(f, addr) ==
    /\ f.base_addr <= addr /\ addr < End(f)
    /\ f.f_type = "FIFO" => addr = f.base_addr

\* One turn of the search: f is found if the register is called after it.  When
\* the search stops, no field further on can be one of those wanted.
LEMMA LookAtKeeps ==
    ASSUME NEW found \in Found, NEW f \in Field, NEW addr \in Nat,
           found.stop => ~Names(f, addr)
    PROVE  LET next == LookAt(found, f, addr)
           IN  /\ next.fields = found.fields \cup {g \in {f} : Names(g, addr)}
               /\ next.stop => \/ found.stop
                               \/ addr < f.base_addr
                               \/ f.f_type = "RAM" /\ addr < End(f)
<1> DEFINE next == LookAt(found, f, addr)
<1>1. /\ f.base_addr \in Nat /\ f.n_regs \in Nat /\ f.n_regs >= 1
      /\ End(f) = f.base_addr + f.n_regs /\ f.base_addr < End(f)
      /\ f.f_type = "BitField" => f.n_regs = 1
      /\ f.f_type \in {"BitField", "RAM", "FIFO"}
  BY FieldTypes
<1>2. found.stop \in BOOLEAN /\ found = [fields |-> found.fields, stop |-> found.stop]
  BY DEF Found
<1>3. Names(f, addr) => {g \in {f} : Names(g, addr)} = {f}
  OBVIOUS
<1>4. ~Names(f, addr) => {g \in {f} : Names(g, addr)} = {}
  OBVIOUS
<1>5. CASE found.stop \/ f.base_addr > addr
  <2>1. next.fields = found.fields
    BY <1>2, <1>5 DEF LookAt
  <2>2. ~Names(f, addr)
    BY <1>1, <1>5 DEF Names
  <2>3. found.stop \/ addr < f.base_addr
    BY <1>1, <1>5
  <2> QED
    BY <1>4, <2>1, <2>2, <2>3
<1>6. CASE ~(found.stop \/ f.base_addr > addr) /\ f.base_addr = addr
  <2>1. next.fields = found.fields \cup {f} /\ next.stop = found.stop
    BY <1>2, <1>6 DEF LookAt
  <2>2. Names(f, addr)
    BY <1>1, <1>6 DEF Names
  <2> QED
    BY <1>3, <2>1, <2>2
<1>7. CASE /\ ~(found.stop \/ f.base_addr > addr) /\ f.base_addr # addr
           /\ f.f_type = "RAM" /\ addr < f.base_addr + f.n_regs
  <2>1. next.fields = found.fields \cup {f}
    BY <1>7 DEF LookAt
  <2>2. Names(f, addr) /\ addr < End(f)
    BY <1>1, <1>7 DEF Names
  <2> QED
    BY <1>3, <1>7, <2>1, <2>2
<1>8. CASE /\ ~(found.stop \/ f.base_addr > addr) /\ f.base_addr # addr
           /\ ~(f.f_type = "RAM" /\ addr < f.base_addr + f.n_regs)
  <2>1. next = found
    BY <1>8 DEF LookAt
  <2>2. ~Names(f, addr)
    BY <1>1, <1>8 DEF Names
  <2> QED
    BY <1>4, <2>1, <2>2
<1> QED
  BY <1>5, <1>6, <1>7, <1>8

LEMMA NamesOfPort ==
    ASSUME NEW port, Apart(port.fields), NEW addr \in Nat, Spans(port, addr)
    PROVE  NamedAt(port, addr) = {f \in port.fields : Names(f, addr)}
<1> DEFINE n == Cardinality(port.fields)
           s == InAddressOrder(port.fields)
           first == [fields |-> {}, stop |-> FALSE]
           search == Search(first, s, addr)
<1>1. /\ n \in Nat /\ s \in [1 .. n -> Field]
      /\ \A i \in 1 .. n : s[i] \in port.fields
      /\ \A f \in port.fields : \E i \in 1 .. n : s[i] = f
      /\ \A i, j \in 1 .. n : i < j =>
            \/ End(s[i]) <= s[j].base_addr
            \/ /\ s[i].base_addr = s[j].base_addr /\ End(s[i]) = End(s[j])
               /\ s[i].f_type = "BitField" /\ s[j].f_type = "BitField"
  BY AddressOrder
<1>2. NamedAt(port, addr) = search.fields
  BY DEF NamedAt, Search
<1>3. first \in Found
  BY DEF Found
<1> HIDE DEF s, n
<1>4. PICK r \in [0 .. n -> Found] :
            /\ r[0] = first
            /\ \A i \in 1 .. n : r[i] = LookAt(r[i - 1], s[i], addr)
            /\ search = r[n]
  <2>1. n \in Nat /\ s \in [1 .. n -> Field]
    BY <1>1
  <2> HIDE DEF first
  <2>2. \E r \in [0 .. n -> Found] :
            Searches(first, s, addr, n, r)
    BY <1>3, <2>1, NamesLoop
  <2> QED
    BY <2>2 DEF Searches
<1>5. \A i \in 1 .. n : /\ s[i] \in Field /\ s[i].base_addr \in Nat /\ End(s[i]) \in Nat
                        /\ s[i].base_addr < End(s[i])
  BY <1>1, FieldTypes
<1> HIDE DEF search
<1> DEFINE good == {i \in 0 .. n :
                /\ r[i].fields = {f \in Field : Names(f, addr) /\ \E j \in 1 .. i : s[j] = f}
                /\ r[i].stop => \A j \in (i + 1) .. n : ~Names(s[j], addr)}
<1>6. 0 \in good
  BY <1>1, <1>4
<1>7. ASSUME NEW i \in 0 .. (n - 1), i \in good PROVE i + 1 \in good
  <2> DEFINE f == s[i + 1]
             found == r[i]
             next == r[i + 1]
  <2>1. i + 1 \in 1 .. n /\ (i + 1) - 1 = i /\ i \in 0 .. n /\ i + 1 \in 0 .. n /\ i + 1 \in (i + 1) .. n
    BY <1>1
  <2>2. found \in Found /\ f \in Field /\ next = LookAt(found, f, addr)
    BY <1>4, <1>5, <2>1
  <2>3. /\ found.fields = {g \in Field : Names(g, addr) /\ \E j \in 1 .. i : s[j] = g}
        /\ found.stop => \A j \in (i + 1) .. n : ~Names(s[j], addr)
    BY <1>7
  <2>4. found.stop => ~Names(f, addr)
    BY <2>1, <2>3
  <2> HIDE DEF found, next
  <2>5. /\ next.fields = found.fields \cup {g \in {f} : Names(g, addr)}
        /\ next.stop => \/ found.stop
                        \/ addr < f.base_addr
                        \/ f.f_type = "RAM" /\ addr < End(f)
    BY <2>2, <2>4, LookAtKeeps
  <2>6. next.fields = {g \in Field : Names(g, addr) /\ \E j \in 1 .. (i + 1) : s[j] = g}
    <3>1. \A g \in Field : (\E j \in 1 .. (i + 1) : s[j] = g) <=> (\E j \in 1 .. i : s[j] = g) \/ g = f
      <4>1. i + 1 \in 1 .. (i + 1) /\ \A j \in 1 .. (i + 1) : j \in 1 .. i \/ j = i + 1
        BY <1>1
      <4>2. \A j \in 1 .. i : j \in 1 .. (i + 1)
        BY <1>1
      <4> QED
        BY <4>1, <4>2
    <3> HIDE DEF f
    <3> QED
      BY <2>2, <2>3, <2>5, <3>1
  <2>7. ASSUME next.stop, NEW j \in (i + 2) .. n PROVE ~Names(s[j], addr)
    <3>1. j \in 1 .. n /\ i + 1 < j /\ j \in (i + 1) .. n
      BY <1>1
    <3>2. CASE found.stop
      BY <2>3, <3>1, <3>2
    <3>3. \/ End(f) <= s[j].base_addr
          \/ s[j].base_addr = f.base_addr /\ f.f_type = "BitField"
      BY <1>1, <2>1, <3>1
    <3>4. /\ f.base_addr \in Nat /\ End(f) \in Nat /\ f.base_addr < End(f)
          /\ s[j].base_addr \in Nat
      BY <1>5, <2>1, <3>1
    <3>5. CASE addr < f.base_addr
      BY <3>3, <3>4, <3>5 DEF Names
    <3>6. CASE f.f_type = "RAM" /\ addr < End(f)
      BY <3>3, <3>4, <3>6 DEF Names
    <3> QED
      BY <2>5, <2>7, <3>2, <3>5, <3>6
  <2>8. (i + 1) + 1 = i + 2
    BY <1>1
  <2> QED
    BY <2>1, <2>6, <2>7, <2>8 DEF next
<1> HIDE DEF good
<1>8. n \in good
  <2>1. \A i \in 0 .. n : i \in good
    BY <1>1, <1>6, <1>7, LoopInduction
  <2> QED
    BY <1>1, <2>1
<1>9. search.fields = {f \in Field : Names(f, addr) /\ \E j \in 1 .. n : s[j] = f}
  BY <1>4, <1>8 DEF good
<1>10. \A f : (f \in Field /\ \E j \in 1 .. n : s[j] = f) <=> f \in port.fields
  BY <1>1, <1>5
<1> QED
  BY <1>2, <1>9, <1>10

================================================================================
