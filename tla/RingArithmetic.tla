--------------------------- MODULE RingArithmetic ---------------------------
(***************************************************************************)
(* The arithmetic of a screen of H rows of W cells whose end is joined to  *)
(* its start: what the proofs about both terminals need of rows, columns   *)
(* and indices.                                                            *)
(***************************************************************************)
EXTENDS Integers, TLAPS

\* Remainders of numbers below twice the modulus.
LEMMA ModRing ==
    ASSUME NEW n \in Nat \ {0}, NEW a \in 0 .. 2 * n - 1
    PROVE  a % n = IF a < n THEN a ELSE a - n
BY SMTT(30)

\* The cell k steps before cell p of a ring of n cells.
Back(p, k, n) == (p + n - k) % n

\* Going back is a subtraction that is joined to the end.
LEMMA Before ==
    ASSUME NEW n \in Nat \ {0}, NEW p \in 0 .. n - 1, NEW k \in 1 .. n
    PROVE  Back(p, k, n) = IF k <= p THEN p - k ELSE p + n - k
<1> DEFINE a == p + n - k
<1>1. a \in 0 .. 2 * n - 1 /\ (a < n <=> p < k)
  OBVIOUS
<1>2. Back(p, k, n) = a % n
  BY DEF Back
<1> HIDE DEF a
<1>3. a % n = IF a < n THEN a ELSE a - n
  BY <1>1, ModRing
<1>4. QED
  BY <1>1, <1>2, <1>3 DEF a

\* The bounds of an index.
LEMMA IndexBounds ==
    ASSUME NEW H \in Nat \ {0}, NEW W \in Nat \ {0},
           NEW r \in 0 .. H - 1, NEW c \in 0 .. W - 1
    PROVE  /\ H * W \in Nat \ {0} /\ r * W \in Nat
           /\ r * W + W <= H * W
           /\ r * W + c \in 0 .. H * W - 1
           /\ (r + 1) * W = r * W + W
           /\ r + 1 = H => r * W + W = H * W
           /\ r = 0 => r * W = 0
           /\ r > 0 => (r - 1) * W = r * W - W /\ r * W >= W
<1>1. H * W \in Nat \ {0} /\ r * W \in Nat
  BY SMTT(30)
<1>2. (r + 1) * W = r * W + W
  BY SMTT(30)
<1>3. (r + 1) * W <= H * W
  <2>1. r + 1 <= H /\ r + 1 \in Nat
    OBVIOUS
  <2>2. QED
    BY <2>1, SMTT(30)
<1>4. r > 0 => (r - 1) * W = r * W - W /\ r * W >= W
  BY SMTT(30)
<1>5. QED
  BY <1>1, <1>2, <1>3, <1>4

\* The row of an index.
LEMMA IndexRow ==
    ASSUME NEW W \in Nat \ {0}, NEW r \in Nat, NEW c \in 0 .. W - 1
    PROVE  (r * W + c) \div W = r
<1> DEFINE q == (r * W + c) \div W
           x == r * W + c
<1>1. x \in Nat /\ r * W \in Nat
  BY SMTT(30)
<1>2. q \in Nat /\ q * W <= x /\ x < q * W + W
  BY <1>1, SMTT(30)
<1> HIDE DEF q
<1>3. q <= r
  <2>1. SUFFICES ASSUME r + 1 <= q PROVE FALSE
    BY <1>2
  <2>2. (r + 1) * W <= q * W /\ (r + 1) * W = r * W + W /\ q * W \in Nat
    BY <2>1, <1>2, SMTT(30)
  <2>3. QED
    BY <2>2, <1>1, <1>2
<1>4. q >= r
  <2>1. SUFFICES ASSUME q + 1 <= r PROVE FALSE
    BY <1>2
  <2>2. (q + 1) * W <= r * W /\ (q + 1) * W = q * W + W /\ q * W \in Nat
    BY <2>1, <1>2, SMTT(30)
  <2>3. QED
    BY <2>2, <1>1, <1>2
<1>5. q = r
  BY <1>2, <1>3, <1>4
<1>6. QED
  BY <1>5 DEF q

\* The end of a line: the start of the next one.
LEMMA FeedIndex ==
    ASSUME NEW H \in Nat \ {0}, NEW W \in Nat \ {0},
           NEW r \in 0 .. H - 1, NEW c \in 0 .. W - 1
    PROVE  (((r * W + c) \div W + 1) * W) % (H * W)
              = (IF r + 1 = H THEN 0 ELSE r + 1) * W
<1> DEFINE N == H * W
           x == r * W
<1>1. (r * W + c) \div W = r
  BY IndexRow
<1>2. (r + 1) * W = x + W
  BY IndexBounds
<1>3. N \in Nat \ {0} /\ x \in Nat /\ x + W <= N /\ (r + 1 = H => x + W = N)
  BY IndexBounds
<1>4. ((r * W + c) \div W + 1) * W = x + W
  BY <1>1, <1>2
<1> HIDE DEF N, x
<1>5. (x + W) % N = IF x + W < N THEN x + W ELSE x + W - N
  <2> DEFINE a == x + W
  <2>1. a \in 0 .. 2 * N - 1
    BY <1>3
  <2> HIDE DEF a
  <2>2. a % N = IF a < N THEN a ELSE a - N
    BY <1>3, <2>1, ModRing
  <2>3. QED
    BY <1>3, <2>2 DEF a
<1>6. CASE r + 1 = H
  BY <1>3, <1>4, <1>5, <1>6 DEF N
<1>7. CASE r + 1 # H
  <2>1. x + W < N
    <3>1. r + 1 \in 0 .. H - 1
      BY <1>7
    <3>2. (r + 1) * W + W <= H * W
      BY <3>1, IndexBounds
    <3>3. QED
      BY <3>2, <1>2, <1>3 DEF N
  <2>2. QED
    BY <1>2, <1>3, <1>4, <1>5, <1>7, <2>1 DEF N
<1>8. QED
  BY <1>6, <1>7

\* One cell on, across the ends of lines and of the screen.
LEMMA NextIndex ==
    ASSUME NEW H \in Nat \ {0}, NEW W \in Nat \ {0},
           NEW r \in 0 .. H - 1, NEW c \in 0 .. W - 1
    PROVE  (r * W + c + 1) % (H * W)
              = IF c + 1 = W THEN (IF r + 1 = H THEN 0 ELSE r + 1) * W
                             ELSE r * W + (c + 1)
<1> DEFINE N == H * W
           x == r * W
<1>1. N \in Nat \ {0} /\ x \in Nat /\ x + W <= N /\ x + c \in 0 .. N - 1
  BY IndexBounds
<1>2. CASE c + 1 = W
  <2>1. x + c + 1 = ((r * W + c) \div W + 1) * W
    <3>1. (r * W + c) \div W = r
      BY IndexRow
    <3>2. (r + 1) * W = x + W
      BY IndexBounds
    <3>3. QED
      BY <1>1, <1>2, <3>1, <3>2
  <2>2. QED
    BY <1>2, <2>1, FeedIndex
<1>3. CASE c + 1 # W
  <2>1. x + c + 1 \in 0 .. N - 1
    BY <1>1, <1>3
  <2> HIDE DEF N, x
  <2>2. (x + c + 1) % N = x + c + 1
    <3> DEFINE a == x + c + 1
    <3>1. a \in 0 .. 2 * N - 1 /\ a < N
      BY <1>1, <2>1
    <3> HIDE DEF a
    <3>2. a % N = IF a < N THEN a ELSE a - N
      BY <1>1, <3>1, ModRing
    <3>3. QED
      BY <3>1, <3>2 DEF a
  <2>3. QED
    BY <1>1, <1>3, <2>2 DEF N, x
<1>4. QED
  BY <1>2, <1>3

\* One cell back.
LEMMA PreviousIndex ==
    ASSUME NEW H \in Nat \ {0}, NEW W \in Nat \ {0},
           NEW r \in 0 .. H - 1, NEW c \in 0 .. W - 1
    PROVE  (r * W + c + H * W - 1) % (H * W)
              = IF c = 0 THEN (IF r = 0 THEN H - 1 ELSE r - 1) * W + (W - 1)
                         ELSE r * W + (c - 1)
<1> DEFINE N == H * W
           x == r * W
<1>1. N \in Nat \ {0} /\ x \in Nat /\ x + W <= N /\ x + c \in 0 .. N - 1
  BY IndexBounds
<1>2. /\ r = 0 => x = 0
      /\ r > 0 => (r - 1) * W = x - W /\ x >= W
  BY IndexBounds
<1>3. (H - 1) * W = N - W
  BY SMTT(30)
<1>4. (r * W + c + H * W - 1) = (x + c) + N - 1
  OBVIOUS
<1> HIDE DEF N, x
<1>5. ((x + c) + N - 1) % N = IF 1 <= x + c THEN x + c - 1 ELSE x + c + N - 1
  <2> DEFINE a == (x + c) + N - 1
  <2>1. a \in 0 .. 2 * N - 1 /\ (a < N <=> ~ 1 <= x + c)
    BY <1>1
  <2> HIDE DEF a
  <2>2. a % N = IF a < N THEN a ELSE a - N
    BY <1>1, <2>1, ModRing
  <2>3. QED
    BY <1>1, <2>1, <2>2 DEF a
<1>6. QED
  BY <1>1, <1>2, <1>3, <1>4, <1>5 DEF N, x

\* Seen from one cell on, every cell is one step further back.
LEMMA BeforeNext ==
    ASSUME NEW n \in Nat \ {0}, NEW p \in 0 .. n - 1, NEW q, q = (p + 1) % n
    PROVE  /\ q \in 0 .. n - 1
           /\ Back(q, 1, n) = p
           /\ \A k \in 2 .. n : /\ Back(q, k, n) = Back(p, k - 1, n)
                                /\ Back(p, k - 1, n) # p
                                /\ Back(p, k - 1, n) \in 0 .. n - 1
<1>1. q = IF p + 1 < n THEN p + 1 ELSE 0
  <2> DEFINE a == p + 1
  <2>1. a \in 0 .. 2 * n - 1
    OBVIOUS
  <2> HIDE DEF a
  <2>2. a % n = IF a < n THEN a ELSE a - n
    BY <2>1, ModRing
  <2>3. QED
    BY <2>2 DEF a
<1>2. q \in 0 .. n - 1 /\ 1 \in 1 .. n
  BY <1>1
<1>3. Back(q, 1, n) = p
  BY <1>1, <1>2, Before
<1>4. ASSUME NEW k \in 2 .. n
      PROVE  /\ Back(q, k, n) = Back(p, k - 1, n)
             /\ Back(p, k - 1, n) # p
             /\ Back(p, k - 1, n) \in 0 .. n - 1
  <2>1. k - 1 \in 1 .. n /\ k \in 1 .. n
    OBVIOUS
  <2>2. Back(p, k - 1, n) = IF k - 1 <= p THEN p - (k - 1) ELSE p + n - (k - 1)
    BY <2>1, Before
  <2>3. Back(q, k, n) = IF k <= q THEN q - k ELSE q + n - k
    BY <1>2, <2>1, Before
  <2>4. QED
    BY <1>1, <2>2, <2>3
<1>5. QED
  BY <1>2, <1>3, <1>4

\* Seen from one cell back, every cell is one step nearer.
LEMMA BeforePrevious ==
    ASSUME NEW n \in Nat \ {0}, NEW p \in 0 .. n - 1, NEW q, q = Back(p, 1, n)
    PROVE  /\ q \in 0 .. n - 1
           /\ \A k \in 1 .. n - 1 : /\ Back(q, k, n) = Back(p, k + 1, n)
                                    /\ Back(p, k + 1, n) # q
                                    /\ Back(p, k + 1, n) \in 0 .. n - 1
<1>1. q = IF 1 <= p THEN p - 1 ELSE p + n - 1
  BY Before
<1>2. q \in 0 .. n - 1
  BY <1>1
<1>3. ASSUME NEW k \in 1 .. n - 1
      PROVE  /\ Back(q, k, n) = Back(p, k + 1, n)
             /\ Back(p, k + 1, n) # q
             /\ Back(p, k + 1, n) \in 0 .. n - 1
  <2>1. k + 1 \in 1 .. n /\ k \in 1 .. n
    OBVIOUS
  <2>2. Back(p, k + 1, n) = IF k + 1 <= p THEN p - (k + 1) ELSE p + n - (k + 1)
    BY <2>1, Before
  <2>3. Back(q, k, n) = IF k <= q THEN q - k ELSE q + n - k
    BY <1>2, <2>1, Before
  <2>4. QED
    BY <1>1, <2>2, <2>3
<1>4. QED
  BY <1>2, <1>3
=============================================================================
