--------------------------- MODULE TcpStreamProofs --------------------------
(***************************************************************************)
(* The ring of TcpAsync is a queue: the sending side implements WordStream *)
(* for every ring size and every width of the counters.                    *)
(*                                                                         *)
(* The counters run modulo the width of an unsigned int, the slots modulo  *)
(* the ring's size, and the second divides the first.  That is the         *)
(* arithmetic of the first part; the second says how full the ring is; the *)
(* third maps each step to the queue.  The last part is about the end: how *)
(* long the sender can take to empty the ring, and that `end` returns.     *)
(***************************************************************************)
EXTENDS TcpFrameProofs, SequenceTheorems

-----------------------------------------------------------------------------
(* Remainders.                                                             *)

LEMMA ModUnique ==
  ASSUME NEW S \in Nat \ {0}, NEW q \in Int, NEW r \in 0..(S - 1)
  PROVE  (q * S + r) % S = r
<1> DEFINE a == q * S + r
<1>1. a \in Int /\ a % S \in 0..(S - 1) /\ a = S * (a \div S) + (a % S) /\ a \div S \in Int
  OBVIOUS
<1>2. PICK p \in Int : p = a \div S
  BY <1>1
<1>3. PICK t \in 0..(S - 1) : t = a % S
  BY <1>1
<1>4. q * S + r = S * p + t
  BY <1>1, <1>2, <1>3
<1> HIDE DEF a
<1>5. p = q
  <2>1. ASSUME p >= q + 1 PROVE FALSE
    <3>1. S * p >= S * (q + 1)
      BY <2>1
    <3>2. S * (q + 1) = q * S + S
      OBVIOUS
    <3> QED
      BY <1>4, <3>1, <3>2
  <2>2. ASSUME p + 1 <= q PROVE FALSE
    <3>1. S * (p + 1) <= q * S
      BY <2>2
    <3>2. S * (p + 1) = S * p + S
      OBVIOUS
    <3> QED
      BY <1>4, <3>1, <3>2
  <2> QED
    BY <2>1, <2>2
<1>6. S * p = q * S
  BY <1>5
<1> QED
  BY <1>3, <1>4, <1>6 DEF a

LEMMA ModSmall ==
  ASSUME NEW S \in Nat \ {0}, NEW a \in 0..(S - 1)
  PROVE  a % S = a
  OBVIOUS

LEMMA ModWrap ==
  ASSUME NEW S \in Nat \ {0}, NEW a \in S..(2 * S - 1)
  PROVE  a % S = a - S
<1>1. a - S \in 0..(S - 1) /\ a = 1 * S + (a - S)
  OBVIOUS
<1> QED
  BY <1>1, ModUnique

LEMMA Quotient ==
  ASSUME NEW S \in Nat \ {0}, NEW a \in Int
  PROVE  /\ a % S \in 0..(S - 1)
         /\ \E q \in Int : a = q * S + (a % S)
<1>1. a % S \in 0..(S - 1) /\ a = S * (a \div S) + (a % S) /\ a \div S \in Int
  OBVIOUS
<1>2. S * (a \div S) = (a \div S) * S
  OBVIOUS
<1> QED
  BY <1>1, <1>2

LEMMA ModRange ==
  ASSUME NEW S \in Nat \ {0}, NEW a \in Int
  PROVE  a % S \in Nat /\ a % S < S
  OBVIOUS

LEMMA ModMod ==
  ASSUME NEW S \in Nat \ {0}, NEW M \in Nat \ {0}, M % S = 0, NEW a \in Int
  PROVE  (a % M) % S = a % S
<1>1. PICK k \in Int : M = k * S
  <2>1. M \in Int
    OBVIOUS
  <2>2. PICK k \in Int : M = k * S + (M % S)
    BY <2>1, Quotient, Zenon
  <2>3. k * S \in Int
    OBVIOUS
  <2>4. M = k * S + 0
    BY <2>2, Zenon
  <2> QED
    BY <2>3, <2>4
<1>2. PICK q \in Int : a = q * M + (a % M)
  BY Quotient
<1>3. PICK t \in Int : t = a % M
  BY Quotient
<1>4. PICK p \in Int, r \in 0..(S - 1) : t = p * S + r /\ r = t % S
  BY Quotient
<1>5. a = (q * k + p) * S + r
  <2>1. q * (k * S) = (q * k) * S
    OBVIOUS
  <2>2. (q * k + p) * S = (q * k) * S + p * S
    OBVIOUS
  <2> QED
    BY <1>1, <1>2, <1>3, <1>4, <2>1, <2>2
<1>6. a % S = r
  <2>1. q * k + p \in Int
    OBVIOUS
  <2> QED
    BY <1>5, <2>1, ModUnique
<1> QED
  BY <1>3, <1>4, <1>6

LEMMA ModShift ==
  ASSUME NEW S \in Nat \ {0}, NEW M \in Nat \ {0}, M % S = 0,
         NEW a \in Int, NEW j \in Int
  PROVE  ((a % M) + j) % S = (a + j) % S
<1>1. PICK t \in Int : t = a % M
  BY Quotient
<1>2. PICK q \in Int, r \in 0..(S - 1) : t = q * S + r /\ r = t % S
  BY Quotient
<1>3. PICK p \in Int : a = p * S + r
  <2>1. PICK p \in Int : a = p * S + (a % S)
    BY Quotient
  <2>2. (a % M) % S = a % S
    BY ModMod, Zenon
  <2>3. a % S = r
    BY <1>1, <1>2, <2>2, Zenon
  <2> QED
    BY <2>1, <2>3
<1>4. PICK e \in Int : e = r + j
  OBVIOUS
<1>5. PICK g \in Int, h \in 0..(S - 1) : e = g * S + h /\ h = e % S
  BY Quotient
<1>6. (t + j) % S = h
  <2>1. (q + g) * S = q * S + g * S
    OBVIOUS
  <2>2. t + j = (q + g) * S + h /\ q + g \in Int
    BY <1>2, <1>4, <1>5, <2>1
  <2> QED
    BY <2>2, ModUnique
<1>7. (a + j) % S = h
  <2>1. (p + g) * S = p * S + g * S
    OBVIOUS
  <2>2. a + j = (p + g) * S + h /\ p + g \in Int
    BY <1>3, <1>4, <1>5, <2>1
  <2> QED
    BY <2>2, ModUnique
<1> QED
  BY <1>1, <1>6, <1>7

LEMMA ModDiffer ==
  ASSUME NEW S \in Nat \ {0}, NEW a \in Int, NEW d \in 1..(S - 1)
  PROVE  (a + d) % S # a % S
<1>1. PICK q \in Int, r \in 0..(S - 1) : a = q * S + r /\ r = a % S
  BY Quotient
<1>2. CASE r + d < S
  <2>1. a + d = q * S + (r + d) /\ r + d \in 0..(S - 1)
    BY <1>1, <1>2
  <2>2. (a + d) % S = r + d
    BY <2>1, ModUnique
  <2> QED
    BY <1>1, <2>2
<1>3. CASE r + d >= S
  <2>0. (q + 1) * S = q * S + S
    OBVIOUS
  <2>1. a + d = (q + 1) * S + (r + d - S) /\ r + d - S \in 0..(S - 1)
    BY <1>1, <1>3, <2>0
  <2>2. (a + d) % S = r + d - S
    <3> DEFINE p == q + 1  t == r + d - S
    <3>1. p \in Int /\ t \in 0..(S - 1) /\ a + d = p * S + t
      BY <2>1
    <3> HIDE DEF p, t
    <3>2. (p * S + t) % S = t
      BY <3>1, ModUnique
    <3> QED
      BY <3>1, <3>2 DEF t
  <2> QED
    BY <1>1, <2>2
<1> QED
  BY <1>2, <1>3
-----------------------------------------------------------------------------
(* Counters that wrap around.                                              *)

LEMMA PlusIs ==
  ASSUME NEW M \in Nat \ {0}, NEW a \in 0..(M - 1), NEW n \in 0..(M - 1)
  PROVE  (a + n) % M = IF a + n < M THEN a + n ELSE a + n - M
<1>1. CASE a + n < M
  BY <1>1, ModSmall
<1>2. CASE a + n >= M
  <2>1. a + n \in M..(2 * M - 1)
    BY <1>2
  <2> QED
    BY <1>2, <2>1, ModWrap
<1> QED
  BY <1>1, <1>2

LEMMA MinusIs ==
  ASSUME NEW M \in Nat \ {0}, NEW a \in 0..(M - 1), NEW b \in 0..(M - 1)
  PROVE  (a + M - b) % M = IF b <= a THEN a - b ELSE a + M - b
<1>1. CASE b <= a
  <2>1. a + M - b \in M..(2 * M - 1)
    BY <1>1
  <2>2. (a + M - b) % M = a + M - b - M
    BY <2>1, ModWrap
  <2> QED
    BY <1>1, <2>2
<1>2. CASE a < b
  <2>1. a + M - b \in 0..(M - 1)
    BY <1>2
  <2> QED
    BY <1>2, <2>1, ModSmall
<1> QED
  BY <1>1, <1>2

(* The count c of what is between out and in, when either goes on. *)
LEMMA CountMoves ==
  ASSUME NEW M \in Nat \ {0}, NEW in \in 0..(M - 1), NEW out \in 0..(M - 1),
         NEW c \in Int, c = (in + M - out) % M
  PROVE  /\ c \in 0..(M - 1)
         /\ (out + c) % M = in
         /\ c + 1 < M => (((in + 1) % M) + M - out) % M = c + 1
         /\ \A n \in 0..c : (in + M - ((out + n) % M)) % M = c - n
<1>1. c = (IF out <= in THEN in - out ELSE in + M - out) /\ c \in 0..(M - 1)
  BY MinusIs
<1>2. (out + c) % M = in
  <2>1. (out + c) % M = IF out + c < M THEN out + c ELSE out + c - M
    BY <1>1, PlusIs
  <2> QED
    BY <1>1, <2>1
<1>3. ASSUME c + 1 < M PROVE (((in + 1) % M) + M - out) % M = c + 1
  <2>1. PICK d \in 0..(M - 1) :
          d = (in + 1) % M /\ d = (IF in + 1 < M THEN in + 1 ELSE in + 1 - M)
    <3>1. 1 \in 0..(M - 1)
      BY <1>1, <1>3
    <3>2. (in + 1) % M = IF in + 1 < M THEN in + 1 ELSE in + 1 - M
      BY <3>1, PlusIs
    <3> QED
      BY <3>2
  <2>2. (d + M - out) % M = IF out <= d THEN d - out ELSE d + M - out
    BY MinusIs
  <2>3. (d + M - out) % M = c + 1
    BY <1>1, <1>3, <2>1, <2>2
  <2> QED
    BY <2>1, <2>3
<1>4. ASSUME NEW n \in 0..c PROVE (in + M - ((out + n) % M)) % M = c - n
  <2>1. PICK d \in 0..(M - 1) :
          d = (out + n) % M /\ d = (IF out + n < M THEN out + n ELSE out + n - M)
    <3>1. n \in 0..(M - 1)
      BY <1>1
    <3>2. (out + n) % M = IF out + n < M THEN out + n ELSE out + n - M
      BY <3>1, PlusIs
    <3> QED
      BY <3>1, <3>2
  <2>2. (in + M - d) % M = IF d <= in THEN in - d ELSE in + M - d
    BY MinusIs
  <2>3. (in + M - d) % M = c - n
    BY <1>1, <2>1, <2>2
  <2> QED
    BY <2>1, <2>3
<1> QED
  BY <1>1, <1>2, <1>3, <1>4

(* The n - s words from the counter o + s on, in a ring b of size S. *)
Window(b, o, s, n, S, M) == [k \in 1..(n - s) |-> b[((o + (s + k - 1)) % M) % S]]

(* w is that window, its words those at their slots. *)
IsWindow(w, b, o, s, n, S, U) ==
  /\ w \in Seq(U)
  /\ Len(w) = n - s
  /\ \A k \in 1..(n - s) : w[k] = b[(o + s + k - 1) % S]

LEMMA WindowIs ==
  ASSUME NEW S \in Nat \ {0}, NEW M \in Nat \ {0}, M % S = 0,
         NEW U, NEW b \in [0..(S - 1) -> U],
         NEW o \in Nat, NEW n \in Nat, NEW s \in 0..n
  PROVE  IsWindow(Window(b, o, s, n, S, M), b, o, s, n, S, U)
<1> DEFINE w == Window(b, o, s, n, S, M)
<1>1. \A k \in 1..(n - s) : w[k] = b[(o + s + k - 1) % S]
  <2> TAKE k \in 1..(n - s)
  <2>1. PICK a \in Int : a = o + (s + k - 1) /\ a = o + s + k - 1
    OBVIOUS
  <2>2. (a % M) % S = a % S
    BY ModMod
  <2>3. w[k] = b[((o + (s + k - 1)) % M) % S]
    BY DEF Window
  <2> QED
    BY <2>1, <2>2, <2>3
<1>2. \A k \in 1..(n - s) : w[k] \in U
  <2> TAKE k \in 1..(n - s)
  <2>1. o + s + k - 1 \in Int
    OBVIOUS
  <2>2. (o + s + k - 1) % S \in 0..(S - 1)
    BY <2>1, Quotient
  <2> QED
    BY <1>1, <2>2, Zenon
<1>3. n - s \in Nat /\ DOMAIN w = 1..(n - s) /\ w = [k \in 1..(n - s) |-> w[k]]
  BY DEF Window
<1> HIDE DEF w
<1>4. w \in [1..(n - s) -> U]
  BY <1>2, <1>3
<1>5. w \in Seq(U) /\ Len(w) = n - s
  BY <1>3, <1>4
<1> QED
  BY <1>1, <1>5 DEF w, IsWindow

(* What a slot of the ring may hold, and what becomes of the window when a *)
(* word is put in, taken out, or left behind by locout.                    *)
Slot == Words \union {Uninit}

Grown(b, o, s, n, S, M, u) ==
  Window([b EXCEPT ![((o + n) % M) % S] = u], o, s, n + 1, S, M)
    = Append(Window(b, o, s, n, S, M), u)

Shrunk(b, o, s, n, S, M) ==
  /\ Window(b, o, s, n, S, M) # <<>>
  /\ Head(Window(b, o, s, n, S, M)) = b[(o % S) + s]
  /\ Window(b, o, s + 1, n, S, M) = Tail(Window(b, o, s, n, S, M))

Moved(b, o, s, n, S, M) ==
  Window(b, (o + s) % M, 0, n - s, S, M) = Window(b, o, s, n, S, M)

(* A word is put behind the last one, into a slot not in use. *)
LEMMA WindowGrows ==
  ASSUME NEW S \in Nat \ {0}, NEW M \in Nat \ {0}, M % S = 0,
         NEW b \in [0..(S - 1) -> Slot], NEW u \in Slot,
         NEW o \in Nat, NEW n \in Nat, n < S, NEW s \in 0..n
  PROVE  Grown(b, o, s, n, S, M, u)
<1>1. PICK last \in 0..(S - 1) : last = ((o + n) % M) % S /\ last = (o + n) % S
  <2>1. o + n \in Int
    OBVIOUS
  <2>2. ((o + n) % M) % S = (o + n) % S /\ (o + n) % S \in 0..(S - 1)
    BY <2>1, ModMod, Quotient, Zenon
  <2> QED
    BY <2>2
<1>2. PICK c \in [0..(S - 1) -> Slot] : c = [b EXCEPT ![last] = u]
  <2>1. [b EXCEPT ![last] = u] \in [0..(S - 1) -> Slot]
    OBVIOUS
  <2> QED
    BY <2>1, Zenon
<1>3. c[last] = u /\ \A k \in 0..(S - 1) : k # last => c[k] = b[k]
  BY <1>2
<1>4. PICK v :
        v = Window(b, o, s, n, S, M) /\ IsWindow(v, b, o, s, n, S, Slot)
  BY WindowIs, Zenon
<1>5. PICK w :
        /\ w = Window(c, o, s, n + 1, S, M)
        /\ w \in Seq(Slot) /\ Len(w) = n + 1 - s
        /\ \A k \in 1..(n + 1 - s) : w[k] = c[(o + s + k - 1) % S]
  <2>1. PICK m \in Nat : m = n + 1 /\ s \in 0..m
    OBVIOUS
  <2>2. PICK w :
          w = Window(c, o, s, m, S, M) /\ IsWindow(w, c, o, s, m, S, Slot)
    BY <2>1, WindowIs, Zenon
  <2>3. w = Window(c, o, s, n + 1, S, M)
    BY <2>1, <2>2, Zenon
  <2> QED
    BY <2>1, <2>2, <2>3 DEF IsWindow
<1>6. ASSUME NEW k \in 1..(n - s) PROVE w[k] = v[k]
  <2>1. PICK a \in Int, d \in 1..(S - 1) : a = o + s + k - 1 /\ a + d = o + n
    <3>1. n - s - k + 1 \in 1..(S - 1) /\ o + s + k - 1 \in Int
      OBVIOUS
    <3> QED
      BY <3>1
  <2>2. (a + d) % S # a % S /\ a % S \in 0..(S - 1)
    BY ModDiffer, Quotient, Zenon
  <2>3. k \in 1..(n + 1 - s)
    OBVIOUS
  <2> QED
    BY <1>1, <1>3, <1>4, <1>5, <2>1, <2>2, <2>3 DEF IsWindow
<1>7. w[n + 1 - s] = u
  <2>1. n + 1 - s \in 1..(n + 1 - s) /\ o + s + (n + 1 - s) - 1 = o + n
    OBVIOUS
  <2> QED
    BY <1>1, <1>3, <1>5, <2>1
<1>8. /\ Append(v, u) \in Seq(Slot)
      /\ Len(Append(v, u)) = n + 1 - s
      /\ \A k \in 1..(n - s) : Append(v, u)[k] = v[k]
      /\ Append(v, u)[n + 1 - s] = u
  <2>1. v \in Seq(Slot) /\ Len(v) = n - s /\ Len(v) + 1 = n + 1 - s
    BY <1>4 DEF IsWindow
  <2> QED
    BY <2>1
<1>9. \A k \in 1..(n + 1 - s) : w[k] = Append(v, u)[k]
  <2> TAKE k \in 1..(n + 1 - s)
  <2>1. k \in 1..(n - s) \/ k = n + 1 - s
    OBVIOUS
  <2> QED
    BY <1>6, <1>7, <1>8, <2>1
<1>10. w = Append(v, u)
  BY <1>5, <1>8, <1>9, SeqEqual
<1> QED
  BY <1>1, <1>2, <1>4, <1>5, <1>10 DEF Grown

(* The first word is written. *)
LEMMA WindowShrinks ==
  ASSUME NEW S \in Nat \ {0}, NEW M \in Nat \ {0}, M % S = 0,
         NEW b \in [0..(S - 1) -> Slot],
         NEW o \in Nat, NEW n \in Nat, NEW s \in 0..(n - 1), (o % S) + s < S
  PROVE  Shrunk(b, o, s, n, S, M)
<1>1. PICK v :
        v = Window(b, o, s, n, S, M) /\ IsWindow(v, b, o, s, n, S, Slot)
  <2>1. s \in 0..n
    OBVIOUS
  <2> QED
    BY <2>1, WindowIs, Zenon
<1>2. PICK w :
        /\ w = Window(b, o, s + 1, n, S, M)
        /\ w \in Seq(Slot) /\ Len(w) = n - s - 1
        /\ \A k \in 1..(n - s - 1) : w[k] = b[(o + s + (k + 1) - 1) % S]
  <2>1. PICK t \in 0..n : t = s + 1
    OBVIOUS
  <2>2. PICK w :
          w = Window(b, o, t, n, S, M) /\ IsWindow(w, b, o, t, n, S, Slot)
    BY WindowIs, Zenon
  <2>3. /\ n - t = n - s - 1
        /\ \A k \in Int : o + t + k - 1 = o + s + (k + 1) - 1
    BY <2>1
  <2> QED
    BY <2>1, <2>2, <2>3 DEF IsWindow
<1>3. (o + s) % S = (o % S) + s
  <2>0. o \in Int
    OBVIOUS
  <2>1. PICK q \in Int, r \in 0..(S - 1) : o = q * S + r /\ r = o % S
    BY <2>0, Quotient, Zenon
  <2>2. PICK e \in 0..(S - 1) : e = r + s
    <3>1. r + s < S
      BY <2>1, Zenon
    <3> QED
      BY <3>1
  <2>3. o + s = q * S + e
    <3>1. o = q * S + r
      BY <2>1, Zenon
    <3> QED
      BY <2>2, <3>1
  <2>4. (q * S + e) % S = e
    BY ModUnique
  <2> QED
    BY <2>1, <2>2, <2>3, <2>4
<1>4. v # <<>> /\ Head(v) = v[1] /\ v \in Seq(Slot) /\ Len(v) = n - s
  BY <1>1 DEF IsWindow
<1>5. v[1] = b[(o % S) + s]
  <2>1. 1 \in 1..(n - s) /\ o + s + 1 - 1 = o + s
    OBVIOUS
  <2> QED
    BY <1>1, <1>3, <2>1 DEF IsWindow
<1>6. /\ Tail(v) \in Seq(Slot) /\ Len(Tail(v)) = n - s - 1
      /\ \A k \in 1..(n - s - 1) : Tail(v)[k] = v[k + 1]
  <2>1. /\ Tail(v) \in Seq(Slot) /\ Len(Tail(v)) = Len(v) - 1
        /\ \A k \in 1..Len(Tail(v)) : Tail(v)[k] = v[k + 1]
    BY <1>4, HeadTailProperties
  <2> QED
    BY <1>4, <2>1
<1>7. \A k \in 1..(n - s - 1) : w[k] = Tail(v)[k]
  <2> TAKE k \in 1..(n - s - 1)
  <2>1. k + 1 \in 1..(n - s)
    OBVIOUS
  <2> QED
    BY <1>1, <1>2, <1>6, <2>1 DEF IsWindow
<1>8. w = Tail(v)
  BY <1>2, <1>6, <1>7, SeqEqual
<1> QED
  BY <1>1, <1>2, <1>4, <1>5, <1>8 DEF Shrunk

(* The words written are taken out of the ring. *)
LEMMA WindowMoves ==
  ASSUME NEW S \in Nat \ {0}, NEW M \in Nat \ {0}, M % S = 0,
         NEW b \in [0..(S - 1) -> Slot],
         NEW o \in Nat, NEW n \in Nat, NEW s \in 0..n
  PROVE  Moved(b, o, s, n, S, M)
<1>1. PICK v :
        v = Window(b, o, s, n, S, M) /\ IsWindow(v, b, o, s, n, S, Slot)
  BY WindowIs, Zenon
<1>2. PICK p \in Nat : p = (o + s) % M
  <2>1. o + s \in Int
    OBVIOUS
  <2> QED
    BY <2>1, ModRange
<1>3. PICK m \in Nat : m = n - s /\ 0 \in 0..m
  OBVIOUS
<1>4. PICK w :
        w = Window(b, p, 0, m, S, M) /\ IsWindow(w, b, p, 0, m, S, Slot)
  BY <1>3, WindowIs, Zenon
<1>5. \A k \in 1..m : w[k] = v[k]
  <2> TAKE k \in 1..m
  <2>1. PICK j \in Int, a \in Int : j = k - 1 /\ a = o + s
    OBVIOUS
  <2>2. ((a % M) + j) % S = (a + j) % S
    BY ModShift
  <2>3. p + 0 + k - 1 = p + j /\ o + s + k - 1 = a + j /\ k \in 1..(m - 0)
    BY <2>1
  <2> QED
    <3>1. w[k] = b[(p + j) % S]
      BY <1>4, <2>3 DEF IsWindow
    <3>2. v[k] = b[(a + j) % S]
      BY <1>1, <1>3, <2>3 DEF IsWindow
    <3>3. p = a % M
      BY <1>2, <2>1
    <3> QED
      BY <2>2, <3>1, <3>2, <3>3, Zenon
<1>6. w \in Seq(Slot) /\ v \in Seq(Slot) /\ Len(w) = m /\ Len(v) = m
  BY <1>1, <1>3, <1>4 DEF IsWindow
<1>7. w = v
  BY <1>5, <1>6, SeqEqual
<1> QED
  BY <1>1, <1>2, <1>3, <1>4, <1>7 DEF Moved

-----------------------------------------------------------------------------
(* How full the ring is.                                                   *)

(* A sample that was begun fits, although the sender may take words out    *)
(* meanwhile; what the sender is writing is there, and in one piece.       *)
Fits ==
  /\ Count <= Size
  /\ rt = "put" => Count + (cfg.nin - i) <= Size
  /\ sent + to_send <= Count
  /\ (locout % Size) + sent + to_send <= Size

LEMMA RingNumbers ==
  ASSUME TypeInv
  PROVE  /\ Size \in Nat \ {0} /\ LocMod \in Nat \ {0} /\ Size < LocMod
         /\ LocMod % Size = 0
         /\ locin \in 0..(LocMod - 1) /\ locout \in 0..(LocMod - 1)
         /\ Count = (locin + LocMod - locout) % LocMod
         /\ Count \in 0..(LocMod - 1)
         /\ sent \in Nat /\ to_send \in Nat /\ i \in Nat /\ cfg.nin \in Nat
         /\ buff \in [0..(Size - 1) -> Words \union {Uninit}]
<1>1. CfgInv /\ TxTypes /\ RtTypes
  BY DEF TypeInv
<1>2. /\ Size \in Nat \ {0} /\ LocMod \in Nat \ {0} /\ Size < LocMod
      /\ cfg.nin \in Nat
  BY <1>1, CfgSize, CfgTypes
<1>3. LocMod % Size = 0
  BY <1>1, TcpAssumption DEF CfgInv, LocMod, Size
<1>4. /\ locin \in 0..(LocMod - 1) /\ locout \in 0..(LocMod - 1)
      /\ sent \in Nat /\ to_send \in Nat /\ i \in Nat
      /\ buff \in [0..(Size - 1) -> Words \union {Uninit}]
  BY <1>1 DEF TxTypes, RtTypes
<1>5. Count = (locin + LocMod - locout) % LocMod
  BY DEF Count, Minus
<1>6. Count \in 0..(LocMod - 1)
  BY <1>2, <1>4, <1>5, CountMoves
<1> QED
  BY <1>2, <1>3, <1>4, <1>5, <1>6

(* The same without the arithmetic. *)
LEMMA RingRanges ==
  ASSUME TypeInv
  PROVE  /\ Size \in Nat /\ LocMod \in Nat
         /\ Count \in Nat /\ Count < LocMod /\ Size < LocMod
         /\ locout \in Nat
         /\ locout % Size \in Nat /\ locout % Size < Size
         /\ sent \in Nat /\ to_send \in Nat /\ i \in Nat /\ cfg.nin \in Nat
<1>1. /\ Size \in Nat \ {0} /\ locout \in Int
      /\ LocMod \in Nat \ {0} /\ Count \in 0..(LocMod - 1) /\ Size < LocMod
      /\ sent \in Nat /\ to_send \in Nat /\ i \in Nat /\ cfg.nin \in Nat
      /\ locout \in 0..(LocMod - 1)
  BY RingNumbers
<1>2. locout % Size \in Nat /\ locout % Size < Size
  BY <1>1, ModRange, Zenon
<1> QED
  BY <1>1, <1>2

(* The test of tcp_dqf_put does not take a ring with room for a full one.  *)
LEMMA NotFull ==
  ASSUME TypeInv, Count < Size
  PROVE  ~IsFull
<1> SUFFICES ASSUME locin # locout PROVE locin % Size # locout % Size
  BY DEF IsFull
<1>1. PICK S \in Nat \ {0}, M \in Nat \ {0}, c \in Nat :
        /\ S = Size /\ M = LocMod /\ c = Count /\ c < M
        /\ c < S /\ M % S = 0
        /\ locin \in 0..(M - 1) /\ locout \in 0..(M - 1)
        /\ c = (locin + M - locout) % M
  BY RingNumbers
<1>2. c = (IF locout <= locin THEN locin - locout ELSE locin + M - locout)
  BY <1>1, MinusIs
<1>3. c \in 1..(S - 1)
  BY <1>1, <1>2
<1>4. (locout + c) % M = locin
  BY <1>1, CountMoves
<1>5. ((locout + c) % M) % S = (locout + c) % S
  <2>1. locout + c \in Int
    BY <1>1
  <2> QED
    BY <1>1, <2>1, ModMod, Zenon
<1>6. (locout + c) % S # locout % S
  <2>1. S \in Nat \ {0} /\ locout \in Int /\ c \in 1..(S - 1)
    BY <1>1, <1>3
  <2> QED
    BY <2>1, ModDiffer, Zenon
<1> QED
  BY <1>1, <1>4, <1>5, <1>6, Zenon

(* tcp_dqf_put always stores the word. *)
LEMMA PutCounts ==
  ASSUME TypeInv, Fits, RtPut, cfg' = cfg
  PROVE  /\ Count < Size
         /\ locin' = Plus(locin, 1)
         /\ \E u \in Words : buff' = [buff EXCEPT ![locin % Size] = u]
         /\ Count' = Count + 1
         /\ UNCHANGED <<locout, sent, to_send>>
<1>1. Count < Size
  <2>1. rt = "put" /\ i < cfg.nin
    BY DEF RtPut, TypeInv, RtTypes
  <2> QED
    BY <2>1, RingRanges DEF Fits
<1>2. ~IsFull
  BY <1>1, NotFull
<1>3. /\ locin' = Plus(locin, 1)
      /\ \E u \in Words : buff' = [buff EXCEPT ![locin % Size] = u]
      /\ UNCHANGED <<locout, sent, to_send>>
  BY <1>2 DEF RtPut, sndVars
<1>4. Count' = Count + 1
  <2>1. PICK M \in Nat \ {0} : M = LocMod /\ Count + 1 < M
    BY <1>1, RingNumbers
  <2>2. (((locin + 1) % M) + M - locout) % M = Count + 1
    <3>1. PICK a \in 0..(M - 1), b \in 0..(M - 1), c \in Nat :
            a = locin /\ b = locout /\ c = Count /\ c = (a + M - b) % M
      BY <2>1, RingNumbers
    <3>2. (((a + 1) % M) + M - b) % M = c + 1
      <4>1. c + 1 < M
        BY <2>1, <3>1
      <4>2. c = (a + M - b) % M
        BY <3>1
      <4> QED
        BY <4>1, <4>2, CountMoves
    <3> QED
      BY <3>1, <3>2
  <2>3. Count' = (((locin + 1) % M) + M - locout) % M
    BY <1>3, <2>1 DEF Count, Minus, Plus, LocMod
  <2> QED
    BY <2>2, <2>3
<1> QED
  BY <1>1, <1>3, <1>4

(* tcp_dqf_skip takes out what was written. *)
LEMMA SkipCounts ==
  ASSUME TypeInv, Fits, SndSkip, cfg' = cfg
  PROVE  /\ locout' = Plus(locout, sent)
         /\ sent' = 0 /\ to_send' = 0
         /\ Count' = Count - sent
         /\ UNCHANGED <<locin, buff, rt, i>>
<1>1. sent \in 0..Count
  BY RingNumbers DEF Fits
<1>2. /\ locout' = Plus(locout, sent)
      /\ sent' = 0 /\ to_send' = 0
      /\ UNCHANGED <<locin, buff, rt, i>>
  BY <1>1, RingNumbers DEF SndSkip, Skip, rtVars
<1>3. Count' = Count - sent
  <2>1. PICK M \in Nat \ {0} : M = LocMod
    BY RingNumbers
  <2>2. (locin + M - ((locout + sent) % M)) % M = Count - sent
    <3>1. PICK a \in 0..(M - 1), b \in 0..(M - 1), c \in Nat :
            a = locin /\ b = locout /\ c = Count /\ c = (a + M - b) % M
      BY <2>1, RingNumbers
    <3>2. (a + M - ((b + sent) % M)) % M = c - sent
      <4>1. c = (a + M - b) % M /\ sent \in 0..c
        BY <1>1, <3>1
      <4> QED
        BY <4>1, CountMoves
    <3> QED
      BY <3>1, <3>2
  <2>3. Count' = (locin + M - ((locout + sent) % M)) % M
    BY <1>2, <2>1 DEF Count, Minus, Plus, LocMod
  <2> QED
    BY <2>2, <2>3
<1> QED
  BY <1>2, <1>3

(* What inout takes for free space is that. *)
LEMMA FreeIs ==
  ASSUME TypeInv, Fits
  PROVE  Free = Size - Count
<1>1. PICK S \in Nat \ {0}, M \in Nat \ {0}, c \in Nat :
        S = Size /\ M = LocMod /\ c = Count /\ S < M /\ c <= S
  BY RingNumbers DEF Fits
<1>2. (S + M - c) % M = S - c
  BY <1>1, MinusIs
<1> QED
  BY <1>1, <1>2 DEF Free, Minus

(* The steps that move neither counter. *)
RingSame ==
  UNCHANGED <<locin, locout, buff, cfg>>

LEMMA Unmoved ==
  RingSame => Count' = Count /\ Size' = Size /\ LocMod' = LocMod
  BY DEF RingSame, Count, Minus, Size, LocMod

LEMMA FitsInit == Init => TypeInv /\ Fits
<1> SUFFICES ASSUME Init PROVE Fits
  BY TypeInit
<1>1. TypeInv
  BY TypeInit
<1>2. PICK M \in Nat \ {0}, S \in Nat \ {0} : M = LocMod /\ S = Size
  BY <1>1, RingNumbers
<1>3. (0 + M - 0) % M = 0 /\ 0 % S = 0
  BY MinusIs, ModSmall
<1>4. Count = 0
  BY <1>2, <1>3 DEF Init, Count, Minus
<1> QED
  BY <1>2, <1>3, <1>4 DEF Init, Fits

LEMMA FitsRt ==
  ASSUME TypeInv, Fits, cfg' = cfg, RtStep
  PROVE  Fits'
<1>0. Size' = Size /\ LocMod' = LocMod
  BY DEF Size, LocMod
<1>1. CASE RtInit
  <2>1. PICK M \in Nat \ {0}, S \in Nat \ {0} : M = LocMod /\ S = Size
    BY RingNumbers
  <2>2. (0 + M - 0) % M = 0 /\ 0 % S = 0
    BY MinusIs, ModSmall
  <2>3. locin' = 0 /\ locout' = 0 /\ sent' = 0 /\ to_send' = 0 /\ rt' = "idle"
    BY <1>1 DEF RtInit
  <2>4. Count' = 0
    BY <1>0, <2>1, <2>2, <2>3 DEF Count, Minus
  <2> QED
    BY <1>0, <2>1, <2>2, <2>3, <2>4 DEF Fits
<1>2. CASE RtSample
  <2>1. RingSame /\ UNCHANGED <<sent, to_send, i>> /\ i = 0
    BY <1>2 DEF RtSample, RingSame, ring, TypeInv, RtTypes
  <2>2. rt' = "put" => ~(Free < cfg.nin)
    BY <1>2 DEF RtSample, RtToReceive
  <2>3. rt' = "put" => Count + (cfg.nin - i) <= Size
    BY <2>1, <2>2, FreeIs, RingRanges
  <2> QED
    BY <2>1, <2>3, Unmoved DEF Fits, RingSame
<1>3. CASE RtPut
  <2>1. /\ rt = "put" /\ i < cfg.nin
        /\ rt' = (IF i + 1 < cfg.nin THEN "put" ELSE "bcast")
        /\ i' = (i + 1) % cfg.nin
    BY <1>3 DEF RtPut, TypeInv, RtTypes
  <2>2. i + 1 < cfg.nin => i' = i + 1
    <3>1. PICK a \in Nat, n \in Nat : a = i + 1 /\ n = cfg.nin
      BY RingRanges
    <3>2. a < n => a % n = a
      BY ModSmall
    <3> QED
      BY <2>1, <3>1, <3>2
  <2>3. Count' = Count + 1 /\ Count < Size /\ UNCHANGED <<locout, sent, to_send>>
    BY <1>3, PutCounts
  <2>4. Count' <= Size /\ sent' + to_send' <= Count'
    BY <2>3, RingRanges DEF Fits
  <2>5. rt' = "put" => Count' + (cfg.nin - i') <= Size
    BY <2>1, <2>2, <2>3, RingRanges DEF Fits
  <2> QED
    BY <1>0, <2>3, <2>4, <2>5 DEF Fits
<1>4. CASE \/ RtConnectFails \/ RtBroadcast \/ RtExchange \/ RtApply \/ RtEnd
           \/ RtEnding \/ RtEndLock \/ RtEndWoken
  <2>1. RingSame /\ UNCHANGED <<sent, to_send>> /\ rt' # "put"
    BY <1>4
    DEF RtConnectFails, RtBroadcast, RtExchange, RtApply, RtEnd, RtEnding,
        RtTerminate, RtEndBroadcast, RtEndLock, RtEndTest, RtEndWait, RtEndWoken,
        RtEndTimeout, RtCancel, RtJoin, RtCancelRx, RtJoinRx, RtToReceive,
        RtToEndRx, RingSame, ring, sndVars
  <2> QED
    BY <2>1, Unmoved DEF Fits, RingSame
<1> QED
  BY <1>1, <1>2, <1>3, <1>4 DEF RtStep, RtInout

LEMMA FitsSnd ==
  ASSUME TypeInv, Fits, cfg' = cfg, SndStep
  PROVE  Fits'
<1>0. Size' = Size /\ LocMod' = LocMod
  BY DEF Size, LocMod
<1>1. CASE SndCount
  <2>1. /\ RingSame /\ UNCHANGED <<rt, i, sent>> /\ sent = 0
        /\ to_send' = CountCont
    BY <1>1 DEF SndCount, RingSame, ring, rtVars, TypeInv, TxTypes
  <2>2. locout % Size \in Nat /\ locout % Size < Size
    BY RingRanges
  <2>3. CountCont <= Count /\ (locout % Size) + CountCont <= Size
    BY <2>2, RingRanges DEF CountCont
  <2>4. CountCont \in Nat
    BY <2>2, RingRanges DEF CountCont
  <2>5. sent' + to_send' <= Count /\ (locout % Size) + sent' + to_send' <= Size
    BY <2>1, <2>2, <2>3, <2>4
  <2> QED
    BY <2>1, <2>5, Unmoved DEF Fits, RingSame
<1>2. CASE SndWrite \/ SndWriteFails
  <2>1. /\ RingSame /\ UNCHANGED <<rt, i>> /\ to_send > 0
        /\ \/ sent' = sent + 1 /\ to_send' = to_send - 1
           \/ sent' = sent /\ to_send' = 0
    BY <1>2 DEF SndWrite, SndWriteFails, RingSame, ring, rtVars
  <2>2. locout % Size \in Nat /\ locout % Size < Size
    BY RingRanges
  <2>3. sent' + to_send' <= Count /\ (locout % Size) + sent' + to_send' <= Size
    BY <2>1, <2>2, RingRanges DEF Fits
  <2> QED
    BY <2>1, <2>3, Unmoved DEF Fits, RingSame
<1>3. CASE SndSkip
  <2>1. /\ sent' = 0 /\ to_send' = 0 /\ Count' = Count - sent
        /\ UNCHANGED <<rt, i>>
    BY <1>3, SkipCounts
  <2>2. locout' % Size \in Nat /\ locout' % Size < Size
    <3>1. locout' = Plus(locout, sent) /\ sent \in 0..Count
      BY <1>3, SkipCounts, RingNumbers DEF Fits
    <3>2. locout' \in Int /\ Size \in Nat \ {0}
      BY <3>1, RingNumbers DEF Plus
    <3> QED
      BY <3>2, ModRange, Zenon
  <2>3. Count' \in Nat /\ Count' <= Count
    BY <2>1, RingRanges DEF Fits
  <2>4. Count' <= Size /\ (rt' = "put" => Count' + (cfg.nin - i') <= Size)
    BY <2>1, <2>3, RingRanges DEF Fits
  <2>5. sent' + to_send' <= Count' /\ (locout' % Size) + sent' + to_send' <= Size
    BY <2>1, <2>2, <2>3, RingRanges
  <2> QED
    BY <1>0, <2>4, <2>5 DEF Fits
<1>4. CASE SndLock \/ SndTest \/ SndWait \/ SndTerminated \/ SndBroadcast \/ SndKilled
  <2>1. RingSame /\ UNCHANGED <<rt, i, sent, to_send>>
    BY <1>4
    DEF SndLock, SndTest, SndWait, SndTerminated, SndBroadcast, SndKilled, RingSame,
        ring, rtVars
  <2> QED
    BY <2>1, Unmoved DEF Fits, RingSame
<1> QED
  BY <1>1, <1>2, <1>3, <1>4 DEF SndStep, SndProgress

LEMMA FitsStep ==
  ASSUME TypeInv, Fits, [Next]_vars
  PROVE  Fits'
<1>1. cfg' = cfg
  BY CfgSame
<1>2. CASE RcvStep \/ SpuriousWakeup \/ Exited \/ UNCHANGED vars
  <2>1. RingSame /\ UNCHANGED <<rt, i, sent, to_send>>
    BY <1>2
    DEF RcvStep, RcvProgress, RcvLoop, RcvExchange, RcvKilled, RcvRead, RcvReadFails,
        SpuriousWakeup, Exited, vars, rtVars, txVars, sndVars, ring, RingSame
  <2> QED
    BY <2>1, Unmoved DEF Fits, RingSame
<1> QED
  BY <1>1, <1>2, FitsRt, FitsSnd DEF Next
-----------------------------------------------------------------------------
(* Each step is one of the queue, or none.                                 *)

StreamOpen == IF rt = "put" THEN i ELSE 0

LEMMA PendingWindow ==
  Pending = Window(buff, locout, sent, Count, Size, LocMod)
  BY DEF Pending, Window, Plus

LEMMA PendingWindowNext ==
  Pending' = Window(buff', locout', sent', Count', Size', LocMod')
  BY DEF Pending, Window, Plus

LEMMA PendingIs ==
  ASSUME TypeInv, Fits
  PROVE  Pending \in Seq(Words \union {Uninit}) /\ Len(Pending) = Count - sent
<1>1. /\ Size \in Nat \ {0} /\ LocMod \in Nat \ {0} /\ LocMod % Size = 0
      /\ buff \in [0..(Size - 1) -> Words \union {Uninit}]
  BY RingNumbers
<1>2. locout \in Nat /\ Count \in Nat /\ sent \in 0..Count
  BY RingRanges DEF Fits
<1>3. IsWindow(Pending, buff, locout, sent, Count, Size, Words \union {Uninit})
  BY <1>1, <1>2, WindowIs, PendingWindow, Zenon
<1> QED
  BY <1>3 DEF IsWindow

LEMMA PendingSame ==
  RingSame /\ sent' = sent => Pending' = Pending
<1> SUFFICES ASSUME RingSame, sent' = sent PROVE Pending' = Pending
  OBVIOUS
<1>1. Count' = Count /\ Size' = Size /\ LocMod' = LocMod
  BY Unmoved
<1>2. buff' = buff /\ locout' = locout
  BY DEF RingSame
<1> QED
  BY <1>1, <1>2, PendingWindow, PendingWindowNext

(* tcp_dqf_put accepts a word; the first of a sample finds room for all.   *)
LEMMA PutAccepts ==
  ASSUME TypeInv, Fits, cfg' = cfg, RtPut
  PROVE  Stream!Accept
<1>1. /\ Size' = Size /\ LocMod' = LocMod
      /\ cfg.nin \in Nat /\ wire' = wire
      /\ Up /\ Up'
  BY RingNumbers DEF Size, LocMod, RtPut, sndVars, Up
<1>2. PICK u \in Words : buff' = [buff EXCEPT ![locin % Size] = u]
  BY PutCounts
<1>3. Count < Size /\ Count' = Count + 1 /\ locout' = locout /\ sent' = sent
  BY PutCounts
<1>4. /\ Size \in Nat \ {0} /\ LocMod \in Nat \ {0} /\ LocMod % Size = 0
      /\ buff \in [0..(Size - 1) -> Words \union {Uninit}]
  BY RingNumbers
<1>5. locout \in Nat /\ Count \in Nat /\ sent \in 0..Count
  BY RingRanges DEF Fits
<1>6. locin = (locout + Count) % LocMod
  <2>1. /\ LocMod \in Nat \ {0} /\ Count \in Int
        /\ locin \in 0..(LocMod - 1) /\ locout \in 0..(LocMod - 1)
        /\ Count = (locin + LocMod - locout) % LocMod
    BY RingNumbers
  <2> QED
    BY <2>1, CountMoves
<1>7. u \in Words \union {Uninit}
  OBVIOUS
<1>8. Grown(buff, locout, sent, Count, Size, LocMod, u)
  <2>1. buff \in [0..(Size - 1) -> Slot] /\ u \in Slot
    BY <1>4, <1>7, Zenon DEF Slot
  <2> QED
    BY <1>3, <1>4, <1>5, <2>1, WindowGrows, Zenon
<1>9. Pending' = Append(Pending, u)
  BY <1>1, <1>2, <1>3, <1>6, <1>8, PendingWindow, PendingWindowNext, Zenon DEF Grown
<1>10. StreamOpen = i /\ i < cfg.nin /\ i \in Nat
  BY DEF RtPut, StreamOpen, TypeInv, RtTypes
<1>11. StreamOpen' = (i + 1) % cfg.nin
  <2>1. i' = (i + 1) % cfg.nin /\ rt' = IF i + 1 < cfg.nin THEN "put" ELSE "bcast"
    BY DEF RtPut
  <2>2. i + 1 >= cfg.nin => (i + 1) % cfg.nin = 0
    <3>1. PICK n \in Nat \ {0} : n = cfg.nin
      BY <1>1, <1>10
    <3>2. n % n = 0
      <4>1. n \in n..(2 * n - 1)
        OBVIOUS
      <4>2. n % n = n - n
        BY <4>1, ModWrap
      <4> QED
        BY <4>2
    <3>3. i + 1 >= n => i + 1 = n
      BY <1>10, <3>1
    <3> QED
      BY <3>1, <3>2, <3>3
  <2>3. StreamOpen' = IF i + 1 < cfg.nin THEN (i + 1) % cfg.nin ELSE 0
    BY <2>1 DEF StreamOpen
  <2>4. ~(i + 1 < cfg.nin) => i + 1 >= cfg.nin
    BY <1>1, <1>10
  <2> QED
    BY <2>2, <2>3, <2>4, Zenon
<1>12. i = 0 => Len(Pending) + cfg.nin <= Size
  <2>1. Len(Pending) = Count - sent
    BY PendingIs
  <2>2. Count + (cfg.nin - i) <= Size
    BY DEF Fits, RtPut
  <2> QED
    BY <2>1, <2>2, RingRanges
<1> QED
  BY <1>1, <1>9, <1>10, <1>11, <1>12 DEF Stream!Accept, StreamOpen

(* write() takes the oldest word. *)
LEMMA WriteDelivers ==
  ASSUME TypeInv, Fits, LifeInv, Unopened, cfg' = cfg, SndWrite
  PROVE  Stream!Deliver
<1>1. /\ RingSame /\ UNCHANGED <<rt, i>> /\ to_send > 0
      /\ wire' = WordAt(sent) /\ sent' = sent + 1
  BY DEF SndWrite, RingSame, ring, rtVars
<1>2. Count' = Count /\ Size' = Size /\ LocMod' = LocMod
  BY <1>1, Unmoved
<1>3. /\ Size \in Nat \ {0} /\ LocMod \in Nat \ {0} /\ LocMod % Size = 0
      /\ buff \in [0..(Size - 1) -> Words \union {Uninit}]
  BY RingNumbers
<1>4. /\ locout \in Nat /\ Count \in Nat /\ sent \in 0..(Count - 1)
      /\ (locout % Size) + sent < Size
  BY <1>1, RingRanges DEF Fits
<1>5. Shrunk(buff, locout, sent, Count, Size, LocMod)
  <2>1. buff \in [0..(Size - 1) -> Slot]
    BY <1>3, Zenon DEF Slot
  <2> QED
    BY <1>3, <1>4, <2>1, WindowShrinks, Zenon
<1>6. wire' = buff[(locout % Size) + sent]
  BY <1>1, <1>4 DEF WordAt
<1>7. Pending # <<>> /\ wire' = Head(Pending)
  BY <1>5, <1>6, PendingWindow, Zenon DEF Shrunk
<1>8. buff' = buff /\ locout' = locout
  BY <1>1 DEF RingSame
<1>9. Pending' = Tail(Pending)
  BY <1>1, <1>2, <1>5, <1>8, PendingWindow, PendingWindowNext, Zenon DEF Shrunk
<1>10. Up /\ Up' = Up
  BY <1>1, AliveUp DEF SndWrite, SenderGone, Up
<1> QED
  BY <1>1, <1>2, <1>7, <1>9, <1>10 DEF Stream!Deliver

(* A new ring is empty. *)
LEMMA InitOpensStream ==
  ASSUME TypeInv, cfg' = cfg, RtInit
  PROVE  Stream!Open
<1>1. /\ Size' = Size /\ LocMod' = LocMod
      /\ rt # "put" /\ rt' # "put" /\ wire' = wire
      /\ locin' = 0 /\ locout' = 0 /\ sent' = 0
      /\ ~Up /\ Up'
  BY DEF Size, LocMod, RtInit, Up
<1>2. PICK M \in Nat \ {0} : M = LocMod
  BY RingNumbers
<1>3. (0 + M - 0) % M = 0
  BY MinusIs
<1>4. Count' = 0
  BY <1>1, <1>2, <1>3 DEF Count, Minus
<1>5. Pending' = <<>>
  <2>1. Pending' = Window(buff', 0, 0, 0, Size, LocMod)
    BY <1>1, <1>4, PendingWindowNext
  <2>2. 1..(0 - 0) = {}
    OBVIOUS
  <2> QED
    BY <2>1, <2>2 DEF Window
<1> QED
  BY <1>1, <1>5 DEF Stream!Open

(* What was written stays written when it leaves the ring. *)
LEMMA SkipStutters ==
  ASSUME TypeInv, Fits, cfg' = cfg, SndSkip
  PROVE  UNCHANGED Stream!vars
<1>1. /\ Size' = Size /\ LocMod' = LocMod /\ wire' = wire /\ UNCHANGED <<rt, i>>
  BY DEF Size, LocMod, SndSkip, rtVars
<1>2. /\ locout' = (locout + sent) % LocMod /\ sent' = 0 /\ buff' = buff
      /\ Count' = Count - sent
  BY SkipCounts DEF Plus
<1>3. /\ Size \in Nat \ {0} /\ LocMod \in Nat \ {0} /\ LocMod % Size = 0
      /\ buff \in [0..(Size - 1) -> Words \union {Uninit}]
  BY RingNumbers
<1>4. locout \in Nat /\ Count \in Nat /\ sent \in 0..Count
  BY RingRanges DEF Fits
<1>5. Moved(buff, locout, sent, Count, Size, LocMod)
  <2>1. buff \in [0..(Size - 1) -> Slot]
    BY <1>3, Zenon DEF Slot
  <2> QED
    BY <1>3, <1>4, <2>1, WindowMoves, Zenon
<1>6. Pending' = Pending
  BY <1>1, <1>2, <1>5, PendingWindow, PendingWindowNext, Zenon DEF Moved
<1> QED
  BY <1>1, <1>6 DEF Stream!vars, Up

LEMMA RtStreams ==
  ASSUME TypeInv, Fits, cfg' = cfg, RtStep
  PROVE  Stream!Next \/ UNCHANGED Stream!vars
<1>1. CASE RtInit
  BY <1>1, InitOpensStream DEF Stream!Next
<1>2. CASE RtPut
  BY <1>2, PutAccepts DEF Stream!Next
<1>3. CASE RtStep /\ ~RtInit /\ ~RtPut
  <2>1. /\ UNCHANGED <<ring, sent, wire>>
        /\ rt # "put"
        /\ rt' = "put" => i' = i /\ i = 0
        /\ Up' => Up
    BY <1>3
    DEF RtStep, RtConnectFails, RtInout, RtSample, RtBroadcast, RtExchange, RtApply,
        RtEnd, RtEnding, RtTerminate, RtEndBroadcast, RtEndLock, RtEndTest,
        RtEndWait, RtEndWoken, RtEndTimeout, RtCancel, RtJoin, RtCancelRx, RtJoinRx,
        RtToReceive, RtToEndRx, sndVars, TypeInv, RtTypes, Up
  <2>2. RingSame
    BY <2>1 DEF RingSame, ring
  <2>3. Pending' = Pending /\ Size' = Size
    BY <2>1, <2>2, PendingSame, Unmoved
  <2>4. Up \in BOOLEAN /\ Up' \in BOOLEAN
    BY DEF Up
  <2>5. CASE Up' = Up
    BY <2>1, <2>3, <2>5 DEF Stream!vars
  <2>6. CASE Up /\ ~Up'
    BY <2>1, <2>3, <2>6 DEF Stream!Close, Stream!Next, Up
  <2> QED
    BY <2>1, <2>4, <2>5, <2>6
<1> QED
  BY <1>1, <1>2, <1>3

LEMMA SndStreams ==
  ASSUME TypeInv, Fits, LifeInv, Unopened, cfg' = cfg, SndStep
  PROVE  Stream!Next \/ UNCHANGED Stream!vars
<1>1. CASE SndWrite
  BY <1>1, WriteDelivers DEF Stream!Next
<1>2. CASE SndSkip
  BY <1>2, SkipStutters
<1>3. CASE SndStep /\ ~SndWrite /\ ~SndSkip
  <2>1. UNCHANGED <<ring, sent, wire, rt, i>>
    BY <1>3
    DEF SndStep, SndProgress, SndLock, SndTest, SndWait, SndCount, SndTerminated,
        SndBroadcast, SndKilled, SndWriteFails, rtVars
  <2>2. RingSame
    BY <2>1 DEF RingSame, ring
  <2>3. Pending' = Pending /\ Size' = Size
    BY <2>1, <2>2, PendingSame, Unmoved
  <2> QED
    BY <2>1, <2>3 DEF Stream!vars, Up
<1> QED
  BY <1>1, <1>2, <1>3

LEMMA RestStutters ==
  ASSUME cfg' = cfg, RcvStep \/ SpuriousWakeup \/ Exited \/ UNCHANGED vars
  PROVE  UNCHANGED Stream!vars
<1>1. UNCHANGED <<ring, sent, wire, rt, i>>
  BY DEF RcvStep, RcvProgress, RcvLoop, RcvExchange, RcvKilled, RcvRead,
         RcvReadFails, SpuriousWakeup, Exited, vars, rtVars, txVars, sndVars
<1>2. RingSame
  BY <1>1 DEF RingSame, ring
<1>3. Pending' = Pending /\ Size' = Size
  BY <1>1, <1>2, PendingSame, Unmoved
<1> QED
  BY <1>1, <1>3 DEF Stream!vars, Up

StreamInv == TypeInv /\ Fits

(* How full the ring is, at each place of the two threads that share it.   *)
THEOREM RingInvariance == Spec => []StreamInv
<1>1. Init => StreamInv
  BY FitsInit DEF StreamInv
<1>2. StreamInv /\ [Next]_vars => StreamInv'
  BY TypeStep, FitsStep DEF StreamInv
<1> QED
  BY <1>1, <1>2, PTL DEF Spec

(* The ring of TCPdqf.h, filled and emptied by two threads without a lock, *)
(* is a bounded queue of whole samples: TcpAsync implements WordStream.    *)
THEOREM RingIsQueue == Spec => StreamInOrder
<1>1. Init => Stream!Init
  <2> SUFFICES ASSUME Init PROVE Stream!Init
    OBVIOUS
  <2>1. TypeInv /\ Fits /\ sent = 0 /\ locin = 0 /\ locout = 0 /\ rt = "init"
    BY FitsInit DEF Init
  <2>2. Count = 0
    <3>1. PICK M \in Nat \ {0} : M = LocMod
      BY <2>1, RingNumbers
    <3>2. (0 + M - 0) % M = 0
      BY MinusIs
    <3> QED
      BY <2>1, <3>1, <3>2 DEF Count, Minus
  <2>3. Pending \in Seq(Words \union {Uninit}) /\ Len(Pending) = 0
    BY <2>1, <2>2, PendingIs
  <2>4. Pending = <<>>
    BY <2>3, EmptySeq
  <2> QED
    BY <2>1, <2>4 DEF Stream!Init, Up
<1>2. StreamInv /\ BoxInv /\ [Next]_vars => [Stream!Next]_Stream!vars
  <2> SUFFICES ASSUME StreamInv, BoxInv, [Next]_vars
               PROVE  Stream!Next \/ UNCHANGED Stream!vars
    OBVIOUS
  <2>1. cfg' = cfg /\ TypeInv /\ Fits /\ LifeInv /\ Unopened
    BY CfgSame DEF StreamInv, BoxInv
  <2> QED
    BY <2>1, RtStreams, SndStreams, RestStutters DEF Next
<1> QED
  BY <1>1, <1>2, RingInvariance, BoxInvariance, PTL
  DEF Spec, StreamInOrder, Stream!Spec

-----------------------------------------------------------------------------
(* Liveness: end returns.  The fairness of TcpAsync says WF and SF, that   *)
(* is, ENABLED; here each action has its guard written out instead, and    *)
(* what is assumed is that a step whose guard keeps holding, or for SF     *)
(* holds again and again, is taken again and again.                        *)

EndCan ==
  \/ rt \in {"e_tx", "e_bcast", "e_test", "e_cond", "e_cancel", "e_rx"}
  \/ rt = "e_wait" /\ mutex = "free"
  \/ rt = "e_join" /\ SenderGone
  \/ rt = "e_rxjoin" /\ ReceiverGone
EndLockCan == rt = "e_lock" /\ mutex = "free"
TimeoutCan == rt = "e_wait" /\ mutex = "free"
SndLockCan ==
  /\ snd = "lock" \/ (snd = "wait" /\ "snd" \notin waiters)
  /\ mutex = "free"
SndCan ==
  \/ snd \in {"test", "cond", "count", "terminated", "bcast"}
  \/ snd = "write" /\ (to_send = 0 \/ cancelled)
  \/ snd = "wait" /\ cancelled /\ mutex = "free"
RcvCan == rcv \in {"loop", "exch"} \/ (rcv = "read" /\ rx_terminate)

EndRuns == []<>~EndCan \/ []<><<RtEnding>>_vars
EndLocks == <>[]~EndLockCan \/ []<><<RtEndLock>>_vars
EndTimesOut == <>[]~TimeoutCan \/ []<><<RtEndTimeout>>_vars
SndLocks == <>[]~SndLockCan \/ []<><<SndLock>>_vars
SndRuns == []<>~SndCan \/ []<><<SndProgress>>_vars
RcvRuns == []<>~RcvCan \/ []<><<RcvProgress>>_vars

(* Who holds the mutex, and what end has told the threads at each place.   *)
Holders ==
  /\ mutex = "rt" <=> rt \in {"e_test", "e_cond"}
  /\ mutex = "snd" => snd \in {"test", "cond", "count", "killed"}
  /\ snd \in {"test", "cond", "count"} => mutex = "snd"

Told ==
  /\ rt \in {"e_bcast", "e_lock", "e_test", "e_cond", "e_wait", "e_cancel",
             "e_join"} => tx_terminate
  /\ cancelled => rt \in {"e_join", "e_rx", "e_rxjoin", "closed", "exit"}
  /\ snd = "killed" => cancelled
  /\ tx_terminated => snd \in {"bcast", "dead"}
  /\ rt = "e_join" => cancelled \/ tx_terminated
  /\ rt = "e_rxjoin" => rx_terminate

EndInv == StreamInv /\ Holders /\ Told

LEMMA HoldersStep ==
  EndInv /\ [Next]_vars => Holders' /\ Told'
<1> SUFFICES ASSUME EndInv, [Next]_vars PROVE Holders' /\ Told'
  OBVIOUS
<1> USE DEF EndInv, Holders, Told
<1>1. CASE RtInit \/ RtConnectFails
  BY <1>1 DEF RtInit, RtConnectFails, sync, flags, sndVars
<1>2. CASE RtInout \/ RtEnd
  BY <1>2 DEF RtInout, RtSample, RtPut, RtBroadcast, RtExchange, RtApply, RtEnd,
              RtToReceive, RtToEndRx, sync, flags, sndVars
<1>3. CASE RtTerminate \/ RtEndBroadcast \/ RtEndLock \/ RtEndWait \/ RtEndWoken
             \/ RtEndTimeout \/ RtCancel
  BY <1>3 DEF RtTerminate, RtEndBroadcast, RtEndLock, RtEndWait, RtEndWoken,
              RtEndTimeout, RtCancel, sync, flags, sndVars
<1>4. CASE RtEndTest
  BY <1>4 DEF RtEndTest, sync, flags, sndVars, StreamInv, TypeInv, SyncTypes
<1>5. CASE RtJoin \/ RtCancelRx \/ RtJoinRx
  BY <1>5 DEF RtJoin, RtCancelRx, RtJoinRx, RtToEndRx, sync, flags, sndVars
<1>6. CASE SndStep
  BY <1>6
  DEF SndStep, SndLock, SndProgress, SndTest, SndWait, SndCount, SndSkip,
      SndTerminated, SndBroadcast, SndKilled, SndWrite, SndWriteFails,
      rtVars, sync, flags
<1>7. CASE RcvStep
  BY <1>7 DEF RcvStep, RcvProgress, RcvLoop, RcvExchange, RcvKilled, RcvRead,
              RcvReadFails, rtVars, txVars, sync, flags, sndVars
<1>8. CASE SpuriousWakeup \/ Exited \/ UNCHANGED vars
  BY <1>8 DEF SpuriousWakeup, Exited, vars, rtVars, sync, flags, sndVars
<1> QED
  BY <1>1, <1>2, <1>3, <1>4, <1>5, <1>6, <1>7, <1>8 DEF Next, RtStep, RtEnding

LEMMA EndInvariance == Spec => []EndInv
<1>1. Init => Holders /\ Told
  BY DEF Init, Holders, Told
<1>2. StreamInv /\ [Next]_vars => StreamInv'
  BY TypeStep, FitsStep DEF StreamInv
<1>3. EndInv /\ [Next]_vars => EndInv'
  BY <1>2, HoldersStep DEF EndInv
<1> QED
  BY <1>1, <1>3, RingInvariance, PTL DEF Spec, EndInv

-----------------------------------------------------------------------------
(* The places of end, in their order: before it waits for the sender, in   *)
(* that wait, after it, and where it joins the receiver.                   *)
InTx == rt = "e_tx"
InBcast == rt = "e_bcast"
InLoop == rt \in {"e_lock", "e_test", "e_cond", "e_wait"}
InCancel == rt = "e_cancel"
InJoin == rt = "e_join"
InRx == rt = "e_rx"
InRxJoin == rt = "e_rxjoin"
InClosed == rt = "closed"

LEMMA OnlyRtMoves == [Next]_vars /\ ~RtStep => rt' = rt
<1>1. SndStep => rt' = rt
  BY DEF SndStep, SndLock, SndProgress, SndTest, SndWait, SndCount, SndSkip,
         SndTerminated, SndBroadcast, SndKilled, SndWrite, SndWriteFails, rtVars
<1>2. RcvStep => rt' = rt
  BY DEF RcvStep, RcvProgress, RcvLoop, RcvExchange, RcvKilled, RcvRead,
         RcvReadFails, rtVars
<1>3. SpuriousWakeup \/ Exited \/ UNCHANGED vars => rt' = rt
  BY DEF SpuriousWakeup, Exited, vars, rtVars
<1> QED
  BY <1>1, <1>2, <1>3 DEF Next

LEMMA EndGoesOn ==
  [Next]_vars =>
    /\ InTx => InTx' \/ InBcast'
    /\ InBcast => InBcast' \/ InLoop'
    /\ InLoop => InLoop' \/ InCancel' \/ InJoin'
    /\ InCancel => InCancel' \/ InJoin'
    /\ InJoin => InJoin' \/ InRx' \/ InClosed'
    /\ InRx => InRx' \/ InRxJoin'
    /\ InRxJoin => InRxJoin' \/ InClosed'
<1> SUFFICES ASSUME [Next]_vars,
                    InTx \/ InBcast \/ InLoop \/ InCancel \/ InJoin \/ InRx
                      \/ InRxJoin
             PROVE  /\ InTx => InTx' \/ InBcast'
                    /\ InBcast => InBcast' \/ InLoop'
                    /\ InLoop => InLoop' \/ InCancel' \/ InJoin'
                    /\ InCancel => InCancel' \/ InJoin'
                    /\ InJoin => InJoin' \/ InRx' \/ InClosed'
                    /\ InRx => InRx' \/ InRxJoin'
                    /\ InRxJoin => InRxJoin' \/ InClosed'
  OBVIOUS
<1> USE DEF InTx, InBcast, InLoop, InCancel, InJoin, InRx, InRxJoin, InClosed
<1>1. CASE RtStep
  BY <1>1 DEF RtStep, RtInit, RtConnectFails, RtInout, RtSample, RtPut,
              RtBroadcast, RtExchange, RtApply, RtEnd, RtEnding, RtTerminate,
              RtEndBroadcast, RtEndLock, RtEndTest, RtEndWait, RtEndWoken,
              RtEndTimeout, RtCancel, RtJoin, RtCancelRx, RtJoinRx, RtToEndRx
<1>2. CASE UNCHANGED rt
  BY <1>2
<1>3. CASE ~RtStep
  BY <1>2, <1>3, OnlyRtMoves
<1> QED
  BY <1>1, <1>3

-----------------------------------------------------------------------------
(* The wait for the sender ends: whoever holds the mutex gives it back, so *)
(* pthread_cond_timedwait can return again and again, and with SF it does  *)
(* so at last because its time is over.                                    *)
AtLock == rt = "e_lock"
AtTest == rt = "e_test"
AtCond == rt = "e_cond"
AtWait == rt = "e_wait"
Freed == mutex = "free"
RtHolds2 == mutex = "rt" /\ rt = "e_test"
RtHolds1 == mutex = "rt" /\ rt = "e_cond"
SndHolds2 == mutex = "snd" /\ snd = "test"
SndHolds1 == mutex = "snd" /\ snd \in {"cond", "count"}

LEMMA LoopFacts ==
  /\ EndInv /\ InLoop
       => Freed \/ RtHolds2 \/ RtHolds1 \/ SndHolds2 \/ SndHolds1
  /\ InLoop <=> AtLock \/ AtTest \/ AtCond \/ AtWait
  /\ ~(AtLock /\ AtTest) /\ ~(AtTest /\ AtCond) /\ ~(AtCond /\ AtWait)
  /\ RtHolds2 \/ RtHolds1 \/ AtTest \/ AtCond => EndCan
  /\ SndHolds2 \/ SndHolds1 => SndCan
  /\ AtLock /\ Freed => EndLockCan
  /\ AtWait /\ Freed => TimeoutCan
  /\ ~(InLoop /\ InCancel)
BY DEF EndInv, StreamInv, TypeInv, SyncTypes, Holders, Told, InLoop, InCancel,
       AtLock, AtTest, AtCond, AtWait, Freed, RtHolds2, RtHolds1, SndHolds2,
       SndHolds1, EndCan, SndCan, EndLockCan, TimeoutCan

LEMMA HolderSteps ==
  /\ EndInv /\ InLoop /\ [Next]_vars /\ InLoop' =>
       /\ RtHolds2 => RtHolds2' \/ RtHolds1' \/ Freed'
       /\ RtHolds1 => RtHolds1' \/ Freed'
       /\ SndHolds2 => SndHolds2' \/ SndHolds1' \/ Freed'
       /\ SndHolds1 => SndHolds1' \/ Freed'
  /\ InLoop /\ <<RtEnding>>_vars /\ InLoop' =>
       /\ RtHolds2 => RtHolds1' \/ Freed'
       /\ RtHolds1 => Freed'
  /\ InLoop /\ <<SndProgress>>_vars =>
       /\ SndHolds2 => SndHolds1' \/ Freed'
       /\ SndHolds1 /\ ~cancelled => Freed'
  /\ EndInv /\ InLoop => ~cancelled
<1> USE DEF InLoop, RtHolds2, RtHolds1, SndHolds2, SndHolds1, Freed
<1>1. InLoop /\ RtEnding /\ InLoop' =>
        /\ RtHolds2 => RtHolds1' \/ Freed'
        /\ RtHolds1 => Freed'
  BY DEF RtEnding, RtTerminate, RtEndBroadcast, RtEndTest, RtEndWait,
         RtEndTimeout, RtCancel, RtJoin, RtCancelRx, RtJoinRx
<1>2. InLoop /\ SndProgress =>
        /\ SndHolds2 => SndHolds1' \/ Freed'
        /\ SndHolds1 /\ ~cancelled => Freed'
  BY DEF SndProgress, SndTest, SndWait, SndCount, SndSkip, SndTerminated,
         SndBroadcast, SndKilled, sync
<1>3. EndInv /\ InLoop => ~cancelled
  BY DEF EndInv, Told
<1>4. ASSUME EndInv, InLoop, [Next]_vars, InLoop', ~RtEnding, ~SndProgress,
             RtHolds2 \/ RtHolds1 \/ SndHolds2 \/ SndHolds1
      PROVE  /\ mutex' = mutex
             /\ RtHolds2 \/ RtHolds1 => rt' = rt
             /\ SndHolds2 \/ SndHolds1 => snd' = snd
  <2>1. CASE RtStep
    BY <1>4, <2>1 DEF RtStep, RtInit, RtConnectFails, RtInout, RtSample, RtPut,
       RtBroadcast, RtExchange, RtApply, RtEnd, RtEndLock, RtEndWoken, sync
  <2>2. CASE SndStep
    BY <1>4, <2>2 DEF SndStep, SndLock, SndWrite, SndWriteFails, sync, rtVars
  <2>3. CASE RcvStep
    BY <2>3 DEF RcvStep, RcvProgress, RcvLoop, RcvExchange, RcvKilled, RcvRead,
                RcvReadFails, txVars, sync, sndVars, rtVars
  <2>4. CASE SpuriousWakeup \/ Exited \/ UNCHANGED vars
    BY <2>4 DEF SpuriousWakeup, Exited, vars, sync, sndVars, rtVars
  <2> QED
    BY <1>4, <2>1, <2>2, <2>3, <2>4 DEF Next
<1>5. ASSUME EndInv, InLoop, RtEnding, InLoop', SndHolds2 \/ SndHolds1
      PROVE  UNCHANGED <<mutex, snd>>
  BY <1>5 DEF RtEnding, RtTerminate, RtEndBroadcast, RtEndTest, RtEndWait,
         RtEndTimeout, RtCancel, RtJoin, RtCancelRx, RtJoinRx, EndInv, Holders,
         sync, sndVars
<1>6. ASSUME EndInv, InLoop, SndProgress, RtHolds2 \/ RtHolds1
      PROVE  UNCHANGED <<mutex, rt>>
  BY <1>3, <1>6
  DEF SndProgress, SndTest, SndWait, SndCount, SndSkip, SndTerminated,
      SndBroadcast, SndKilled, EndInv, Holders, Told, sync, rtVars
<1> QED
  BY <1>1, <1>2, <1>3, <1>4, <1>5, <1>6

(* The places in that wait: no step leads back but the one from a wake-up. *)
LEMMA LoopSteps ==
  /\ [Next]_vars =>
       /\ AtLock => AtLock' \/ AtTest'
       /\ AtTest => AtTest' \/ AtCond' \/ ~InLoop'
       /\ AtCond => AtCond' \/ AtWait'
       /\ AtWait /\ ~Freed => AtWait'
  /\ <<RtEnding>>_vars =>
       /\ AtTest => AtCond' \/ ~InLoop'
       /\ AtCond => AtWait'
  /\ <<RtEndLock>>_vars => AtTest'
  /\ <<RtEndTimeout>>_vars => InCancel'
<1> USE DEF AtLock, AtTest, AtCond, AtWait, Freed, InLoop, InCancel
<1>1. CASE RtStep
  BY <1>1 DEF RtStep, RtInit, RtConnectFails, RtInout, RtSample, RtPut,
              RtBroadcast, RtExchange, RtApply, RtEnd, RtEnding, RtTerminate,
              RtEndBroadcast, RtEndLock, RtEndTest, RtEndWait, RtEndWoken,
              RtEndTimeout, RtCancel, RtJoin, RtCancelRx, RtJoinRx
<1>2. CASE ~RtStep
  BY <1>2, OnlyRtMoves DEF RtStep, RtEnding
<1> QED
  BY <1>1, <1>2

LoopFair == EndRuns /\ EndLocks /\ EndTimesOut /\ SndRuns

LEMMA MutexFreed ==
  Spec /\ LoopFair => (<>[]InLoop => []<>Freed)
<1> QED
  BY LoopFacts, HolderSteps, EndInvariance, PTL
  DEF Spec, LoopFair, EndRuns, SndRuns

LEMMA LoopWaits ==
  Spec /\ LoopFair => (<>[]InLoop => []<>AtWait)
<1>1. Spec /\ LoopFair => (<>[]InLoop => ~<>[]AtLock)
  BY LoopFacts, LoopSteps, MutexFreed, PTL DEF Spec, LoopFair, EndLocks
<1> QED
  BY <1>1, LoopFacts, LoopSteps, PTL DEF Spec, LoopFair, EndRuns

LEMMA LoopEnds == Spec /\ LoopFair => ~<>[]InLoop
  BY LoopFacts, LoopSteps, MutexFreed, LoopWaits, PTL
  DEF Spec, LoopFair, EndTimesOut

-----------------------------------------------------------------------------
(* The sender ends once it is told and cancelled.  It need not be in write *)
(* when the cancellation comes, and the words the peer still takes may let *)
(* it go on; but with no sample to come it has at most two more pieces of  *)
(* the ring to write: to the end of the memory, and from its beginning.    *)

Clears == sent + to_send = Count
Turns == (locout % Size) + sent + to_send = Size
Straight == CountCont = Count

(* The sender has at most k steps to go, those of write() not counted. *)
GoneWithin(k) ==
  /\ snd = "test" /\ ~terminate => k >= 19
  /\ snd = "cond" => k >= 18
  /\ snd = "wait" => k >= 17
  /\ snd = "count" /\ ~terminate => k >= 16
  /\ snd = "write" /\ ~SndOver => k >= 7
  /\ snd = "write" /\ ~SndOver /\ ~Clears => k >= 11
  /\ snd = "write" /\ ~SndOver /\ ~Clears /\ ~Turns => k >= 15
  /\ snd = "lock" => k >= 6
  /\ snd = "lock" /\ ~IsEmpty => k >= 10
  /\ snd = "lock" /\ ~IsEmpty /\ ~Straight => k >= 14
  /\ snd = "test" /\ terminate => k >= 5
  /\ snd = "test" /\ terminate /\ ~IsEmpty => k >= 9
  /\ snd = "test" /\ terminate /\ ~IsEmpty /\ ~Straight => k >= 13
  /\ snd = "count" /\ terminate => k >= 4
  /\ snd = "count" /\ terminate /\ ~empty => k >= 8
  /\ snd = "count" /\ terminate /\ ~empty /\ ~Straight => k >= 12
  /\ snd = "write" => k >= 3
  /\ snd = "terminated" => k >= 2
  /\ snd = "bcast" => k >= 1

GoneStays(j) ==
  EndInv /\ InJoin /\ GoneWithin(j) /\ [Next]_vars /\ InJoin' => GoneWithin(j)'
NearsGone(k, j) ==
  /\ EndInv /\ InJoin /\ GoneWithin(k) /\ <<SndProgress>>_vars => GoneWithin(j)'
  /\ EndInv /\ InJoin /\ GoneWithin(k) /\ <<SndLock>>_vars => GoneWithin(j)'

(* What a piece written leaves in the ring. *)
LEMMA PieceCounted ==
  ASSUME EndInv, SndCount
  PROVE  Clears' \/ (Turns' /\ ~Straight)
<1>1. sent = 0 /\ sent' = 0 /\ to_send' = CountCont /\ cfg' = cfg
  BY DEF SndCount, EndInv, StreamInv, TypeInv, TxTypes, rtVars
<1>2. UNCHANGED <<locin, locout, buff, cfg>>
  BY DEF SndCount, rtVars, ring
<1>3. Count' = Count /\ Size' = Size
  BY <1>2, Unmoved DEF RingSame
<1>4. Count \in Nat /\ Size \in Nat /\ locout % Size \in Nat
  BY RingRanges DEF EndInv, StreamInv
<1>5. (locout % Size)' = locout % Size
  BY <1>2, <1>3
<1>6. CASE CountCont = Count
  BY <1>1, <1>3, <1>4, <1>6 DEF Clears
<1>7. CASE ~(CountCont = Count)
  <2>1. CountCont = Size - (locout % Size)
    BY <1>7 DEF CountCont
  <2>2. (locout % Size) + 0 + CountCont = Size
    BY <1>4, <2>1
  <2> QED
    BY <1>1, <1>3, <1>5, <1>7, <2>2 DEF Turns, Straight
<1> QED
  BY <1>6, <1>7

LEMMA PieceSkipped ==
  ASSUME EndInv, SndSkip, cfg' = cfg
  PROVE  /\ Clears => IsEmpty'
         /\ Turns => Straight'
<1>1. /\ TypeInv /\ Fits /\ to_send = 0
      /\ locout' = Plus(locout, sent) /\ locin' = locin
      /\ Count' = Count - sent
  BY SkipCounts DEF EndInv, StreamInv, SndSkip
<1>2. PICK S \in Nat \ {0}, M \in Nat \ {0}, c \in Nat :
        /\ S = Size /\ M = LocMod /\ c = Count /\ S < M /\ c < M /\ c <= S
        /\ M % S = 0
        /\ locin \in 0..(M - 1) /\ locout \in 0..(M - 1)
        /\ sent \in Nat /\ sent <= c
        /\ c = (locin + M - locout) % M
  <2>1. Count <= Size /\ sent + 0 <= Count
    BY <1>1 DEF Fits
  <2>2. PICK S \in Nat \ {0}, M \in Nat \ {0}, c \in Nat :
          /\ S = Size /\ M = LocMod /\ c = Count /\ S < M /\ c < M
          /\ M % S = 0
          /\ locin \in 0..(M - 1) /\ locout \in 0..(M - 1)
          /\ sent \in Nat
          /\ c = (locin + M - locout) % M
    BY <1>1, RingNumbers
  <2>3. c <= S /\ sent <= c
    BY <2>1, <2>2
  <2> QED
    BY <2>2, <2>3
<1>3. Size' = S /\ LocMod' = M
  <2>1. Size' = Size /\ LocMod' = LocMod
    BY DEF Size, LocMod
  <2> QED
    BY <1>2, <2>1
<1>4. ASSUME Clears PROVE IsEmpty'
  <2>1. sent = c
    BY <1>1, <1>2, <1>4 DEF Clears
  <2>2. (locout + c) % M = locin
    BY <1>2, CountMoves
  <2> QED
    BY <1>1, <1>2, <2>1, <2>2 DEF IsEmpty, Plus
<1>5. ASSUME Turns PROVE Straight'
  <2>1. (locout % S) + sent = S
    BY <1>1, <1>2, <1>5, RingRanges DEF Turns
  <2>2. ((locout + sent) % M) % S = (locout + sent) % S
    <3>1. locout + sent \in Int
      BY <1>2
    <3> QED
      BY <1>2, <3>1, ModMod, Zenon
  <2>3. (locout + sent) % S = 0
    <3>1. PICK q \in Int : locout = q * S + (locout % S)
      <4>1. locout \in Int
        BY <1>2
      <4> QED
        BY <4>1, Quotient
    <3>2. locout % S \in 0..(S - 1) /\ sent = S - (locout % S)
      BY <1>2, <2>1
    <3>3. (q + 1) * S = q * S + S
      BY <1>2
    <3>4. locout + sent = (q + 1) * S + 0 /\ q + 1 \in Int
      BY <1>2, <3>1, <3>2, <3>3
    <3>5. ((q + 1) * S + 0) % S = 0
      BY <3>4, ModUnique
    <3> QED
      BY <3>4, <3>5
  <2>4. (locout' % Size') = 0
    BY <1>1, <1>2, <1>3, <2>2, <2>3 DEF Plus
  <2>5. Count' \in Nat /\ Count' <= S
    BY <1>1, <1>2
  <2> QED
    BY <1>3, <2>4, <2>5 DEF Straight, CountCont
<1> QED
  BY <1>4, <1>5

LEMMA PiecesKept ==
  ASSUME RingSame
  PROVE  (IsEmpty' <=> IsEmpty) /\ (Straight' <=> Straight)
<1>1. Count' = Count /\ Size' = Size
  BY Unmoved
<1>2. locin' = locin /\ locout' = locout
  BY DEF RingSame
<1> QED
  BY <1>1, <1>2 DEF IsEmpty, Straight, CountCont

LEMMA PieceWritten ==
  ASSUME EndInv, SndWrite
  PROVE  (Clears' <=> Clears) /\ (Turns' <=> Turns)
<1>1. RingSame /\ sent' = sent + 1 /\ to_send' = to_send - 1 /\ locout' = locout
  BY DEF SndWrite, RingSame, rtVars, ring
<1>2. Count' = Count /\ Size' = Size
  BY <1>1, Unmoved
<1>3. sent \in Nat /\ to_send \in Nat /\ locout % Size \in Nat
  BY RingRanges DEF EndInv, StreamInv
<1>4. (locout % Size)' = locout % Size
  BY <1>1, <1>2
<1>5. (sent + to_send)' = sent + to_send
  BY <1>1, <1>3
<1>6. ((locout % Size) + sent + to_send)' = (locout % Size) + sent + to_send
  BY <1>1, <1>3, <1>4
<1> QED
  BY <1>2, <1>5, <1>6 DEF Clears, Turns

(* Each step of the sender that is not a write brings it nearer its end.   *)
LEMMA SenderNears ==
  ASSUME NEW j \in 0..18, EndInv, InJoin, GoneWithin(j + 1),
         SndProgress \/ SndLock
  PROVE  GoneWithin(j)'
<1>1. /\ tx_terminate = TRUE /\ snd \in SndLabels
      /\ terminate \in BOOLEAN /\ empty \in BOOLEAN
  BY DEF EndInv, StreamInv, TypeInv, SyncTypes, TxTypes, Told, InJoin
<1>2. cfg' = cfg
  BY DEF SndProgress, SndTest, SndWait, SndCount, SndSkip, SndTerminated,
         SndBroadcast, SndKilled, SndLock, rtVars
<1> USE <1>1, <1>2 DEF GoneWithin
<1>3. CASE SndLock
  <2>1. (IsEmpty' <=> IsEmpty) /\ (Straight' <=> Straight)
    BY <1>3, PiecesKept DEF SndLock, RingSame, ring
  <2>2. snd' = "test" /\ terminate' = TRUE /\ snd \in {"lock", "wait"}
    BY <1>3 DEF SndLock
  <2> QED
    BY <2>1, <2>2
<1>4. CASE SndTest
  <2>1. (IsEmpty' <=> IsEmpty) /\ (Straight' <=> Straight)
    BY <1>4, PiecesKept DEF SndTest, RingSame, ring
  <2>2. /\ snd = "test" /\ terminate' = terminate
        /\ empty' <=> IsEmpty
        /\ snd' = IF IsEmpty /\ ~terminate THEN "cond" ELSE "count"
    BY <1>4 DEF SndTest
  <2> QED
    BY <2>1, <2>2
<1>5. CASE SndWait
  BY <1>5 DEF SndWait
<1>6. CASE SndCount
  <2>1. Clears' \/ (Turns' /\ ~Straight)
    BY <1>6, PieceCounted
  <2>2. /\ snd = "count" /\ snd' = "write"
        /\ terminate' = terminate /\ empty' = empty
    BY <1>6 DEF SndCount
  <2>3. SndOver' <=> terminate /\ empty
    BY <2>2 DEF SndOver
  <2> QED
    BY <2>1, <2>2, <2>3
<1>7. CASE SndSkip
  <2>1. (Clears => IsEmpty') /\ (Turns => Straight')
    BY <1>7, PieceSkipped
  <2>2. /\ snd = "write"
        /\ snd' = IF SndOver THEN "terminated" ELSE "lock"
    BY <1>7 DEF SndSkip
  <2> QED
    BY <2>1, <2>2
<1>8. CASE SndTerminated \/ SndBroadcast \/ SndKilled
  <2>1. \/ snd = "terminated" /\ snd' = "bcast"
        \/ snd' \in {"dead", "killed"}
    BY <1>8 DEF SndTerminated, SndBroadcast, SndKilled
  <2> QED
    BY <2>1
<1> QED
  BY <1>3, <1>4, <1>5, <1>6, <1>7, <1>8 DEF SndProgress

LEMMA OthersStay ==
  ASSUME NEW j \in 0..18, EndInv, InJoin, GoneWithin(j), [Next]_vars, InJoin',
         ~SndProgress, ~SndLock
  PROVE  GoneWithin(j)'
<1> USE DEF GoneWithin
<1>1. CASE SndWrite
  <2>1. (Clears' <=> Clears) /\ (Turns' <=> Turns)
    BY <1>1, PieceWritten
  <2>2. /\ snd = "write" /\ snd' = "write"
        /\ terminate' = terminate /\ empty' = empty
    BY <1>1 DEF SndWrite
  <2>3. SndOver' <=> SndOver
    BY <2>2 DEF SndOver
  <2> QED
    BY <2>1, <2>2, <2>3
<1>2. CASE SndWriteFails
  BY <1>2 DEF SndWriteFails, SndOver
<1>3. CASE UNCHANGED <<cfg, ring, sndVars>>
  <2>1. RingSame /\ UNCHANGED <<snd, terminate, empty, to_send, sent>>
    BY <1>3 DEF RingSame, ring, sndVars
  <2>2. (IsEmpty' <=> IsEmpty) /\ (Straight' <=> Straight)
    BY <2>1, PiecesKept
  <2>3. (Clears' <=> Clears) /\ (Turns' <=> Turns) /\ (SndOver' <=> SndOver)
    <3>1. Count' = Count /\ Size' = Size /\ locout' = locout
      BY <2>1, Unmoved DEF RingSame
    <3> QED
      BY <2>1, <3>1 DEF Clears, Turns, SndOver
  <2> QED
    BY <2>1, <2>2, <2>3
<1>4. CASE RcvStep
  <2>1. UNCHANGED <<cfg, ring, sndVars>>
    BY <1>4 DEF RcvStep, RcvProgress, RcvLoop, RcvExchange, RcvKilled, RcvRead,
                RcvReadFails, txVars, rtVars
  <2> QED
    BY <1>3, <2>1
<1>5. CASE SpuriousWakeup \/ Exited \/ UNCHANGED vars
  <2>1. UNCHANGED <<cfg, ring, sndVars>>
    BY <1>5 DEF SpuriousWakeup, Exited, vars, rtVars
  <2> QED
    BY <1>3, <2>1
<1>6. ~RtStep
  BY DEF InJoin, RtStep, RtInit, RtConnectFails, RtInout, RtSample, RtPut,
         RtBroadcast, RtExchange, RtApply, RtEnd, RtEnding, RtTerminate,
         RtEndBroadcast, RtEndLock, RtEndTest, RtEndWait, RtEndWoken,
         RtEndTimeout, RtCancel, RtJoin, RtCancelRx, RtJoinRx, RtToEndRx
<1> QED
  BY <1>1, <1>2, <1>4, <1>5, <1>6 DEF Next, SndStep

LEMMA TowardsGone ==
  ASSUME NEW j \in 0..18
  PROVE  GoneStays(j) /\ NearsGone(j + 1, j)
<1>1. GoneWithin(j) => GoneWithin(j + 1)
  BY DEF GoneWithin
<1>2. NearsGone(j + 1, j)
  BY SenderNears DEF NearsGone
<1>3. GoneStays(j)
  BY <1>1, SenderNears, OthersStay DEF GoneStays
<1> QED
  BY <1>2, <1>3

Gone == SenderGone

LEMMA SenderRuns ==
  /\ EndInv /\ InJoin => SndCan \/ SndLockCan \/ GoneWithin(0)
  /\ EndInv /\ GoneWithin(0) => Gone
  /\ GoneWithin(19)
  /\ InJoin /\ Gone => EndCan
  /\ InTx \/ InBcast \/ InCancel \/ InRx => EndCan
<1>1. EndInv => snd \in SndLabels
  BY DEF EndInv, StreamInv, TypeInv, TxTypes
<1>2. EndInv /\ GoneWithin(0) => Gone
  BY <1>1 DEF GoneWithin, Gone, SenderGone, SndLabels
<1>3. ASSUME EndInv, InJoin, ~SndCan, ~SndLockCan PROVE GoneWithin(0)
  <2>1. snd \notin {"test", "cond", "count", "terminated", "bcast"}
    BY <1>3 DEF SndCan
  <2>2. mutex = "free" \/ snd = "killed"
    BY <1>3, <2>1 DEF EndInv, StreamInv, TypeInv, SyncTypes, Holders, InJoin
  <2>3. cancelled \/ snd \in {"bcast", "dead"}
    BY <1>3 DEF EndInv, Told, InJoin
  <2>4. snd \notin {"lock", "wait", "write"}
    BY <1>3, <2>2, <2>3 DEF SndCan, SndLockCan
  <2> QED
    BY <2>1, <2>4 DEF GoneWithin
<1>4. GoneWithin(19)
  BY DEF GoneWithin
<1> QED
  BY <1>2, <1>3, <1>4
  DEF Gone, EndCan, InJoin, InTx, InBcast, InCancel, InRx

LEMMA EndingLeaves ==
  <<RtEnding>>_vars =>
    /\ InTx => ~InTx'
    /\ InBcast => ~InBcast'
    /\ InCancel => ~InCancel'
    /\ InJoin => ~InJoin'
    /\ InRx => ~InRx'
    /\ InRxJoin => ~InRxJoin'
BY DEF RtEnding, RtTerminate, RtEndBroadcast, RtEndTest, RtEndWait,
       RtEndTimeout, RtCancel, RtJoin, RtCancelRx, RtJoinRx, RtToEndRx,
       InTx, InBcast, InCancel, InJoin, InRx, InRxJoin

(* The receiver has at most k steps to go, those of read() not counted.    *)
ReadWithin(k) ==
  /\ rcv = "read" => k >= 3
  /\ rcv = "exch" => k >= 2
  /\ rcv = "loop" => k >= 1

ReadStays(j) ==
  EndInv /\ InRxJoin /\ ReadWithin(j) /\ [Next]_vars /\ InRxJoin'
    => ReadWithin(j)'
NearsRead(k, j) ==
  EndInv /\ InRxJoin /\ ReadWithin(k) /\ <<RcvProgress>>_vars
    => ReadWithin(j)'

LEMMA TowardsRead ==
  ASSUME NEW j \in 0..2
  PROVE  ReadStays(j) /\ NearsRead(j + 1, j)
<1> USE DEF ReadWithin
<1>1. EndInv /\ InRxJoin => rx_terminate
  BY DEF EndInv, Told, InRxJoin
<1>2. ASSUME EndInv, InRxJoin, ReadWithin(j + 1), RcvProgress
      PROVE  ReadWithin(j)'
  <2>1. \/ rcv = "exch" /\ rcv' = "loop"
        \/ rcv' = "dead"
    BY <1>1, <1>2 DEF RcvProgress, RcvLoop, RcvExchange, RcvKilled
  <2> QED
    BY <1>2, <2>1
<1>3. ASSUME EndInv, InRxJoin, ReadWithin(j), [Next]_vars, InRxJoin',
             ~RcvProgress
      PROVE  ReadWithin(j)'
  <2>1. CASE RcvRead \/ RcvReadFails
    <3>1. rcv = "read" /\ rcv' \in {"read", "exch"}
      BY <2>1 DEF RcvRead, RcvReadFails
    <3> QED
      BY <1>3, <3>1
  <2>2. CASE rcv' = rcv
    BY <1>3, <2>2
  <2>3. SndStep \/ SpuriousWakeup \/ Exited \/ UNCHANGED vars => rcv' = rcv
    BY DEF SndStep, SndLock, SndProgress, SndTest, SndWait, SndCount, SndSkip,
           SndTerminated, SndBroadcast, SndKilled, SndWrite, SndWriteFails,
           SpuriousWakeup, Exited, vars, rxVars, rcvVars
  <2>4. ~RtStep
    BY <1>3 DEF InRxJoin, RtStep, RtInit, RtConnectFails, RtInout, RtSample,
       RtPut, RtBroadcast, RtExchange, RtApply, RtEnd, RtEnding, RtTerminate,
       RtEndBroadcast, RtEndLock, RtEndTest, RtEndWait, RtEndWoken,
       RtEndTimeout, RtCancel, RtJoin, RtCancelRx, RtJoinRx, RtToEndRx
  <2> QED
    BY <1>3, <2>1, <2>2, <2>3, <2>4 DEF Next, RcvStep
<1>4. ReadWithin(j) => ReadWithin(j + 1)
  OBVIOUS
<1> HIDE DEF ReadWithin
<1> QED
  BY <1>2, <1>3, <1>4 DEF ReadStays, NearsRead

LEMMA ReceiverRuns ==
  /\ EndInv /\ InRxJoin => RcvCan \/ ReadWithin(0)
  /\ EndInv /\ InRxJoin /\ ReadWithin(0) => EndCan
  /\ ReadWithin(3)
<1>1. EndInv => rcv \in RcvLabels
  BY DEF EndInv, StreamInv, TypeInv, RxTypes, RxTypeOK
<1>2. EndInv /\ InRxJoin => rx_terminate
  BY DEF EndInv, Told, InRxJoin
<1> QED
  BY <1>1, <1>2
  DEF ReadWithin, RcvCan, RcvLabels, EndCan, InRxJoin, ReceiverGone

GoneRuns(j) == EndInv /\ InJoin => SndCan \/ SndLockCan \/ GoneWithin(j)

JoinFair == SndLocks /\ SndRuns

(* A sender that is told to end does, whether the peer reads or not. *)
LEMMA SenderEnds == Spec /\ JoinFair => (<>[]InJoin => <>[]Gone)
<1>1. /\ GoneStays(18) /\ GoneStays(17) /\ GoneStays(16) /\ GoneStays(15)
      /\ GoneStays(14) /\ GoneStays(13) /\ GoneStays(12) /\ GoneStays(11)
      /\ GoneStays(10) /\ GoneStays(9) /\ GoneStays(8) /\ GoneStays(7)
      /\ GoneStays(6) /\ GoneStays(5) /\ GoneStays(4) /\ GoneStays(3)
      /\ GoneStays(2) /\ GoneStays(1) /\ GoneStays(0)
  <2>1. \A j \in 0..18 : GoneStays(j)
    BY TowardsGone
  <2> QED
    BY <2>1, SMT
<1>2. /\ NearsGone(19, 18) /\ NearsGone(18, 17) /\ NearsGone(17, 16)
      /\ NearsGone(16, 15) /\ NearsGone(15, 14) /\ NearsGone(14, 13)
      /\ NearsGone(13, 12) /\ NearsGone(12, 11) /\ NearsGone(11, 10)
      /\ NearsGone(10, 9) /\ NearsGone(9, 8) /\ NearsGone(8, 7)
      /\ NearsGone(7, 6) /\ NearsGone(6, 5) /\ NearsGone(5, 4)
      /\ NearsGone(4, 3) /\ NearsGone(3, 2) /\ NearsGone(2, 1)
      /\ NearsGone(1, 0)
  <2>1. \A j \in 0..18 : NearsGone(j + 1, j)
    BY TowardsGone
  <2> QED
    BY <2>1, SMT
<1>3. /\ GoneRuns(18) /\ GoneRuns(17) /\ GoneRuns(16) /\ GoneRuns(15)
      /\ GoneRuns(14) /\ GoneRuns(13) /\ GoneRuns(12) /\ GoneRuns(11)
      /\ GoneRuns(10) /\ GoneRuns(9) /\ GoneRuns(8) /\ GoneRuns(7)
      /\ GoneRuns(6) /\ GoneRuns(5) /\ GoneRuns(4) /\ GoneRuns(3)
      /\ GoneRuns(2) /\ GoneRuns(1) /\ GoneRuns(0)
  <2>1. \A j \in 0..18 : GoneWithin(0) => GoneWithin(j)
    BY DEF GoneWithin
  <2>2. \A j \in 0..18 : GoneRuns(j)
    BY <2>1, SenderRuns DEF GoneRuns
  <2> QED
    BY <2>2, SMT
<1>4. GoneWithin(19)
  BY SenderRuns
<1>5. Spec /\ JoinFair => (<>[]InJoin => <>[]GoneWithin(17))
  BY <1>1, <1>2, <1>3, <1>4, EndInvariance, PTL
  DEF Spec, JoinFair, SndLocks, SndRuns, GoneStays, NearsGone, GoneRuns
<1>6. Spec /\ JoinFair => (<>[]InJoin => <>[]GoneWithin(15))
  BY <1>1, <1>2, <1>3, <1>5, EndInvariance, PTL
  DEF Spec, JoinFair, SndLocks, SndRuns, GoneStays, NearsGone, GoneRuns
<1>7. Spec /\ JoinFair => (<>[]InJoin => <>[]GoneWithin(13))
  BY <1>1, <1>2, <1>3, <1>6, EndInvariance, PTL
  DEF Spec, JoinFair, SndLocks, SndRuns, GoneStays, NearsGone, GoneRuns
<1>8. Spec /\ JoinFair => (<>[]InJoin => <>[]GoneWithin(11))
  BY <1>1, <1>2, <1>3, <1>7, EndInvariance, PTL
  DEF Spec, JoinFair, SndLocks, SndRuns, GoneStays, NearsGone, GoneRuns
<1>9. Spec /\ JoinFair => (<>[]InJoin => <>[]GoneWithin(9))
  BY <1>1, <1>2, <1>3, <1>8, EndInvariance, PTL
  DEF Spec, JoinFair, SndLocks, SndRuns, GoneStays, NearsGone, GoneRuns
<1>10. Spec /\ JoinFair => (<>[]InJoin => <>[]GoneWithin(7))
  BY <1>1, <1>2, <1>3, <1>9, EndInvariance, PTL
  DEF Spec, JoinFair, SndLocks, SndRuns, GoneStays, NearsGone, GoneRuns
<1>11. Spec /\ JoinFair => (<>[]InJoin => <>[]GoneWithin(5))
  BY <1>1, <1>2, <1>3, <1>10, EndInvariance, PTL
  DEF Spec, JoinFair, SndLocks, SndRuns, GoneStays, NearsGone, GoneRuns
<1>12. Spec /\ JoinFair => (<>[]InJoin => <>[]GoneWithin(3))
  BY <1>1, <1>2, <1>3, <1>11, EndInvariance, PTL
  DEF Spec, JoinFair, SndLocks, SndRuns, GoneStays, NearsGone, GoneRuns
<1>13. Spec /\ JoinFair => (<>[]InJoin => <>[]GoneWithin(1))
  BY <1>1, <1>2, <1>3, <1>12, EndInvariance, PTL
  DEF Spec, JoinFair, SndLocks, SndRuns, GoneStays, NearsGone, GoneRuns
<1>14. Spec /\ JoinFair => (<>[]InJoin => <>[]GoneWithin(0))
  BY <1>1, <1>2, <1>3, <1>13, EndInvariance, PTL
  DEF Spec, JoinFair, SndLocks, SndRuns, GoneStays, NearsGone, GoneRuns
<1> QED
  BY <1>14, SenderRuns, EndInvariance, PTL

LEMMA ReceiverEnds ==
  Spec /\ RcvRuns => (<>[]InRxJoin => <>[]ReadWithin(0))
<1>1. /\ ReadStays(2) /\ ReadStays(1) /\ ReadStays(0)
      /\ NearsRead(3, 2) /\ NearsRead(2, 1) /\ NearsRead(1, 0)
  <2>1. \A j \in 0..2 : ReadStays(j) /\ NearsRead(j + 1, j)
    BY TowardsRead
  <2> QED
    BY <2>1, SMT
<1>2. EndInv /\ InRxJoin =>
        /\ RcvCan \/ ReadWithin(2)
        /\ RcvCan \/ ReadWithin(1)
        /\ RcvCan \/ ReadWithin(0)
  BY ReceiverRuns DEF ReadWithin
<1> QED
  BY <1>1, <1>2, ReceiverRuns, EndInvariance, PTL
  DEF Spec, RcvRuns, ReadStays, NearsRead

(* end returns, whatever the peer does: once told, the sender ends or is   *)
(* cancelled after the wait, and the receiver is cancelled, for every ring *)
(* size, counter width and frame size.                                     *)
THEOREM EndAlwaysReturns ==
  Spec /\ EndRuns /\ EndLocks /\ EndTimesOut /\ SndLocks /\ SndRuns /\ RcvRuns
    => EndReturns
<1> DEFINE Fair == LoopFair /\ JoinFair /\ RcvRuns
<1>1. Spec /\ Fair => ~<>[]InTx /\ ~<>[]InBcast /\ ~<>[]InCancel /\ ~<>[]InRx
  BY EndingLeaves, SenderRuns, PTL DEF LoopFair, EndRuns
<1>2. Spec /\ Fair => ~<>[]InLoop
  BY LoopEnds
<1>3. Spec /\ Fair => ~<>[]InJoin
  BY EndingLeaves, SenderEnds, SenderRuns, PTL DEF LoopFair, EndRuns
<1>4. Spec /\ Fair => ~<>[]InRxJoin
  BY EndingLeaves, ReceiverEnds, ReceiverRuns, EndInvariance, PTL
  DEF LoopFair, EndRuns
<1>5. Spec /\ Fair => (InTx ~> InLoop)
  BY <1>1, EndGoesOn, PTL DEF Spec
<1>6. Spec /\ Fair => (InLoop ~> InJoin)
  BY <1>1, <1>2, EndGoesOn, PTL DEF Spec
<1>7. Spec /\ Fair => (InJoin ~> InClosed)
  BY <1>1, <1>3, <1>4, EndGoesOn, PTL DEF Spec
<1>8. Spec /\ Fair => (InTx ~> InClosed)
  BY <1>5, <1>6, <1>7, PTL
<1> QED
  BY <1>8, PTL DEF EndReturns, InTx, InClosed, LoopFair, JoinFair
=============================================================================
