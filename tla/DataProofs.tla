----------------------------- MODULE DataProofs -----------------------------
(***************************************************************************)
(* What the modules that MCExecData runs guarantee for data of any size,   *)
(* AvlTree apart:                                                          *)
(*  - NanoTime, for a second of any length and all times that callers ask  *)
(*    for;                                                                 *)
(*  - packing a structure and unpacking it, for pack tables, structures    *)
(*    and data of any size;                                                *)
(*  - lists, for any number of nodes and lists: the links answer each      *)
(*    other, each list is one chain from its header to its tail on which   *)
(*    every member lies, a ForeachNodeSafe loop misses nothing, and every  *)
(*    call does to the sequence of nodes what is documented;               *)
(*  - tag lists, for any lists in a memory of any size: the two walks see  *)
(*    the same items, and FilterTagChanges and RefreshTagItemClones do     *)
(*    what is documented.                                                  *)
(***************************************************************************)
EXTENDS ExecList, Timer, StructPack, TagLists, SetInduction, FiniteSetTheorems, TLAPS

-----------------------------------------------------------------------------
(* Times *)

Time == [sec : Int, nsec : Int]
Normalized == [sec : Int, nsec : 0 .. Second - 1]

\* Division with remainder, of numbers of either sign.
LEMMA Division ==
  ASSUME NEW n \in Int, NEW s \in Nat \ {0}
  PROVE  n = (n \div s) * s + (n % s) /\ n % s \in 0 .. s - 1 /\ n \div s \in Int
<1>1. n \div s \in Int
  BY SMT
<1>2. n % s \in 0 .. s - 1
  BY SMT
<1>3. n = (n \div s) * s + (n % s)
  BY SMT
<1> QED
  BY <1>1, <1>2, <1>3

\* Seconds of a sum and of a difference.
LEMMA Distribution ==
  ASSUME NEW a \in Int, NEW b \in Int, NEW s \in Nat
  PROVE  (a + b) * s = a * s + b * s /\ (a - b) * s = a * s - b * s
BY SMT

\* A later second starts at least a second later.
LEMMA WholeSeconds ==
  ASSUME NEW a \in Int, NEW b \in Int, NEW s \in Nat, a < b
  PROVE  a * s + s <= b * s
BY SMT

\* A time is a number of nanoseconds.
LEMMA NanosIsInt == ASSUME NEW t \in Time PROVE Nanos(t) \in Int
<1>1. t.sec \in Int /\ t.nsec \in Int /\ Second \in Int
  BY TimerAssumption DEF Time
<1> QED
  BY <1>1 DEF Nanos

\* Normal is the normalised time of as many nanoseconds.
LEMMA NormalIsExact ==
  ASSUME NEW sec \in Int, NEW n \in Int
  PROVE  Normal(sec, n) \in Normalized /\ Nanos(Normal(sec, n)) = sec * Second + n
<1> DEFINE q == n \div Second
           r == n % Second
<1>1. n = q * Second + r /\ r \in 0 .. Second - 1 /\ q \in Int
  BY Division, TimerAssumption
<1>2. Normal(sec, n) = [sec |-> sec + q, nsec |-> r]
  BY DEF Normal
<1> HIDE DEF q, r
<1>3. (sec + q) * Second = sec * Second + q * Second
  BY <1>1, Distribution, TimerAssumption
<1>4. Nanos(Normal(sec, n)) = (sec + q) * Second + r
  BY <1>2 DEF Nanos
<1>5. sec * Second \in Int /\ q * Second \in Int /\ (sec + q) * Second \in Int
  BY <1>1, TimerAssumption
<1> QED
  BY <1>1, <1>2, <1>3, <1>4, <1>5, TimerAssumption DEF Normalized

\* Of normalised times CmpTime tells which is later.
LEMMA CmpTimeIsOrder ==
  ASSUME NEW a \in Normalized, NEW b \in Normalized
  PROVE  CmpTime(a, b) >= 0 <=> Nanos(a) >= Nanos(b)
<1>1. /\ a.sec \in Int /\ a.nsec \in Int /\ 0 <= a.nsec /\ a.nsec <= Second - 1
      /\ b.sec \in Int /\ b.nsec \in Int /\ 0 <= b.nsec /\ b.nsec <= Second - 1
      /\ Second \in Nat /\ Second \in Int
  BY TimerAssumption DEF Normalized
<1>2. a.sec * Second \in Int /\ b.sec * Second \in Int
  BY <1>1
<1>3. CASE a.sec = b.sec
  BY <1>1, <1>2, <1>3 DEF CmpTime, Nanos
<1>4. CASE a.sec < b.sec
  <2>1. a.sec * Second + Second <= b.sec * Second
    BY <1>1, <1>4, WholeSeconds
  <2>2. ~ (Nanos(a) >= Nanos(b))
    BY <1>1, <1>2, <2>1 DEF Nanos
  <2> QED
    BY <1>1, <1>4, <2>2 DEF CmpTime
<1>5. CASE b.sec < a.sec
  <2>1. b.sec * Second + Second <= a.sec * Second
    BY <1>1, <1>5, WholeSeconds
  <2>2. Nanos(a) >= Nanos(b)
    BY <1>1, <1>2, <2>1 DEF Nanos
  <2> QED
    BY <1>1, <1>5, <2>2 DEF CmpTime
<1> QED
  BY <1>1, <1>3, <1>4, <1>5

\* AddTime of normalised times is their sum, normalised.
LEMMA AddTimeIsExact ==
  ASSUME NEW t \in Normalized, NEW d \in [sec : Nat, nsec : Nat]
  PROVE  AddTime(t, d) \in Normalized /\ Nanos(AddTime(t, d)) = Nanos(t) + Nanos(d)
<1>1. /\ t.sec \in Int /\ t.nsec \in Int /\ 0 <= t.nsec
      /\ d.sec \in Int /\ d.nsec \in Int /\ 0 <= d.nsec /\ Second \in Nat
  BY TimerAssumption DEF Normalized
<1>2. AddTime(t, d) = Normal(t.sec + d.sec, t.nsec + d.nsec)
  BY <1>1 DEF AddTime
<1>3. t.sec + d.sec \in Int /\ t.nsec + d.nsec \in Int
  BY <1>1
<1>4. (t.sec + d.sec) * Second = t.sec * Second + d.sec * Second
  BY <1>1, Distribution
<1>5. t.sec * Second \in Int /\ d.sec * Second \in Int
  BY <1>1
<1>6. Normal(t.sec + d.sec, t.nsec + d.nsec) \in Normalized
  BY <1>3, NormalIsExact
<1>7. Nanos(Normal(t.sec + d.sec, t.nsec + d.nsec))
        = (t.sec + d.sec) * Second + (t.nsec + d.nsec)
  BY <1>3, NormalIsExact
<1> QED
  BY <1>1, <1>2, <1>4, <1>5, <1>6, <1>7 DEF Nanos

\* SubTime of normalised times is their difference, normalised.
LEMMA SubTimeIsExact ==
  ASSUME NEW t \in Normalized, NEW d \in Normalized
  PROVE  SubTime(t, d) \in Normalized /\ Nanos(SubTime(t, d)) = Nanos(t) - Nanos(d)
<1>1. /\ t.sec \in Int /\ t.nsec \in Int /\ d.sec \in Int /\ d.nsec \in Int
      /\ Second \in Nat
  BY TimerAssumption DEF Normalized
<1>2. t.sec - d.sec \in Int /\ t.nsec - d.nsec \in Int
  BY <1>1
<1>3. (t.sec - d.sec) * Second = t.sec * Second - d.sec * Second
  BY <1>1, Distribution
<1>4. t.sec * Second \in Int /\ d.sec * Second \in Int
  BY <1>1
<1>5. SubTime(t, d) \in Normalized
  BY <1>2, NormalIsExact DEF SubTime
<1>6. Nanos(SubTime(t, d)) = (t.sec - d.sec) * Second + (t.nsec - d.nsec)
  BY <1>2, NormalIsExact DEF SubTime
<1> QED
  BY <1>1, <1>3, <1>4, <1>5, <1>6 DEF Nanos

-----------------------------------------------------------------------------
TimerInv ==
  /\ clock \in Normalized /\ since \in Normalized
  /\ span \in [sec : Nat, nsec : Nat]
  /\ sleeper \in {"idle", "asleep", "awake"}
  /\ sleeper # "idle" => until \in Normalized /\ Nanos(until) = Nanos(since) + Nanos(span)
  /\ sleeper = "awake" => Nanos(clock) >= Nanos(until)

\* The invariant of NanoTime holds before any call.
LEMMA TimerInvInit == TimerInit => TimerInv
<1>1. Zero \in Normalized /\ Zero \in [sec : Nat, nsec : Nat]
  BY TimerAssumption DEF Zero, Normalized
<1> QED
  BY <1>1 DEF TimerInit, TimerInv, Normalized

\* Every step of the clock and of the sleeper keeps it.
LEMMA TimerInvStep == TimerInv /\ [TimerNext]_timerVars => TimerInv'
<1> SUFFICES ASSUME TimerInv, [TimerNext]_timerVars PROVE TimerInv'
  OBVIOUS
<1> USE DEF TimerInv
<1>0. \A t \in Normalized : t \in Time /\ Nanos(t) \in Int
  BY NanosIsInt, TimerAssumption DEF Normalized, Time
<1>1. CASE Tick
  <2>1. /\ clock.sec \in Int /\ clock.nsec \in Int /\ clock.nsec + 1 \in Int
        /\ Second \in Nat /\ clock.sec * Second \in Int
    BY TimerAssumption DEF Normalized
  <2>2. clock' \in Normalized
    BY <1>1, <2>1, NormalIsExact DEF Tick
  <2>3. Nanos(clock') = clock.sec * Second + (clock.nsec + 1)
    BY <1>1, <2>1, NormalIsExact DEF Tick
  <2>4. Nanos(clock') = Nanos(clock) + 1
    BY <2>1, <2>3 DEF Nanos
  <2>5. sleeper = "awake" => Nanos(clock') >= Nanos(until)
    <3>1. HAVE sleeper = "awake"
    <3>2. Nanos(clock) \in Int /\ Nanos(until) \in Int /\ Nanos(clock) >= Nanos(until)
      BY <3>1, <1>0
    <3> QED
      BY <2>4, <3>2
  <2>6. UNCHANGED <<sleeper, since, span, until>>
    BY <1>1 DEF Tick
  <2> QED
    BY <2>2, <2>5, <2>6 DEF Nanos
<1>2. ASSUME NEW t \in Spans, NanoTime(t)
      PROVE  TimerInv'
  <2>1. t \in [sec : Nat, nsec : Nat]
    BY TimerAssumption
  <2>2. AddTime(clock, t) \in Normalized
        /\ Nanos(AddTime(clock, t)) = Nanos(clock) + Nanos(t)
    BY <2>1, AddTimeIsExact
  <2> QED
    BY <1>2, <2>1, <2>2 DEF NanoTime, Nanos
<1>3. CASE Awake
  <2>1. CmpTime(clock, until) >= 0 /\ until \in Normalized
    BY <1>3 DEF Awake
  <2>2. Nanos(clock) >= Nanos(until)
    BY <2>1, CmpTimeIsOrder
  <2> QED
    BY <1>3, <2>2 DEF Awake, Nanos
<1>4. CASE UNCHANGED timerVars
  BY <1>4 DEF timerVars, Nanos
<1> QED
  BY <1>1, <1>2, <1>3, <1>4 DEF TimerNext

\* NanoTime sleeps until a valid time that is exactly its argument after the
\* call, and no less has passed when it returns (nanosleep.c:11-16), for times
\* that the caller has not normalised too.
THEOREM SleepIsLongEnough == TimerSpec => []SleepsLongEnough
<1>1. TimerInv => SleepsLongEnough
  <2> SUFFICES ASSUME TimerInv PROVE SleepsLongEnough
    OBVIOUS
  <2> USE DEF TimerInv
  <2>1. sleeper # "idle" => /\ until.nsec \in 0 .. Second - 1
                            /\ Nanos(until) = Nanos(since) + Nanos(span)
    BY DEF Normalized
  <2>2. ASSUME sleeper = "awake"
        PROVE  CmpTime(SubTime(clock, since), Normal(span.sec, span.nsec)) >= 0
    <3>1. SubTime(clock, since) \in Normalized
          /\ Nanos(SubTime(clock, since)) = Nanos(clock) - Nanos(since)
      BY SubTimeIsExact
    <3>2. span.sec \in Int /\ span.nsec \in Int
      OBVIOUS
    <3>3. Normal(span.sec, span.nsec) \in Normalized
          /\ Nanos(Normal(span.sec, span.nsec)) = Nanos(span)
      BY <3>2, NormalIsExact DEF Nanos
    <3>4. span \in Time /\ since \in Time /\ clock \in Time
      BY TimerAssumption DEF Normalized, Time
    <3>5. Nanos(span) \in Int /\ Nanos(since) \in Int /\ Nanos(clock) \in Int
      BY <3>4, NanosIsInt
    <3>6. Nanos(clock) >= Nanos(since) + Nanos(span)
      BY <2>2
    <3>7. Nanos(SubTime(clock, since)) >= Nanos(Normal(span.sec, span.nsec))
      BY <3>1, <3>3, <3>5, <3>6
    <3> QED
      BY <3>1, <3>3, <3>7, CmpTimeIsOrder
  <2> QED
    BY <2>1, <2>2 DEF SleepsLongEnough
<1> QED
  BY <1>1, TimerInvInit, TimerInvStep, PTL DEF TimerSpec

-----------------------------------------------------------------------------
(* Numbers and their digits *)

\* Division with remainder of what is not negative.
LEMMA Quotient ==
  ASSUME NEW n \in Nat, NEW d \in Nat \ {0}
  PROVE  /\ n \div d \in Nat /\ n % d \in 0 .. d - 1
         /\ n = d * (n \div d) + (n % d)
OBVIOUS

\* Quotient and remainder are known by what they add up to.
LEMMA QuotientUnique ==
  ASSUME NEW d \in Nat \ {0}, NEW q \in Nat, NEW r \in 0 .. d - 1
  PROVE  (d * q + r) \div d = q /\ (d * q + r) % d = r
OBVIOUS

\* A product is the sum of its parts, in any order.
LEMMA Products ==
  ASSUME NEW a \in Int, NEW b \in Int, NEW c \in Int
  PROVE  /\ a * b \in Int /\ a * b = b * a /\ (a * b) * c = a * (b * c)
         /\ (a + b) * c = a * c + b * c /\ c * (a + b) = c * a + c * b
         /\ (a - b) * c = a * c - b * c
<1>1. a * b \in Int /\ a * b = b * a
  BY SMT
<1>2. (a * b) * c = a * (b * c)
  BY SMT
<1>3. (a + b) * c = a * c + b * c /\ c * (a + b) = c * a + c * b
  BY SMT
<1>4. (a - b) * c = a * c - b * c
  BY SMT
<1> QED
  BY <1>1, <1>2, <1>3, <1>4

\* A smaller factor leaves room for one more of the other.
LEMMA ProductBound ==
  ASSUME NEW a \in Nat, NEW b \in Nat, NEW c \in Nat, a < b
  PROVE  c * a + c <= c * b
<1>1. PICK k \in Nat : b = a + 1 + k
  <2>1. b - a - 1 \in Nat /\ b = a + 1 + (b - a - 1)
    OBVIOUS
  <2> QED
    BY <2>1
<1>2. c * b = c * (a + 1) + c * k /\ c * (a + 1) = c * a + c * 1 /\ c * k \in Nat
  <2>1. c * k \in Nat
    BY SMT
  <2> QED
    BY <1>1, <2>1, Products
<1> QED
  BY <1>2, Products

\* The digits of a number: one more of them is the next one in its place.
LEMMA NextDigit ==
  ASSUME NEW v \in Nat, NEW p \in Nat \ {0}, NEW b \in Nat \ {0}
  PROVE  v % (b * p) = (v % p) + ((v \div p) % b) * p
<1> DEFINE q == v \div p
           r == v % p
           a == q \div b
           d == q % b
<1>1. q \in Nat /\ r \in 0 .. p - 1 /\ v = p * q + r
  BY Quotient
<1>2. a \in Nat /\ d \in 0 .. b - 1 /\ q = b * a + d
  BY <1>1, Quotient
<1> HIDE DEF q, r, a, d
<1>3. p * q = p * (b * a) + p * d
  BY <1>1, <1>2, Products
<1>4. p * (b * a) = (b * p) * a /\ p * d = d * p
  BY <1>1, <1>2, Products
<1>5. b * p \in Nat \ {0}
  BY SMT
<1>6. p * d + p <= b * p /\ p * d \in Nat
  <2>1. p * d + p <= p * b
    BY <1>2, ProductBound
  <2>2. p * d \in Nat
    BY <1>2, SMT
  <2> QED
    BY <2>1, <2>2, Products
<1>7. d * p + r \in 0 .. b * p - 1
  BY <1>1, <1>2, <1>4, <1>5, <1>6
<1>8. v = (b * p) * a + (d * p + r)
  <2>1. (b * p) * a \in Int /\ d * p \in Int
    BY <1>2, <1>5, Products
  <2> QED
    BY <1>1, <1>3, <1>4, <2>1
<1>9. v % (b * p) = d * p + r
  BY <1>2, <1>5, <1>7, <1>8, QuotientUnique
<1> QED
  <2>1. d * p \in Int
    BY <1>2, Products
  <2> QED
    BY <1>1, <1>9, <2>1 DEF r, q, d

-----------------------------------------------------------------------------
\* Powers of B, as the model counts them up.
Powers(B, K) == CHOOSE p : p = [n \in 0 .. K |-> IF n = 0 THEN 1 ELSE B * p[n - 1]]

\* The powers are positive, and each is B times the one before.
LEMMA PowersDef ==
  ASSUME NEW B \in Nat \ {0}, NEW K \in Nat
  PROVE  /\ Powers(B, K) \in [0 .. K -> Nat \ {0}] /\ Powers(B, K)[0] = 1
         /\ \A i \in 1 .. K : Powers(B, K)[i] = B * Powers(B, K)[i - 1]
<1> DEFINE P == Powers(B, K)
           X == Nat \ {0}
           g == [x \in X |-> B * x]
<1>1. g \in [X -> X] /\ 1 \in X
  <2>1. \A x \in X : B * x \in X
    BY SMT
  <2> QED
    BY <2>1
<1>2. \A x \in X : g[x] = B * x
  OBVIOUS
<1> HIDE DEF X, g
<1>3. PICK f : Iterates(f, X, 1, g, K)
  BY <1>1, IteratesExist
<1>4. f = [n \in 0 .. K |-> IF n = 0 THEN 1 ELSE B * f[n - 1]]
  <2>1. f = [i \in 0 .. K |-> f[i]]
    BY <1>3 DEF Iterates
  <2>2. ASSUME NEW i \in 0 .. K
        PROVE  f[i] = IF i = 0 THEN 1 ELSE B * f[i - 1]
    <3>1. i # 0 => i \in 1 .. K /\ i - 1 \in 0 .. K
      OBVIOUS
    <3> QED
      BY <1>2, <1>3, <3>1 DEF Iterates
  <2> QED
    BY <2>1, <2>2, Zenon
<1>5. P = [n \in 0 .. K |-> IF n = 0 THEN 1 ELSE B * P[n - 1]]
  BY <1>4, Zenon DEF Powers
<1> HIDE DEF P
<1>6. P[0] = 1 /\ \A i \in 1 .. K : P[i] = B * P[i - 1]
  <2>1. 0 \in 0 .. K /\ \A i \in 1 .. K : i \in 0 .. K /\ i # 0
    OBVIOUS
  <2> QED
    BY <1>5, <2>1
<1>7. \A i \in 0 .. K : P[i] \in X
  <2> DEFINE T == {i \in 0 .. K : P[i] \in X}
  <2>1. 0 \in T
    BY <1>1, <1>6
  <2>2. \A n \in 0 .. K - 1 : n \in T => n + 1 \in T
    <3> SUFFICES ASSUME NEW n \in 0 .. K - 1, n \in T PROVE n + 1 \in T
      OBVIOUS
    <3>1. n + 1 \in 1 .. K /\ n + 1 - 1 = n
      OBVIOUS
    <3>2. P[n + 1] = B * P[n]
      BY <1>6, <3>1
    <3>3. B * P[n] \in X
      <4> HIDE DEF T
      <4>1. P[n] \in Nat \ {0}
        BY DEF T, X
      <4> QED
        BY <4>1, SMT DEF X
    <3> QED
      BY <3>1, <3>2, <3>3
  <2>3. 0 .. K \subseteq T
    <3> HIDE DEF T
    <3> QED
      BY <2>1, <2>2, IntervalInduction
  <2> QED
    BY <2>3
<1>8. P \in [0 .. K -> X]
  <2>1. P = [n \in 0 .. K |-> P[n]]
    BY <1>5
  <2> QED
    BY <1>7, <2>1
<1> QED
  BY <1>6, <1>8 DEF X, P

\* What the bits of a byte count for.
LEMMA TwoToDef ==
  /\ TwoTo \in [0 .. ByteBits -> Nat \ {0}] /\ TwoTo[0] = 1
  /\ \A i \in 1 .. ByteBits : TwoTo[i] = 2 * TwoTo[i - 1]
<1>1. ByteBits \in Nat /\ 2 \in Nat \ {0}
  BY PackAssumption
<1>2. TwoTo = Powers(2, ByteBits)
  BY Zenon DEF TwoTo, Powers
<1> QED
  BY <1>1, <1>2, PowersDef

\* What the bytes of an IPTR count for.
LEMMA BaseToDef ==
  /\ Base \in Nat \ {0}
  /\ BaseTo \in [0 .. 8 -> Nat \ {0}] /\ BaseTo[0] = 1
  /\ \A i \in 1 .. 8 : BaseTo[i] = Base * BaseTo[i - 1]
<1>1. Base \in Nat \ {0}
  BY TwoToDef, PackAssumption DEF Base
<1>2. Cells64 \in Nat
  BY DEF Cells64
<1>3. BaseTo = Powers(Base, Cells64)
  BY Zenon DEF BaseTo, Powers
<1>4. /\ BaseTo \in [0 .. Cells64 -> Nat \ {0}] /\ BaseTo[0] = 1
      /\ \A i \in 1 .. Cells64 : BaseTo[i] = Base * BaseTo[i - 1]
  BY <1>1, <1>2, <1>3, PowersDef
<1> QED
  BY <1>1, <1>4 DEF Cells64

\* Every higher bit counts for a multiple of twice a lower one.
LEMMA HigherBit ==
  ASSUME NEW b \in 0 .. ByteBits, NEW c \in 0 .. b - 1
  PROVE  \E k \in Nat \ {0} : TwoTo[b] = (2 * TwoTo[c]) * k
<1> USE PackAssumption
<1> DEFINE T == {j \in 0 .. ByteBits - c - 1 :
                   \E k \in Nat \ {0} : TwoTo[c + 1 + j] = (2 * TwoTo[c]) * k}
<1>1. TwoTo[c] \in Nat \ {0} /\ TwoTo[c + 1] = 2 * TwoTo[c]
  BY TwoToDef
<1>2. 0 \in T
  <2>1. TwoTo[c + 1 + 0] = (2 * TwoTo[c]) * 1
    BY <1>1
  <2> QED
    BY <2>1
<1>3. \A j \in 0 .. (ByteBits - c - 1) - 1 : j \in T => j + 1 \in T
  <2> SUFFICES ASSUME NEW j \in 0 .. ByteBits - c - 1 - 1, j \in T PROVE j + 1 \in T
    OBVIOUS
  <2>1. PICK k \in Nat \ {0} : TwoTo[c + 1 + j] = (2 * TwoTo[c]) * k
    OBVIOUS
  <2>2. c + 1 + j + 1 \in 1 .. ByteBits /\ c + 1 + j + 1 - 1 = c + 1 + j
    OBVIOUS
  <2>3. TwoTo[c + 1 + j + 1] = 2 * TwoTo[c + 1 + j]
    BY <2>2, TwoToDef
  <2>4. 2 * ((2 * TwoTo[c]) * k) = (2 * TwoTo[c]) * (2 * k)
    BY <1>1, SMT
  <2>5. 2 * k \in Nat \ {0} /\ c + 1 + (j + 1) = c + 1 + j + 1
    OBVIOUS
  <2> QED
    BY <2>1, <2>3, <2>4, <2>5
<1>4. 0 .. ByteBits - c - 1 \subseteq T
  <2> HIDE DEF T
  <2> QED
    BY <1>2, <1>3, IntervalInduction
<1>5. b - c - 1 \in 0 .. ByteBits - c - 1 /\ c + 1 + (b - c - 1) = b
  OBVIOUS
<1>6. b - c - 1 \in T
  <2> HIDE DEF T
  <2> QED
    BY <1>4, <1>5
<1> QED
  BY <1>5, <1>6

-----------------------------------------------------------------------------
(* The bits of a byte *)

Bytes == 0 .. Base - 1
Flag(on) == IF on THEN 1 ELSE 0

\* Every bit of a byte counts for a power of two.
LEMMA BitWeight ==
  ASSUME NEW b \in 0 .. ByteBits - 1
  PROVE  TwoTo[b] \in Nat \ {0} /\ ByteBits \in Nat /\ b \in 0 .. ByteBits
<1>1. ByteBits \in Nat
  BY PackAssumption
<1>2. b \in 0 .. ByteBits
  BY <1>1
<1> QED
  BY <1>1, <1>2, TwoToDef

\* A byte is a number that is not negative.
LEMMA BytesAreNumbers == Bytes \subseteq Nat
BY BaseToDef DEF Bytes

\* What counts twice does not change whether a number is odd.
LEMMA Parity ==
  ASSUME NEW q \in Int, NEW n \in Int
  PROVE  (q + 2 * n) % 2 = q % 2
OBVIOUS

\* A byte around one of its bits.
LEMMA AroundBit ==
  ASSUME NEW byte \in Bytes, NEW b \in 0 .. ByteBits - 1
  PROVE  \E h \in Nat, x \in {0, 1}, r \in 0 .. TwoTo[b] - 1 :
           /\ byte = TwoTo[b] * (2 * h + x) + r /\ BitIn(byte, b) = x
           /\ byte = (2 * TwoTo[b]) * h + (TwoTo[b] * x + r)
<1> DEFINE t == TwoTo[b]
           q == byte \div t
           r == byte % t
           h == q \div 2
           x == q % 2
<1>1. t \in Nat \ {0} /\ byte \in Nat
  BY BitWeight, BytesAreNumbers
<1> HIDE DEF t
<1>2. q \in Nat /\ r \in 0 .. t - 1 /\ byte = t * q + r
  BY <1>1, Quotient
<1>3. h \in Nat /\ x \in {0, 1} /\ q = 2 * h + x
  BY <1>2
<1>4. BitIn(byte, b) = x
  BY DEF BitIn, t
<1> HIDE DEF q, r, h, x
<1>5. t * (2 * h + x) = (2 * t) * h + t * x /\ t * x \in Int
  <2>1. t * (2 * h + x) = t * (2 * h) + t * x /\ t * (2 * h) = (t * 2) * h
    BY <1>1, <1>3, Products
  <2> QED
    BY <1>1, <1>3, <2>1, Products
<1>6. byte = t * (2 * h + x) + r /\ byte = (2 * t) * h + (t * x + r)
  <2>1. (2 * t) * h \in Int
    BY <1>1, <1>3, Products
  <2> QED
    BY <1>2, <1>3, <1>5, <2>1
<1> QED
  BY <1>2, <1>3, <1>4, <1>6 DEF t

\* SetBit changes the one bit and no other, and stays in the byte.
LEMMA SetBitDone ==
  ASSUME NEW byte \in Bytes, NEW b \in 0 .. ByteBits - 1, NEW on \in BOOLEAN
  PROVE  /\ SetBit(byte, b, on) \in Bytes
         /\ BitIn(SetBit(byte, b, on), b) = Flag(on)
         /\ \A c \in 0 .. ByteBits - 1 : c # b => BitIn(SetBit(byte, b, on), c) = BitIn(byte, c)
<1> DEFINE t == TwoTo[b]
           y == Flag(on)
           new == SetBit(byte, b, on)
<1>1. ByteBits \in Nat /\ t \in Nat \ {0} /\ byte \in Nat
  BY BitWeight, BytesAreNumbers
<1>2. PICK h \in Nat, x \in {0, 1}, r \in 0 .. t - 1 :
        /\ byte = t * (2 * h + x) + r /\ BitIn(byte, b) = x
        /\ byte = (2 * t) * h + (t * x + r)
  BY AroundBit
<1>3. y \in {0, 1} /\ new = byte + (y - x) * t
  BY <1>2 DEF SetBit, Flag
<1> HIDE DEF t, y, new
<1>4. new = t * (2 * h + y) + r /\ new = (2 * t) * h + (t * y + r)
  <2>1. (y - x) * t = t * y - t * x /\ t * y \in Int /\ t * x \in Int /\ (2 * t) * h \in Int
    BY <1>1, <1>2, <1>3, Products
  <2>2. new = (2 * t) * h + (t * y + r)
    BY <1>1, <1>2, <1>3, <2>1
  <2>3. t * (2 * h + y) = t * (2 * h) + t * y /\ t * (2 * h) = (t * 2) * h
    BY <1>1, <1>2, <1>3, Products
  <2> QED
    BY <1>1, <2>1, <2>2, <2>3
<1>5. t * x + r \in 0 .. 2 * t - 1 /\ t * y + r \in 0 .. 2 * t - 1
  BY <1>1, <1>2, <1>3
<1>6. BitIn(new, b) = y
  <2> DEFINE w == 2 * h + y
  <2>1. w \in Nat /\ w % 2 = y
    BY <1>2, <1>3
  <2>2. new = t * w + r
    BY <1>4
  <2> HIDE DEF w
  <2>3. new \div t = w
    BY <1>1, <1>2, <2>1, <2>2, QuotientUnique
  <2> QED
    BY <2>1, <2>3 DEF BitIn, t
<1>7. new \in Bytes
  <2>1. PICK k \in Nat \ {0} : Base = (2 * t) * k
    BY <1>1, HigherBit DEF Base, t
  <2>2. (2 * t) * h \in Nat /\ 2 * t \in Nat
    BY <1>1, <1>2, SMT
  <2>3. h < k
    <3>1. CASE k <= h
      <4>1. (2 * t) * h = (2 * t) * k + (2 * t) * (h - k) /\ (2 * t) * (h - k) \in Nat
        <5>1. h - k \in Nat /\ h = k + (h - k)
          BY <1>2, <3>1
        <5>2. (2 * t) * (h - k) \in Nat
          BY <2>2, <5>1, SMT
        <5> QED
          BY <2>2, <5>1, <5>2, Products
      <4> QED
        BY <1>2, <1>5, <2>1, <2>2, <4>1, BaseToDef DEF Bytes
    <3> QED
      BY <1>2, <3>1
  <2>4. (2 * t) * h + 2 * t <= (2 * t) * k
    BY <1>2, <2>2, <2>3, ProductBound
  <2>5. new \in Nat /\ new < Base
    <3> DEFINE p == (2 * t) * h
               e == t * y + r
    <3>1. new = p + e /\ p \in Nat /\ e \in 0 .. 2 * t - 1 /\ p + 2 * t <= Base
      BY <1>4, <1>5, <2>1, <2>2, <2>4
    <3> HIDE DEF p, e
    <3> QED
      BY <1>1, <3>1, BaseToDef
  <2> QED
    BY <2>5, BaseToDef DEF Bytes
<1>8. ASSUME NEW c \in 0 .. ByteBits - 1, c # b
      PROVE  BitIn(new, c) = BitIn(byte, c)
  <2> DEFINE u == TwoTo[c]
  <2>1. u \in Nat \ {0}
    BY <1>1, TwoToDef
  <2>2. CASE c < b
    <3> HIDE DEF u
    <3>1. PICK k \in Nat \ {0} : t = (2 * u) * k
      BY <1>1, <2>2, HigherBit DEF t, u
    <3> DEFINE z == y - x
    <3>2. z \in Int /\ k * z \in Int
      BY <1>2, <1>3, Products
    <3>3. new = byte + u * (2 * (k * z))
      <4>1. z * t = (u * (2 * k)) * z
        BY <1>1, <2>1, <3>1, <3>2, Products
      <4>2. (u * (2 * k)) * z = u * ((2 * k) * z) /\ (2 * k) * z = 2 * (k * z)
        BY <2>1, <3>2, Products
      <4> QED
        BY <1>3, <4>1, <4>2
    <3>4. PICK q \in Nat, s \in 0 .. u - 1 : byte = u * q + s
      <4>1. /\ byte \div u \in Nat /\ byte % u \in 0 .. u - 1
            /\ byte = u * (byte \div u) + (byte % u)
        BY <1>1, <2>1, Quotient
      <4> QED
        BY <4>1
    <3>5. new = u * (q + 2 * (k * z)) + s
      <4>1. u * (q + 2 * (k * z)) = u * q + u * (2 * (k * z))
        BY <2>1, <3>2, Products
      <4>2. u * q \in Int /\ u * (2 * (k * z)) \in Int
        BY <2>1, <3>2, Products
      <4> QED
        BY <3>3, <3>4, <4>1, <4>2
    <3>6. q + 2 * (k * z) \in Nat
      <4>1. new \in Nat
        BY <1>7, BaseToDef DEF Bytes
      <4> DEFINE w == q + 2 * (k * z)
      <4>2. w \in Int
        BY <3>2
      <4>3. CASE w < 0
        <5>1. u * w = - (u * (- w)) /\ u * (- w) \in Nat /\ 0 < - w /\ - w \in Nat
          <6>1. - w \in Nat /\ 0 < - w
            BY <4>2, <4>3
          <6>2. u * (- w) \in Nat
            BY <2>1, <6>1, SMT
          <6>3. u * ((- w) + w) = u * (- w) + u * w /\ (- w) + w = 0 /\ u * 0 = 0
            BY <2>1, <4>2, Products
          <6>4. u * w \in Int
            BY <2>1, <4>2, Products
          <6> QED
            BY <6>1, <6>2, <6>3, <6>4
        <5>2. u * 0 + u <= u * (- w) /\ u * 0 = 0
          BY <2>1, <5>1, ProductBound
        <5> QED
          BY <2>1, <3>4, <3>5, <4>1, <5>1, <5>2
      <4> QED
        BY <4>2, <4>3
    <3>7. new \div u = q + 2 * (k * z) /\ byte \div u = q
      <4>1. new \div u = q + 2 * (k * z)
        <5> DEFINE w == q + 2 * (k * z)
        <5>1. w \in Nat /\ new = u * w + s
          BY <3>5, <3>6
        <5> HIDE DEF w
        <5>2. new \div u = w
          BY <2>1, <5>1, QuotientUnique
        <5> QED
          BY <5>2 DEF w
      <4> QED
        BY <2>1, <3>4, <4>1, QuotientUnique
    <3>8. (q + 2 * (k * z)) % 2 = q % 2
      <4>1. q \in Int /\ k * z \in Int
        BY <3>2, <3>4
      <4> QED
        BY <4>1, Parity, Zenon
    <3> QED
      BY <3>7, <3>8 DEF BitIn, u
  <2>3. CASE b < c
    <3> HIDE DEF u
    <3>1. PICK k \in Nat \ {0} : u = (2 * t) * k
      BY <1>1, <2>3, HigherBit DEF t, u
    <3>2. PICK a \in Nat, d \in 0 .. k - 1 : h = k * a + d
      <4>1. /\ h \div k \in Nat /\ h % k \in 0 .. k - 1
            /\ h = k * (h \div k) + (h % k)
        BY <1>2, Quotient
      <4> QED
        BY <4>1, Zenon
    <3>3. (2 * t) * h = u * a + (2 * t) * d
      <4>1. (2 * t) * (k * a + d) = (2 * t) * (k * a) + (2 * t) * d
        BY <1>1, <3>2, Products
      <4>2. (2 * t) * (k * a) = ((2 * t) * k) * a
        BY <1>1, <3>2, Products
      <4> QED
        BY <3>1, <3>2, <4>1, <4>2
    <3>4. (2 * t) * d + 2 * t <= u /\ (2 * t) * d \in Nat
      <4>1. 2 * t \in Nat
        BY <1>1
      <4>2. (2 * t) * d \in Nat
        BY <3>2, <4>1, SMT
      <4> QED
        BY <3>1, <3>2, <4>1, <4>2, ProductBound
    <3>5. \A g \in 0 .. 2 * t - 1 : ((2 * t) * h + g) \div u = a
      <4> SUFFICES ASSUME NEW g \in 0 .. 2 * t - 1 PROVE ((2 * t) * h + g) \div u = a
        OBVIOUS
      <4> DEFINE e == (2 * t) * d + g
      <4>1. e \in 0 .. u - 1
        BY <1>1, <2>1, <3>4
      <4>2. u * a \in Int /\ (2 * t) * d \in Int
        BY <1>1, <2>1, <3>2, Products
      <4>3. (2 * t) * h + g = u * a + e
        BY <3>3, <4>2
      <4> HIDE DEF e
      <4>4. (u * a + e) \div u = a
        BY <2>1, <3>2, <4>1, QuotientUnique
      <4> QED
        BY <4>3, <4>4
    <3>6. new \div u = a /\ byte \div u = a
      BY <1>2, <1>4, <1>5, <3>5
    <3> QED
      BY <3>6 DEF BitIn, u
  <2> QED
    BY <1>1, <1>8, <2>2, <2>3
<1> QED
  BY <1>6, <1>7, <1>8 DEF new, y

-----------------------------------------------------------------------------
(* The bytes of a field *)

Structs == [0 .. StructSize - 1 -> Bytes]

\* A field of w bytes at off lies in the structure.
FieldAt(off, w) == off \in Nat /\ w \in 0 .. Cells64 /\ off + w <= StructSize

\* ReadCells adds up the bytes, each in its place.
LEMMA ReadCellsDef ==
  ASSUME NEW m \in Structs, NEW off, NEW w, FieldAt(off, w)
  PROVE  \E low \in [0 .. w -> Int] :
           /\ ReadCells(m, off, w) = low[w] /\ low[0] = 0
           /\ \A i \in 1 .. w : low[i] = low[i - 1] + m[off + i - 1] * BaseTo[i - 1]
<1> DEFINE Added(i, v) == v + m[off + i - 1] * BaseTo[i - 1]
           g == [p \in (1 .. w) \X Int |-> Added(p[1], p[2])]
<1>1. w \in Nat /\ off \in Nat /\ StructSize \in Nat /\ off + w <= StructSize
  BY PackAssumption DEF FieldAt, Cells64
<1>2. \A i \in 1 .. w, v \in Int : Added(i, v) \in Int
  <2> SUFFICES ASSUME NEW i \in 1 .. w, NEW v \in Int PROVE Added(i, v) \in Int
    OBVIOUS
  <2>1. off + i - 1 \in 0 .. StructSize - 1 /\ i - 1 \in 0 .. 8
    BY <1>1 DEF FieldAt, Cells64
  <2>2. m[off + i - 1] \in Int /\ BaseTo[i - 1] \in Int
    <3>1. m[off + i - 1] \in Bytes
      BY <2>1 DEF Structs
    <3>2. BaseTo[i - 1] \in Nat \ {0}
      BY <2>1, BaseToDef
    <3>3. m[off + i - 1] \in Int
      <4>1. m[off + i - 1] \in Nat
        BY <3>1, BytesAreNumbers, Zenon
      <4> QED
        BY <4>1
    <3>4. BaseTo[i - 1] \in Int
      BY <3>2
    <3> QED
      BY <3>3, <3>4
  <2>3. m[off + i - 1] * BaseTo[i - 1] \in Int
    BY <2>2, Products
  <2> QED
    BY <2>3
<1> HIDE DEF Added
<1>3. g \in [(1 .. w) \X Int -> Int] /\ \A i \in 1 .. w, v \in Int : g[<<i, v>>] = Added(i, v)
  BY <1>2
<1> HIDE DEF g
<1>4. PICK f \in [0 .. w -> Int] : f[0] = 0 /\ \A i \in 1 .. w : f[i] = g[<<i, f[i - 1]>>]
  <2>1. 0 \in Int
    OBVIOUS
  <2>2. \E f : Steps(f, Int, 0, g, w)
    BY <1>1, <1>3, <2>1, StepsExist
  <2> QED
    BY <2>2 DEF Steps
<1>5. f = [i \in 0 .. w |-> IF i = 0 THEN 0 ELSE Added(i, f[i - 1])]
  <2>1. f = [i \in 0 .. w |-> f[i]]
    BY <1>4
  <2>2. ASSUME NEW i \in 0 .. w
        PROVE  f[i] = IF i = 0 THEN 0 ELSE Added(i, f[i - 1])
    <3>1. i # 0 => i \in 1 .. w /\ i - 1 \in 0 .. w
      BY <1>1
    <3> QED
      BY <1>3, <1>4, <3>1
  <2> QED
    BY <2>1, <2>2, Zenon
<1> DEFINE low == CHOOSE q : q = [i \in 0 .. w |-> IF i = 0 THEN 0 ELSE Added(i, q[i - 1])]
<1>6. ReadCells(m, off, w) = low[w]
  BY Zenon DEF ReadCells, Added
<1>7. low = [i \in 0 .. w |-> IF i = 0 THEN 0 ELSE Added(i, low[i - 1])]
  BY <1>5, Zenon
<1> HIDE DEF low
<1>8. low[0] = 0 /\ \A i \in 1 .. w : low[i] = Added(i, low[i - 1])
  <2>1. 0 \in 0 .. w /\ \A i \in 1 .. w : i \in 0 .. w /\ i # 0
    BY <1>1
  <2> QED
    BY <1>7, <2>1
<1>9. \A i \in 0 .. w : low[i] \in Int
  <2> DEFINE T == {i \in 0 .. w : low[i] \in Int}
  <2>1. 0 \in T
    BY <1>1, <1>8
  <2>2. \A n \in 0 .. w - 1 : n \in T => n + 1 \in T
    <3> SUFFICES ASSUME NEW n \in 0 .. w - 1, n \in T PROVE n + 1 \in T
      OBVIOUS
    <3>1. n + 1 \in 1 .. w /\ n + 1 - 1 = n /\ n + 1 \in 0 .. w
      BY <1>1
    <3>2. low[n + 1] = Added(n + 1, low[n])
      BY <1>8, <3>1
    <3> QED
      BY <1>2, <3>1, <3>2
  <2>3. 0 .. w \subseteq T
    <3> HIDE DEF T
    <3> QED
      BY <1>1, <2>1, <2>2, IntervalInduction
  <2> QED
    BY <2>3
<1>10. low \in [0 .. w -> Int]
  <2>1. low = [i \in 0 .. w |-> low[i]]
    BY <1>7
  <2> QED
    BY <1>9, <2>1
<1> QED
  BY <1>6, <1>8, <1>10 DEF Added

\* WriteCells puts the digits of a value into the field and leaves the rest.
LEMMA WriteCellsDone ==
  ASSUME NEW m \in Structs, NEW off, NEW w, FieldAt(off, w), NEW v \in Nat
  PROVE  /\ WriteCells(m, off, w, v) \in Structs
         /\ \A k \in 0 .. w - 1 :
              WriteCells(m, off, w, v)[off + k] = (v \div BaseTo[k]) % Base
         /\ \A a \in 0 .. StructSize - 1 :
              a \notin off .. off + w - 1 => WriteCells(m, off, w, v)[a] = m[a]
<1> DEFINE n == WriteCells(m, off, w, v)
           D == 0 .. StructSize - 1
<1>1. w \in 0 .. 8 /\ w \in Nat /\ off \in Nat /\ StructSize \in Nat /\ off + w <= StructSize
  BY PackAssumption DEF FieldAt, Cells64
<1>2. DOMAIN m = D
  BY DEF Structs
<1>3. n = [a \in D |-> IF a \in off .. off + w - 1
                       THEN (v \div BaseTo[a - off]) % Base ELSE m[a]]
  BY <1>2 DEF WriteCells
<1> HIDE DEF n, D
<1>4. \A k \in 0 .. 8 : (v \div BaseTo[k]) % Base \in Bytes
  <2> SUFFICES ASSUME NEW k \in 0 .. 8 PROVE (v \div BaseTo[k]) % Base \in Bytes
    OBVIOUS
  <2>1. BaseTo[k] \in Nat \ {0} /\ Base \in Nat \ {0}
    BY BaseToDef
  <2>2. v \div BaseTo[k] \in Nat
    BY <2>1, Quotient
  <2> QED
    BY <2>1, <2>2, Quotient DEF Bytes
<1>5. \A a \in D : n[a] \in Bytes
  <2> SUFFICES ASSUME NEW a \in D PROVE n[a] \in Bytes
    OBVIOUS
  <2>1. CASE a \in off .. off + w - 1
    <3>1. a - off \in 0 .. 8
      BY <1>1, <2>1
    <3> QED
      BY <1>3, <1>4, <2>1, <3>1
  <2>2. CASE a \notin off .. off + w - 1
    <3>1. m[a] \in Bytes
      BY DEF Structs, D
    <3> QED
      BY <1>3, <2>2, <3>1
  <2> QED
    BY <2>1, <2>2
<1>6. n \in Structs
  <2>1. n = [a \in D |-> n[a]]
    BY <1>3
  <2>2. n \in [D -> Bytes]
    BY <1>5, <2>1
  <2> QED
    BY <2>2 DEF Structs, D
<1>7. ASSUME NEW k \in 0 .. w - 1
      PROVE  n[off + k] = (v \div BaseTo[k]) % Base
  <2>1. off + k \in D /\ off + k \in off .. off + w - 1 /\ (off + k) - off = k
    BY <1>1 DEF D
  <2> QED
    BY <1>3, <2>1
<1>8. ASSUME NEW a \in D, a \notin off .. off + w - 1
      PROVE  n[a] = m[a]
  BY <1>3, <1>8
<1> QED
  BY <1>6, <1>7, <1>8 DEF n, D

\* What is read depends on the bytes of the field only.
LEMMA ReadDependsOnField ==
  ASSUME NEW m \in Structs, NEW n \in Structs, NEW off, NEW w, FieldAt(off, w),
         \A k \in 0 .. w - 1 : m[off + k] = n[off + k]
  PROVE  ReadCells(m, off, w) = ReadCells(n, off, w)
<1>1. PICK p \in [0 .. w -> Int] :
        /\ ReadCells(m, off, w) = p[w] /\ p[0] = 0
        /\ \A i \in 1 .. w : p[i] = p[i - 1] + m[off + i - 1] * BaseTo[i - 1]
  BY ReadCellsDef
<1>2. PICK q \in [0 .. w -> Int] :
        /\ ReadCells(n, off, w) = q[w] /\ q[0] = 0
        /\ \A i \in 1 .. w : q[i] = q[i - 1] + n[off + i - 1] * BaseTo[i - 1]
  BY ReadCellsDef
<1>3. w \in Nat /\ off \in Nat
  BY DEF FieldAt, Cells64
<1> DEFINE T == {i \in 0 .. w : p[i] = q[i]}
<1>4. 0 \in T
  BY <1>1, <1>2, <1>3
<1>5. \A i \in 0 .. w - 1 : i \in T => i + 1 \in T
  <2> SUFFICES ASSUME NEW i \in 0 .. w - 1, i \in T PROVE i + 1 \in T
    OBVIOUS
  <2>1. i + 1 \in 1 .. w /\ (i + 1) - 1 = i /\ off + (i + 1) - 1 = off + i /\ i + 1 \in 0 .. w
    BY <1>3
  <2>2. p[i + 1] = p[i] + m[off + i] * BaseTo[i]
    BY <1>1, <2>1
  <2>3. q[i + 1] = q[i] + n[off + i] * BaseTo[i]
    BY <1>2, <2>1
  <2>4. m[off + i] = n[off + i] /\ p[i] = q[i]
    OBVIOUS
  <2> QED
    BY <2>1, <2>2, <2>3, <2>4
<1>6. 0 .. w \subseteq T
  <2> HIDE DEF T
  <2> QED
    BY <1>3, <1>4, <1>5, IntervalInduction
<1>7. w \in T
  <2> HIDE DEF T
  <2> QED
    BY <1>3, <1>6
<1> QED
  BY <1>1, <1>2, <1>7

\* Bytes that hold the digits of a value are read as that value, cut to the field.
LEMMA ReadDigits ==
  ASSUME NEW m \in Structs, NEW off, NEW w, FieldAt(off, w), NEW v \in Nat,
         \A k \in 0 .. w - 1 : m[off + k] = (v \div BaseTo[k]) % Base
  PROVE  ReadCells(m, off, w) = v % BaseTo[w]
<1>1. PICK p \in [0 .. w -> Int] :
        /\ ReadCells(m, off, w) = p[w] /\ p[0] = 0
        /\ \A i \in 1 .. w : p[i] = p[i - 1] + m[off + i - 1] * BaseTo[i - 1]
  BY ReadCellsDef
<1>2. w \in Nat /\ off \in Nat /\ w \in 0 .. 8
  BY DEF FieldAt, Cells64
<1> DEFINE T == {i \in 0 .. w : p[i] = v % BaseTo[i]}
<1>3. 0 \in T
  <2>1. v % 1 = 0
    OBVIOUS
  <2> QED
    BY <1>1, <1>2, <2>1, BaseToDef
<1>4. \A i \in 0 .. w - 1 : i \in T => i + 1 \in T
  <2> SUFFICES ASSUME NEW i \in 0 .. w - 1, i \in T PROVE i + 1 \in T
    OBVIOUS
  <2>1. i + 1 \in 1 .. w /\ (i + 1) - 1 = i /\ off + (i + 1) - 1 = off + i /\ i + 1 \in 0 .. w
        /\ i \in 0 .. 8 /\ i + 1 \in 1 .. 8
    BY <1>2
  <2>2. p[i + 1] = p[i] + m[off + i] * BaseTo[i]
    BY <1>1, <2>1
  <2>3. m[off + i] = (v \div BaseTo[i]) % Base /\ p[i] = v % BaseTo[i]
    OBVIOUS
  <2>4. BaseTo[i] \in Nat \ {0} /\ Base \in Nat \ {0} /\ BaseTo[i + 1] = Base * BaseTo[i]
    BY <2>1, BaseToDef
  <2>5. v % (Base * BaseTo[i]) = (v % BaseTo[i]) + ((v \div BaseTo[i]) % Base) * BaseTo[i]
    BY <2>4, NextDigit
  <2> QED
    BY <2>1, <2>2, <2>3, <2>4, <2>5
<1>5. 0 .. w \subseteq T
  <2> HIDE DEF T
  <2> QED
    BY <1>2, <1>3, <1>4, IntervalInduction
<1>6. w \in T
  <2> HIDE DEF T
  <2> QED
    BY <1>2, <1>5
<1> QED
  BY <1>1, <1>6

-----------------------------------------------------------------------------
(* One entry of a table *)

\* An entry whose field lies in the structure.
FieldEntry(e) ==
  /\ e.off \in Nat /\ e.kind \in Kinds /\ e.bit \in 0 .. ByteBits - 1
  /\ e.exists \in BOOLEAN /\ e.dir \in {"both", "packonly", "unpackonly"}
  /\ FieldAt(e.off, Width[e.kind])

\* Fields have one to eight bytes, flags lie in one.
LEMMA Widths ==
  /\ \A k \in Kinds : Width[k] \in 1 .. 8
  /\ \A k \in Bits : k \in Kinds /\ Width[k] = 1
BY DEF Kinds, Width, Bits

\* The byte of a flag lies in the structure.
LEMMA FieldInside ==
  ASSUME NEW e, FieldEntry(e)
  PROVE  /\ e.off \in 0 .. StructSize - 1 /\ StructSize \in Nat
         /\ Width[e.kind] \in 1 .. 8 /\ e.off + Width[e.kind] <= StructSize
         /\ e.off \in Nat /\ FieldAt(e.off, Width[e.kind])
BY Widths, PackAssumption DEF FieldEntry, FieldAt

\* A structure with one byte changed.
LEMMA ByteChanged ==
  ASSUME NEW m \in Structs, NEW a \in 0 .. StructSize - 1, NEW byte \in Bytes
  PROVE  /\ [m EXCEPT ![a] = byte] \in Structs
         /\ [m EXCEPT ![a] = byte][a] = byte
         /\ \A c \in 0 .. StructSize - 1 : c # a => [m EXCEPT ![a] = byte][c] = m[c]
BY DEF Structs

\* Signed or not, only the digits that the field has count.
LEMMA FitOfDigits ==
  ASSUME NEW kind \in Kinds, NEW v \in Nat
  PROVE  Fit(kind, v % BaseTo[Width[kind]]) = Fit(kind, v)
<1> DEFINE t == BaseTo[Width[kind]]
<1>1. t \in Nat \ {0}
  BY Widths, BaseToDef
<1> HIDE DEF t
<1>2. v % t \in 0 .. t - 1
  BY <1>1, Quotient
<1>3. (v % t) % t = v % t
  <2> DEFINE r == v % t
  <2>1. r \in 0 .. t - 1
    BY <1>2
  <2> HIDE DEF r
  <2>2. (t * 0 + r) % t = r /\ t * 0 + r = r
    <3>1. (t * 0 + r) % t = r
      BY <1>1, <2>1, QuotientUnique
    <3>2. t * 0 = 0
      BY <1>1
    <3> QED
      BY <2>1, <3>1, <3>2
  <2> QED
    BY <2>2 DEF r
<1> QED
  BY <1>3 DEF Fit, t

Packs(e, data) == e.dir # "unpackonly" /\ e.tag \in DOMAIN data

\* The data of a tag list: numbers.
Numbers(data) == \A t \in DOMAIN data : data[t] \in Nat

\* PackEntry yields a structure, and from it the entry reads what it carries.
LEMMA PackEntryDone ==
  ASSUME NEW m \in Structs, NEW e, FieldEntry(e), NEW data, Numbers(data)
  PROVE  /\ PackEntry(m, e, data) \in Structs
         /\ Packs(e, data) =>
              UnpackEntry(PackEntry(m, e, data), e) = Carried(e, data[e.tag])
<1>1. CASE ~ Packs(e, data)
  BY <1>1 DEF Packs, PackEntry
<1>2. CASE Packs(e, data) /\ e.kind \in Bits
  <2> DEFINE on == (e.exists \/ data[e.tag] # 0) = (e.kind = "BIT")
             byte == SetBit(m[e.off], e.bit, on)
             n == [m EXCEPT ![e.off] = byte]
  <2>1. PackEntry(m, e, data) = n
    BY <1>2 DEF Packs, PackEntry
  <2>2. e.off \in 0 .. StructSize - 1 /\ e.bit \in 0 .. ByteBits - 1 /\ m[e.off] \in Bytes
    BY FieldInside DEF FieldEntry, Structs
  <2>3. on \in BOOLEAN /\ (on <=> ((e.exists \/ data[e.tag] # 0) <=> e.kind = "BIT"))
    BY DEF FieldEntry
  <2> HIDE DEF on
  <2>4. byte \in Bytes /\ BitIn(byte, e.bit) = Flag(on)
    BY <2>2, <2>3, SetBitDone
  <2> HIDE DEF byte
  <2>5. n \in Structs /\ n[e.off] = byte
    BY <2>2, <2>4, ByteChanged
  <2> HIDE DEF n
  <2>6. UnpackEntry(n, e) = IF (Flag(on) = 1) = (e.kind = "BIT") THEN 1 ELSE 0
    BY <1>2, <2>4, <2>5 DEF UnpackEntry
  <2>7. (Flag(on) = 1) <=> on
    BY <2>3 DEF Flag
  <2>8. Carried(e, data[e.tag]) = IF e.exists \/ data[e.tag] # 0 THEN 1 ELSE 0
    BY <1>2 DEF Carried
  <2>9. ((Flag(on) = 1) = (e.kind = "BIT")) <=> (e.exists \/ data[e.tag] # 0)
    BY <2>3, <2>7
  <2> QED
    BY <2>1, <2>5, <2>6, <2>8, <2>9
<1>3. CASE Packs(e, data) /\ e.kind \notin Bits
  <2> DEFINE w == Width[e.kind]
             v == data[e.tag]
             n == WriteCells(m, e.off, w, v)
  <2>1. PackEntry(m, e, data) = n
    BY <1>3 DEF Packs, PackEntry
  <2>2. v \in Nat /\ FieldAt(e.off, w)
    BY <1>3, FieldInside DEF Packs, Numbers
  <2> HIDE DEF v
  <2>3. n \in Structs /\ \A k \in 0 .. w - 1 : n[e.off + k] = (v \div BaseTo[k]) % Base
    BY <2>2, WriteCellsDone
  <2> HIDE DEF n
  <2>4. ReadCells(n, e.off, w) = v % BaseTo[w]
    BY <2>2, <2>3, ReadDigits
  <2>5. UnpackEntry(n, e) = Fit(e.kind, v % BaseTo[w])
    BY <1>3, <2>4 DEF UnpackEntry
  <2>6. Fit(e.kind, v % BaseTo[w]) = Fit(e.kind, v)
    BY <2>2, FitOfDigits DEF FieldEntry
  <2>7. Carried(e, v) = Fit(e.kind, v)
    BY <1>3 DEF Carried
  <2> QED
    BY <2>1, <2>3, <2>5, <2>6, <2>7 DEF v
<1> QED
  BY <1>1, <1>2, <1>3

\* An entry whose field is apart reads the same after PackEntry.
LEMMA PackEntryApart ==
  ASSUME NEW m \in Structs, NEW e, FieldEntry(e), NEW f, FieldEntry(f), Apart(e, f),
         NEW data, Numbers(data)
  PROVE  UnpackEntry(PackEntry(m, f, data), e) = UnpackEntry(m, e)
<1> DEFINE n == PackEntry(m, f, data)
<1>1. n \in Structs
  BY PackEntryDone
<1>2. /\ e.off \in Nat /\ Width[e.kind] \in 1 .. 8 /\ e.off + Width[e.kind] <= StructSize
      /\ e.off \in 0 .. StructSize - 1 /\ FieldAt(e.off, Width[e.kind])
      /\ f.off \in Nat /\ Width[f.kind] \in 1 .. 8 /\ f.off + Width[f.kind] <= StructSize
      /\ f.off \in 0 .. StructSize - 1 /\ FieldAt(f.off, Width[f.kind])
      /\ StructSize \in Nat
  BY FieldInside
\* Nothing of the field of e has changed.
<1>3. (\A k \in 0 .. Width[e.kind] - 1 : n[e.off + k] = m[e.off + k])
        => UnpackEntry(n, e) = UnpackEntry(m, e)
  <2> SUFFICES ASSUME \A k \in 0 .. Width[e.kind] - 1 : n[e.off + k] = m[e.off + k]
               PROVE  UnpackEntry(n, e) = UnpackEntry(m, e)
    OBVIOUS
  <2> HIDE DEF n
  <2>1. ReadCells(n, e.off, Width[e.kind]) = ReadCells(m, e.off, Width[e.kind])
    BY <1>1, <1>2, ReadDependsOnField
  <2>2. n[e.off] = m[e.off]
    <3>1. 0 \in 0 .. Width[e.kind] - 1 /\ e.off + 0 = e.off
      BY <1>2
    <3> QED
      BY <3>1
  <2> QED
    BY <2>1, <2>2 DEF UnpackEntry
<1>4. CASE ~ Packs(f, data)
  BY <1>4 DEF Packs, PackEntry
<1>5. CASE Packs(f, data) /\ f.kind \in Bits
  <2> DEFINE on == (f.exists \/ data[f.tag] # 0) = (f.kind = "BIT")
             byte == SetBit(m[f.off], f.bit, on)
  <2>1. n = [m EXCEPT ![f.off] = byte]
    BY <1>5 DEF Packs, PackEntry
  <2>2. m[f.off] \in Bytes /\ f.bit \in 0 .. ByteBits - 1 /\ on \in BOOLEAN
    BY <1>2 DEF Structs, FieldEntry
  <2> HIDE DEF on
  <2>3. /\ byte \in Bytes
        /\ \A c \in 0 .. ByteBits - 1 : c # f.bit => BitIn(byte, c) = BitIn(m[f.off], c)
    BY <2>2, SetBitDone
  <2> HIDE DEF byte
  <2>4. n[f.off] = byte /\ \A c \in 0 .. StructSize - 1 : c # f.off => n[c] = m[c]
    BY <1>2, <2>1, <2>3, ByteChanged
  <2> HIDE DEF n
  <2>5. Width[f.kind] = 1
    BY <1>5, Widths
  <2>6. CASE e.off + Width[e.kind] <= f.off \/ f.off + Width[f.kind] <= e.off
    <3>1. \A k \in 0 .. Width[e.kind] - 1 :
            e.off + k \in 0 .. StructSize - 1 /\ e.off + k # f.off
      BY <1>2, <2>5, <2>6
    <3> QED
      BY <1>3, <2>4, <3>1 DEF n
  <2>7. CASE e.kind \in Bits /\ e.bit # f.bit
    <3>1. e.bit \in 0 .. ByteBits - 1
      BY DEF FieldEntry
    <3>2. BitIn(n[e.off], e.bit) = BitIn(m[e.off], e.bit)
      <4>1. CASE e.off = f.off
        BY <2>3, <2>4, <2>7, <3>1, <4>1
      <4>2. CASE e.off # f.off
        BY <1>2, <2>4, <4>2
      <4> QED
        BY <4>1, <4>2
    <3> QED
      BY <2>7, <3>2 DEF UnpackEntry, n
  <2> QED
    BY <2>6, <2>7 DEF Apart
<1>6. CASE Packs(f, data) /\ f.kind \notin Bits
  <2> DEFINE w == Width[f.kind]
             v == data[f.tag]
  <2>1. n = WriteCells(m, f.off, w, v)
    BY <1>6 DEF Packs, PackEntry
  <2>2. v \in Nat /\ FieldAt(f.off, w)
    BY <1>2, <1>6 DEF Packs, Numbers
  <2> HIDE DEF n, w, v
  <2>3. \A a \in 0 .. StructSize - 1 : a \notin f.off .. f.off + w - 1 => n[a] = m[a]
    BY <2>1, <2>2, WriteCellsDone
  <2>4. e.off + Width[e.kind] <= f.off \/ f.off + Width[f.kind] <= e.off
    BY <1>6 DEF Apart
  <2>5. \A k \in 0 .. Width[e.kind] - 1 :
          e.off + k \in 0 .. StructSize - 1 /\ e.off + k \notin f.off .. f.off + w - 1
    BY <1>2, <2>4 DEF w
  <2> QED
    BY <1>3, <2>3, <2>5 DEF n
<1> QED
  BY <1>4, <1>5, <1>6

-----------------------------------------------------------------------------
(* The loops over a table *)

FieldEntries(es) ==
  /\ Len(es) \in Nat /\ DOMAIN es = 1 .. Len(es)
  /\ \A i \in 1 .. Len(es) : FieldEntry(es[i])

\* The part of a table that the loops come to is a table like it.
LEMMA EntriesDef ==
  ASSUME NEW t \in Tables
  PROVE  FieldEntries(Entries(t))
<1>1. t \in PackTables
  BY PackAssumption
<1> DEFINE E == [tag : Nat, off : Nat, kind : Kinds, bit : 0 .. ByteBits - 1,
                 exists : BOOLEAN, dir : {"both", "packonly", "unpackonly"}]
<1>2. t \in Seq(E) /\ \A i \in DOMAIN t : t[i].off + Width[t[i].kind] <= StructSize
  BY <1>1 DEF PackTables
<1>3. \A e \in E : e.off + Width[e.kind] <= StructSize => FieldEntry(e)
  BY Widths DEF FieldEntry, FieldAt, Cells64
<1> HIDE DEF E
<1>4. Len(t) \in Nat /\ DOMAIN t = 1 .. Len(t) /\ \A i \in 1 .. Len(t) : t[i] \in E
  BY <1>2
<1>5. \A i \in 1 .. Len(t) : FieldEntry(t[i])
  BY <1>2, <1>3, <1>4
<1> DEFINE Ends(n) == /\ \A i \in 1 .. n : ~ IsEnd(t[i])
                      /\ n < Len(t) => IsEnd(t[n + 1])
<1>6. \E n \in 0 .. Len(t) : Ends(n)
  <2> DEFINE T == {i \in 1 .. Len(t) : IsEnd(t[i])}
  <2>1. CASE T = {}
    <3>1. Ends(Len(t)) /\ Len(t) \in 0 .. Len(t)
      BY <1>4, <2>1
    <3> QED
      BY <3>1
  <2>2. CASE T # {}
    <3>1. PICK x \in T : \A y \in T : x <= y
      <4>1. T \in SUBSET Nat
        OBVIOUS
      <4> HIDE DEF T
      <4> QED
        BY <2>2, <4>1, LeastElement
    <3>2. x \in 1 .. Len(t) /\ IsEnd(t[x]) /\ x - 1 \in 0 .. Len(t) /\ (x - 1) + 1 = x
      BY <1>4
    <3>3. \A i \in 1 .. x - 1 : ~ IsEnd(t[i])
      <4> SUFFICES ASSUME NEW i \in 1 .. x - 1, IsEnd(t[i]) PROVE FALSE
        OBVIOUS
      <4>1. i \in T
        BY <1>4, <3>2
      <4> QED
        BY <3>1, <3>2, <4>1
    <3>4. Ends(x - 1)
      BY <3>2, <3>3
    <3> QED
      BY <3>2, <3>4
  <2> QED
    BY <2>1, <2>2
<1> DEFINE n == CHOOSE k \in 0 .. Len(t) : Ends(k)
<1>7. Entries(t) = SubSeq(t, 1, n)
  BY Zenon DEF Entries
<1>8. n \in 0 .. Len(t)
  <2> HIDE DEF Ends
  <2> QED
    BY <1>6
<1> HIDE DEF n, Ends
<1>9. /\ SubSeq(t, 1, n) \in Seq(E) /\ Len(SubSeq(t, 1, n)) = n
      /\ \A i \in 1 .. n : SubSeq(t, 1, n)[i] = t[i]
  BY <1>2, <1>4, <1>8
<1>10. DOMAIN SubSeq(t, 1, n) = 1 .. n
  BY <1>9
<1> QED
  BY <1>4, <1>5, <1>7, <1>8, <1>9, <1>10 DEF FieldEntries

\* The structure after each turn of the packing loop.
LEMMA PackedDef ==
  ASSUME NEW m \in Structs, NEW es, FieldEntries(es), NEW data, Numbers(data)
  PROVE  \E done \in [0 .. Len(es) -> Structs] :
           /\ Packed(m, es, data) = done[Len(es)] /\ done[0] = m
           /\ \A i \in 1 .. Len(es) : done[i] = PackEntry(done[i - 1], es[i], data)
<1> DEFINE K == Len(es)
           Turn(i, x) == PackEntry(x, es[i], data)
           g == [p \in (1 .. K) \X Structs |-> Turn(p[1], p[2])]
<1>1. K \in Nat
  BY DEF FieldEntries
<1>2. \A i \in 1 .. K, x \in Structs : Turn(i, x) \in Structs
  BY PackEntryDone DEF FieldEntries
<1> HIDE DEF Turn
<1>3. g \in [(1 .. K) \X Structs -> Structs]
      /\ \A i \in 1 .. K, x \in Structs : g[<<i, x>>] = Turn(i, x)
  BY <1>2
<1> HIDE DEF g, K
<1>4. PICK f : Steps(f, Structs, m, g, K)
  BY <1>1, <1>3, StepsExist
<1>5. f = [i \in 0 .. K |-> IF i = 0 THEN m ELSE Turn(i, f[i - 1])]
  <2>1. f = [i \in 0 .. K |-> f[i]]
    BY <1>4 DEF Steps
  <2>2. ASSUME NEW i \in 0 .. K
        PROVE  f[i] = IF i = 0 THEN m ELSE Turn(i, f[i - 1])
    <3>1. i # 0 => i \in 1 .. K /\ i - 1 \in 0 .. K
      BY <1>1
    <3> QED
      BY <1>3, <1>4, <3>1 DEF Steps
  <2> QED
    BY <2>1, <2>2, Zenon
<1> DEFINE done == CHOOSE q : q = [i \in 0 .. K |-> IF i = 0 THEN m ELSE Turn(i, q[i - 1])]
<1>6. Packed(m, es, data) = done[K]
  BY Zenon DEF Packed, Turn, K
<1>7. done = [i \in 0 .. K |-> IF i = 0 THEN m ELSE Turn(i, done[i - 1])]
  BY <1>5, Zenon
<1> HIDE DEF done
<1>8. done[0] = m /\ \A i \in 1 .. K : done[i] = Turn(i, done[i - 1])
  <2>1. 0 \in 0 .. K /\ \A i \in 1 .. K : i \in 0 .. K /\ i # 0
    BY <1>1
  <2> QED
    BY <1>7, <2>1
<1>9. \A i \in 0 .. K : done[i] \in Structs
  <2> DEFINE T == {i \in 0 .. K : done[i] \in Structs}
  <2>1. 0 \in T
    BY <1>1, <1>8
  <2>2. \A n \in 0 .. K - 1 : n \in T => n + 1 \in T
    <3> SUFFICES ASSUME NEW n \in 0 .. K - 1, n \in T PROVE n + 1 \in T
      OBVIOUS
    <3>1. n + 1 \in 1 .. K /\ n + 1 - 1 = n /\ n + 1 \in 0 .. K
      BY <1>1
    <3>2. done[n + 1] = Turn(n + 1, done[n])
      BY <1>8, <3>1
    <3> QED
      BY <1>2, <3>1, <3>2
  <2>3. 0 .. K \subseteq T
    <3> HIDE DEF T
    <3> QED
      BY <1>1, <2>1, <2>2, IntervalInduction
  <2> QED
    BY <2>3
<1>10. done \in [0 .. K -> Structs]
  <2>1. done = [i \in 0 .. K |-> done[i]]
    BY <1>7
  <2> QED
    BY <1>9, <2>1
<1> QED
  BY <1>6, <1>8, <1>10 DEF Turn, K

\* No later entry that packs shares a bit with entry i.
Kept(es, i) ==
  \A j \in i + 1 .. Len(es) : es[j].dir = "unpackonly" \/ Apart(es[i], es[j])

\* The entries behind entry i of K, counted from it.
LEMMA Onwards ==
  ASSUME NEW K \in Nat, NEW i \in 1 .. K, NEW k \in 0 .. (K - i) - 1
  PROVE  /\ i + k + 1 \in 1 .. K /\ i + k + 1 \in i + 1 .. K
         /\ (i + k + 1) - 1 = i + k /\ (i + k + 1) - 1 \in 0 .. K
         /\ i + (k + 1) = i + k + 1 /\ k + 1 \in 0 .. K - i
OBVIOUS

\* After packing every field holds what was packed into it last.
LEMMA PackedDone ==
  ASSUME NEW m \in Structs, NEW es, FieldEntries(es), NEW data, Numbers(data)
  PROVE  /\ Packed(m, es, data) \in Structs
         /\ \A i \in 1 .. Len(es) :
              Packs(es[i], data) /\ Kept(es, i) =>
                UnpackEntry(Packed(m, es, data), es[i]) = Carried(es[i], data[es[i].tag])
<1> DEFINE K == Len(es)
<1>1. PICK done \in [0 .. K -> Structs] :
        /\ Packed(m, es, data) = done[K] /\ done[0] = m
        /\ \A i \in 1 .. K : done[i] = PackEntry(done[i - 1], es[i], data)
  BY PackedDef
<1>2. K \in Nat /\ \A i \in 1 .. K : FieldEntry(es[i])
  BY DEF FieldEntries
<1> HIDE DEF K
<1>3. Packed(m, es, data) \in Structs
  BY <1>1, <1>2
<1>4. ASSUME NEW i \in 1 .. K, Packs(es[i], data), Kept(es, i)
      PROVE  UnpackEntry(done[K], es[i]) = Carried(es[i], data[es[i].tag])
  <2> DEFINE c == Carried(es[i], data[es[i].tag])
             T == {k \in 0 .. K - i : UnpackEntry(done[i + k], es[i]) = c}
  <2>1. 0 \in T
    <3>1. i - 1 \in 0 .. K /\ i + 0 = i /\ 0 \in 0 .. K - i
      BY <1>2
    <3>2. done[i - 1] \in Structs /\ done[i] = PackEntry(done[i - 1], es[i], data)
      BY <1>1, <3>1
    <3>3. UnpackEntry(done[i], es[i]) = c
      BY <1>2, <1>4, <3>2, PackEntryDone
    <3> HIDE DEF c
    <3> QED
      BY <3>1, <3>3
  <2>2. \A k \in 0 .. (K - i) - 1 : k \in T => k + 1 \in T
    <3> SUFFICES ASSUME NEW k \in 0 .. (K - i) - 1, k \in T PROVE k + 1 \in T
      OBVIOUS
    <3> DEFINE j == i + k + 1
    <3>1. /\ j \in 1 .. K /\ j \in i + 1 .. K /\ j - 1 = i + k /\ j - 1 \in 0 .. K
          /\ i + (k + 1) = j /\ k + 1 \in 0 .. K - i
      BY <1>2, Onwards, Zenon
    <3>2. UnpackEntry(done[j - 1], es[i]) = c
      BY <3>1
    <3> HIDE DEF j, c
    <3>3. done[j - 1] \in Structs /\ done[j] = PackEntry(done[j - 1], es[j], data)
      BY <1>1, <3>1
    <3>4. es[j].dir = "unpackonly" \/ Apart(es[i], es[j])
      BY <1>4, <3>1 DEF Kept, K
    <3>5. CASE es[j].dir = "unpackonly"
      <4>1. done[j] = done[j - 1]
        BY <3>3, <3>5 DEF PackEntry
      <4> QED
        BY <3>1, <3>2, <4>1
    <3>6. CASE Apart(es[i], es[j])
      <4>1. UnpackEntry(done[j], es[i]) = UnpackEntry(done[j - 1], es[i])
        BY <1>2, <3>1, <3>3, <3>6, PackEntryApart
      <4> QED
        BY <3>1, <3>2, <4>1
    <3> QED
      BY <3>4, <3>5, <3>6
  <2>3. 0 .. K - i \subseteq T
    <3> HIDE DEF T
    <3>1. K - i \in Nat
      BY <1>2
    <3> QED
      BY <2>1, <2>2, <3>1, IntervalInduction
  <2>4. K - i \in T /\ i + (K - i) = K
    <3> HIDE DEF T
    <3> QED
      BY <1>2, <2>3
  <2> QED
    BY <2>4
<1> QED
  BY <1>1, <1>3, <1>4 DEF K

Wants(e, wanted) == e.dir # "packonly" /\ e.tag \in wanted

\* No later entry that unpacks has the tag of entry i.
Stored(es, i) ==
  \A j \in i + 1 .. Len(es) : es[j].dir = "packonly" \/ es[j].tag # es[i].tag

\* What is stored for the tags so far is changed by an entry for its own tag.
StoreEntry(m, e, wanted, out) ==
  IF ~ Wants(e, wanted) THEN out
  ELSE [t \in DOMAIN out \cup {e.tag} |-> IF t = e.tag THEN UnpackEntry(m, e) ELSE out[t]]

\* What is stored after each turn of the unpacking loop.
LEMMA UnpackedDef ==
  ASSUME NEW m, NEW es, FieldEntries(es), NEW wanted
  PROVE  \E done :
           /\ Unpacked(m, es, wanted) = done[Len(es)] /\ done[0] = <<>>
           /\ \A i \in 1 .. Len(es) : done[i] = StoreEntry(m, es[i], wanted, done[i - 1])
<1> DEFINE K == Len(es)
           Named == {es[i].tag : i \in 1 .. K}
           V == {UnpackEntry(m, es[i]) : i \in 1 .. K}
           X == UNION {[T -> V] : T \in SUBSET Named}
           Turn(i, x) == StoreEntry(m, es[i], wanted, x)
           g == [p \in (1 .. K) \X X |-> Turn(p[1], p[2])]
<1>1. K \in Nat
  BY DEF FieldEntries
<1>2. ASSUME NEW i \in 1 .. K, NEW x \in X
      PROVE  Turn(i, x) \in X
  <2> DEFINE t == es[i].tag
             v == UnpackEntry(m, es[i])
             h == [s \in DOMAIN x \cup {t} |-> IF s = t THEN v ELSE x[s]]
  <2>1. PICK T \in SUBSET Named : x \in [T -> V]
    OBVIOUS
  <2>2. t \in Named /\ v \in V
    OBVIOUS
  <2> HIDE DEF V, Named, t, v
  <2>3. h \in [T \cup {t} -> V]
    BY <2>1, <2>2
  <2>4. T \cup {t} \in SUBSET Named
    BY <2>1, <2>2
  <2>5. h \in X
    <3> HIDE DEF h
    <3> QED
      BY <2>3, <2>4
  <2>6. Turn(i, x) = x \/ Turn(i, x) = h
    BY Zenon DEF StoreEntry, t, v
  <2> HIDE DEF h, X
  <2> QED
    BY <2>5, <2>6
<1>3. <<>> \in X
  <2>1. <<>> \in [{} -> V]
    OBVIOUS
  <2> QED
    BY <2>1
<1> HIDE DEF Turn, X
<1>4. g \in [(1 .. K) \X X -> X] /\ \A i \in 1 .. K, x \in X : g[<<i, x>>] = Turn(i, x)
  BY <1>2
<1> HIDE DEF g, K
<1>5. PICK f : Steps(f, X, <<>>, g, K)
  BY <1>1, <1>3, <1>4, StepsExist
<1>6. f = [i \in 0 .. K |-> IF i = 0 THEN <<>> ELSE Turn(i, f[i - 1])]
  <2>1. f = [i \in 0 .. K |-> f[i]]
    BY <1>5 DEF Steps
  <2>2. ASSUME NEW i \in 0 .. K
        PROVE  f[i] = IF i = 0 THEN <<>> ELSE Turn(i, f[i - 1])
    <3>1. i # 0 => i \in 1 .. K /\ i - 1 \in 0 .. K
      BY <1>1
    <3> QED
      BY <1>4, <1>5, <3>1 DEF Steps
  <2> QED
    BY <2>1, <2>2, Zenon
<1> DEFINE done == CHOOSE q : q = [i \in 0 .. K |-> IF i = 0 THEN <<>> ELSE Turn(i, q[i - 1])]
<1>7. Unpacked(m, es, wanted) = done[K]
  <2> DEFINE Short(q) == [i \in 0 .. K |-> IF i = 0 THEN <<>> ELSE Turn(i, q[i - 1])]
             Long(q) == [i \in 0 .. K |->
                 IF i = 0 THEN <<>>
                 ELSE IF es[i].dir = "packonly" \/ es[i].tag \notin wanted THEN q[i - 1]
                 ELSE [t \in DOMAIN q[i - 1] \cup {es[i].tag} |->
                         IF t = es[i].tag THEN UnpackEntry(m, es[i]) ELSE q[i - 1][t]]]
  <2>1. \A i, x : Turn(i, x) =
          IF es[i].dir = "packonly" \/ es[i].tag \notin wanted THEN x
          ELSE [t \in DOMAIN x \cup {es[i].tag} |->
                  IF t = es[i].tag THEN UnpackEntry(m, es[i]) ELSE x[t]]
    BY Zenon DEF Turn, StoreEntry, Wants
  <2>2. \A q : Short(q) = Long(q)
    BY <2>1, Zenon
  <2>3. Unpacked(m, es, wanted) = (CHOOSE q : q = Long(q))[K]
    BY DEF Unpacked, K
  <2>4. done = CHOOSE q : q = Short(q)
    OBVIOUS
  <2> HIDE DEF Short, Long, done
  <2> QED
    BY <2>2, <2>3, <2>4, Zenon
<1>8. done = [i \in 0 .. K |-> IF i = 0 THEN <<>> ELSE Turn(i, done[i - 1])]
  BY <1>6, Zenon
<1> HIDE DEF done
<1>9. done[0] = <<>> /\ \A i \in 1 .. K : done[i] = Turn(i, done[i - 1])
  <2>1. 0 \in 0 .. K /\ \A i \in 1 .. K : i \in 0 .. K /\ i # 0
    BY <1>1
  <2> QED
    BY <1>8, <2>1
<1> QED
  BY <1>7, <1>9 DEF Turn, K

\* Unpacking stores for a tag what the last of its entries reads.
LEMMA UnpackedDone ==
  ASSUME NEW m, NEW es, FieldEntries(es), NEW wanted, NEW i \in 1 .. Len(es),
         es[i].dir # "packonly", Stored(es, i), es[i].tag \in DOMAIN Unpacked(m, es, wanted)
  PROVE  Unpacked(m, es, wanted)[es[i].tag] = UnpackEntry(m, es[i])
<1> DEFINE K == Len(es)
           t == es[i].tag
<1>1. PICK done :
        /\ Unpacked(m, es, wanted) = done[K] /\ done[0] = <<>>
        /\ \A j \in 1 .. K : done[j] = StoreEntry(m, es[j], wanted, done[j - 1])
  BY UnpackedDef
<1>2. K \in Nat /\ i \in 1 .. K
  BY DEF FieldEntries
<1> HIDE DEF K
<1>3. t \in wanted
  <2> DEFINE T == {k \in 0 .. K : DOMAIN done[k] \subseteq wanted}
  <2>1. 0 \in T
    <3>1. DOMAIN <<>> = {}
      OBVIOUS
    <3> QED
      BY <1>1, <1>2, <3>1
  <2>2. \A k \in 0 .. K - 1 : k \in T => k + 1 \in T
    <3> SUFFICES ASSUME NEW k \in 0 .. K - 1, k \in T PROVE k + 1 \in T
      OBVIOUS
    <3>1. k + 1 \in 1 .. K /\ k + 1 \in 0 .. K /\ (k + 1) - 1 = k
      BY <1>2
    <3>2. done[k + 1] = StoreEntry(m, es[k + 1], wanted, done[k])
      BY <1>1, <3>1
    <3>3. DOMAIN done[k + 1] \subseteq wanted
      BY <3>2 DEF StoreEntry, Wants
    <3> QED
      BY <3>1, <3>3
  <2>3. 0 .. K \subseteq T
    <3> HIDE DEF T
    <3> QED
      BY <1>2, <2>1, <2>2, IntervalInduction
  <2>4. K \in T
    <3> HIDE DEF T
    <3> QED
      BY <1>2, <2>3
  <2> QED
    BY <1>1, <2>4
<1> DEFINE Holds(x) == t \in DOMAIN x /\ x[t] = UnpackEntry(m, es[i])
           T == {k \in 0 .. K - i : Holds(done[i + k])}
<1>4. 0 \in T
  <2>1. 0 \in 0 .. K - i /\ i + 0 = i
    BY <1>2
  <2>2. done[i] = StoreEntry(m, es[i], wanted, done[i - 1])
    BY <1>1, <1>2
  <2>3. Wants(es[i], wanted)
    BY <1>3 DEF Wants
  <2>4. done[i] = [s \in DOMAIN done[i - 1] \cup {t} |->
                     IF s = t THEN UnpackEntry(m, es[i]) ELSE done[i - 1][s]]
    BY <2>2, <2>3, Zenon DEF StoreEntry
  <2>5. Holds(done[i])
    <3> HIDE DEF t
    <3> QED
      BY <2>4
  <2> HIDE DEF Holds
  <2> QED
    BY <2>1, <2>5
<1>5. \A k \in 0 .. (K - i) - 1 : k \in T => k + 1 \in T
  <2> SUFFICES ASSUME NEW k \in 0 .. (K - i) - 1, k \in T PROVE k + 1 \in T
    OBVIOUS
  <2> DEFINE j == i + k + 1
  <2>1. /\ j \in 1 .. K /\ j \in i + 1 .. K /\ j - 1 = i + k
        /\ i + (k + 1) = j /\ k + 1 \in 0 .. K - i
    BY <1>2, Onwards, Zenon
  <2>2. Holds(done[j - 1])
    <3> HIDE DEF Holds
    <3> QED
      BY <2>1
  <2> HIDE DEF j, t
  <2>3. done[j] = StoreEntry(m, es[j], wanted, done[j - 1])
    BY <1>1, <2>1
  <2>4. es[j].dir = "packonly" \/ es[j].tag # t
    BY <2>1 DEF Stored, K, t
  <2>5. Holds(done[j])
    <3>1. CASE ~ Wants(es[j], wanted)
      BY <2>2, <2>3, <3>1 DEF StoreEntry
    <3>2. CASE Wants(es[j], wanted)
      <4>1. es[j].tag # t
        BY <2>4, <3>2 DEF Wants
      <4>2. done[j] = [s \in DOMAIN done[j - 1] \cup {es[j].tag} |->
                         IF s = es[j].tag THEN UnpackEntry(m, es[j]) ELSE done[j - 1][s]]
        BY <2>3, <3>2, Zenon DEF StoreEntry
      <4> QED
        BY <2>2, <4>1, <4>2
    <3> QED
      BY <3>1, <3>2
  <2> HIDE DEF Holds
  <2> QED
    BY <2>1, <2>5
<1>6. 0 .. K - i \subseteq T
  <2> HIDE DEF T
  <2>1. K - i \in Nat
    BY <1>2
  <2> QED
    BY <1>4, <1>5, <2>1, IntervalInduction
<1>7. K - i \in T /\ i + (K - i) = K
  <2> HIDE DEF T
  <2> QED
    BY <1>2, <1>6
<1> QED
  BY <1>1, <1>7

-----------------------------------------------------------------------------
(* The two calls *)

\* Fields hold what was given, and what was taken is what they hold.
PackInv ==
  /\ table \in Tables /\ struct \in Structs
  /\ \A i \in 1 .. Len(Entries(table)) :
       LET e == Entries(table)[i]
       IN  /\ Packs(e, given) /\ Kept(Entries(table), i) =>
                UnpackEntry(struct, e) = Carried(e, given[e.tag])
           /\ e.dir # "packonly" /\ Stored(Entries(table), i) /\ e.tag \in DOMAIN taken =>
                taken[e.tag] = UnpackEntry(struct, e)

\* PackInv holds for a structure filled anyhow, before any call.
LEMMA PackInitInv == PackInit => PackInv
<1> SUFFICES ASSUME PackInit PROVE PackInv
  OBVIOUS
<1>1. table \in Tables /\ DOMAIN given = {} /\ DOMAIN taken = {}
  BY DEF PackInit
<1>2. struct \in Structs
  <2>1. PICK f \in Fillings : struct = [a \in 0 .. StructSize - 1 |-> f]
    BY DEF PackInit
  <2>2. f \in Bytes
    BY PackAssumption DEF Bytes
  <2> QED
    BY <2>1, <2>2 DEF Structs
<1> QED
  BY <1>1, <1>2 DEF PackInv, Packs

\* PackInv is kept by both calls.
LEMMA PackNextInv == PackInv /\ [PackNext]_packVars => PackInv'
<1> SUFFICES ASSUME PackInv, [PackNext]_packVars PROVE PackInv'
  OBVIOUS
<1> DEFINE es == Entries(table)
<1>1. FieldEntries(es) /\ table \in Tables /\ struct \in Structs
  BY EntriesDef DEF PackInv
<1>2. ASSUME NEW some \in SUBSET TableTags, NEW data \in [some -> Values],
             PackStructureTags(data)
      PROVE  PackInv'
  <2>1. Numbers(data)
    <3>1. Values \subseteq Nat
      BY PackAssumption, BaseToDef DEF Cells64
    <3> QED
      BY <3>1 DEF Numbers
  <2>2. /\ struct' = Packed(struct, es, data) /\ given' = data
        /\ table' = table /\ taken' = taken /\ taken = <<>>
    BY <1>2 DEF PackStructureTags
  <2>3. es' = es
    BY <2>2
  <2>4. DOMAIN taken' = {}
    BY <2>2
  <2> HIDE DEF es
  <2>5. /\ struct' \in Structs
        /\ \A i \in 1 .. Len(es) :
             Packs(es[i], given') /\ Kept(es, i) =>
               UnpackEntry(struct', es[i]) = Carried(es[i], given'[es[i].tag])
    BY <1>1, <2>1, <2>2, PackedDone
  <2>6. \A i \in 1 .. Len(es') :
          /\ Packs(es'[i], given') /\ Kept(es', i) =>
               UnpackEntry(struct', es'[i]) = Carried(es'[i], given'[es'[i].tag])
          /\ es'[i].dir # "packonly" /\ Stored(es', i) /\ es'[i].tag \in DOMAIN taken' =>
               taken'[es'[i].tag] = UnpackEntry(struct', es'[i])
    BY <2>3, <2>4, <2>5, Zenon
  <2> QED
    BY <1>1, <2>2, <2>5, <2>6 DEF PackInv, es
<1>3. ASSUME NEW wanted \in SUBSET TableTags, UnpackStructureTags(wanted)
      PROVE  PackInv'
  <2>1. /\ taken' = Unpacked(struct, es, wanted)
        /\ struct' = struct /\ given' = given /\ table' = table
    BY <1>3 DEF UnpackStructureTags
  <2>2. \A i \in 1 .. Len(es) :
          Packs(es[i], given) /\ Kept(es, i) =>
            UnpackEntry(struct, es[i]) = Carried(es[i], given[es[i].tag])
    BY DEF PackInv
  <2>3. es' = es
    BY <2>1
  <2> HIDE DEF es
  <2>4. \A i \in 1 .. Len(es) :
          es[i].dir # "packonly" /\ Stored(es, i) /\ es[i].tag \in DOMAIN taken' =>
            taken'[es[i].tag] = UnpackEntry(struct, es[i])
    BY <1>1, <2>1, UnpackedDone
  <2>5. \A i \in 1 .. Len(es') :
          /\ Packs(es'[i], given') /\ Kept(es', i) =>
               UnpackEntry(struct', es'[i]) = Carried(es'[i], given'[es'[i].tag])
          /\ es'[i].dir # "packonly" /\ Stored(es', i) /\ es'[i].tag \in DOMAIN taken' =>
               taken'[es'[i].tag] = UnpackEntry(struct', es'[i])
    BY <2>1, <2>2, <2>3, <2>4, Zenon
  <2> QED
    BY <1>1, <2>1, <2>5 DEF PackInv, es
<1>4. ASSUME UNCHANGED packVars
      PROVE  PackInv'
  BY <1>4 DEF packVars, PackInv
<1> QED
  BY <1>2, <1>3, <1>4 DEF PackNext

\* However often the two calls are made, fields hold what was packed into them
\* and unpacking has stored what they hold.
THEOREM PackSpecInv == PackSpec => []PackInv
BY PackInitInv, PackNextInv, PTL DEF PackSpec

\* Data that PackStructureTags has put into a structure comes back from
\* UnpackStructureTags as the field carries it, for every table and every data,
\* unless a later entry has written over the field or over the tag.
THEOREM PackedDataComesBack == PackSpec => []PackedComesBack
<1>1. PackInv => PackedComesBack
  <2> SUFFICES ASSUME PackInv, NEW i \in DOMAIN Entries(table), Lasting(i),
                      Entries(table)[i].tag \in DOMAIN given \cap DOMAIN taken
               PROVE  taken[Entries(table)[i].tag]
                        = Carried(Entries(table)[i], given[Entries(table)[i].tag])
    BY DEF PackedComesBack
  <2> DEFINE es == Entries(table)
             e == es[i]
  <2>1. i \in 1 .. Len(es)
    BY EntriesDef DEF PackInv, FieldEntries
  <2>2. e.dir = "both" /\ Kept(es, i) /\ Stored(es, i)
    BY DEF Lasting, Kept, Stored
  <2>3. Packs(e, given) /\ e.dir # "packonly"
    BY <2>2 DEF Packs
  <2>4. /\ UnpackEntry(struct, e) = Carried(e, given[e.tag])
        /\ taken[e.tag] = UnpackEntry(struct, e)
    BY <2>1, <2>2, <2>3 DEF PackInv
  <2> QED
    BY <2>4
<1> QED
  BY <1>1, PackSpecInv, PTL

-----------------------------------------------------------------------------
(* Lists *)

Front(l) == Members(l) \cup {HeadOf(l)}
Back(l) == Members(l) \cup {TailOf(l)}

\* What the two loops carry from step to step still belongs to their list.
LoopsOK ==
  /\ scan # NULL => owner[scan.node] = NULL /\ scan.next \in Back(scan.list)
  /\ walk # NULL => walk.next \in Back(walk.list) /\ due \subseteq Members(walk.list)

ListInv == ListTypeOK /\ Linked /\ LoopsOK

\* The addresses of headers and tails are told apart from each other, from
\* the nodes and from NULL.
LEMMA CellsApart ==
  \A l, m \in Lists :
    /\ HeadOf(l) # TailOf(m)
    /\ HeadOf(l) = HeadOf(m) => l = m
    /\ TailOf(l) = TailOf(m) => l = m
    /\ HeadOf(l) \in Cells \ Nodes /\ TailOf(l) \in Cells \ Nodes
    /\ HeadOf(l) # NULL /\ TailOf(l) # NULL /\ l # NULL
<1> USE ListAssumption DEF HeadOf, TailOf, Heads, Tails, Cells
<1> SUFFICES ASSUME NEW l \in Lists, NEW m \in Lists
             PROVE  /\ HeadOf(l) # TailOf(m)
                    /\ HeadOf(l) = HeadOf(m) => l = m
                    /\ TailOf(l) = TailOf(m) => l = m
                    /\ HeadOf(l) \in Cells \ Nodes /\ TailOf(l) \in Cells \ Nodes
                    /\ HeadOf(l) # NULL /\ TailOf(l) # NULL /\ l # NULL
  OBVIOUS
<1>1. HeadOf(l) # TailOf(m) /\ (HeadOf(l) = HeadOf(m) => l = m)
  OBVIOUS
<1>2. TailOf(l) = TailOf(m) => l = m
  OBVIOUS
<1>3. HeadOf(l) \in Heads /\ TailOf(l) \in Tails
  OBVIOUS
<1> QED
  BY <1>1, <1>2, <1>3

\* A node that is in no list is put between a cell and the one behind it
\* (LIST_ADDHEAD to LIST_ENQUEUE of exec/lists.h): the chains stay closed.
LEMMA LinkAfterKeepsLinked ==
  ASSUME ListInv, NEW l \in Lists, NEW n \in Nodes, owner[n] = NULL,
         NEW p \in Front(l), LinkAfter(p, n),
         owner' = [owner EXCEPT ![n] = l]
  PROVE  /\ succ' \in [Cells -> Cells \cup {NULL}]
         /\ pred' \in [Cells -> Cells \cup {NULL}]
         /\ owner' \in [Nodes -> Lists \cup {NULL}]
         /\ Linked'
<1> DEFINE s == succ[p]
<1> USE ListAssumption DEF ListInv, ListTypeOK, Front, Back, Members, LinkAfter
<1>1. /\ p \in Cells /\ p # n /\ s \in Back(l) /\ s \in Cells /\ s # n /\ n \in Cells
      /\ pred[s] = p
  BY CellsApart DEF Linked, Cells
<1>2. /\ succ' = [succ EXCEPT ![n] = s, ![p] = n]
      /\ pred' = [pred EXCEPT ![n] = p, ![s] = n]
  OBVIOUS
<1> HIDE DEF s, LinkAfter
<1>3. /\ succ' \in [Cells -> Cells \cup {NULL}]
      /\ pred' \in [Cells -> Cells \cup {NULL}]
      /\ owner' \in [Nodes -> Lists \cup {NULL}]
  BY <1>1, <1>2
<1>4. /\ succ'[n] = s /\ succ'[p] = n
      /\ \A c \in Cells \ {n, p} : succ'[c] = succ[c]
      /\ pred'[n] = p /\ pred'[s] = n
      /\ \A c \in Cells \ {n, s} : pred'[c] = pred[c]
  BY <1>1, <1>2
<1>5. /\ Members(l)' = Members(l) \cup {n}
      /\ \A m \in Lists \ {l} : Members(m)' = Members(m)
      /\ \A m \in Lists : n \notin Members(m)
      /\ \A m \in Lists \ {l} : Members(m) \cap Members(l) = {}
      /\ \A m \in Lists : Members(m) \subseteq Nodes /\ Nodes \subseteq Cells
  BY CellsApart DEF Cells
<1> HIDE DEF Members
<1>6. SUFFICES ASSUME NEW m \in Lists
      PROVE  /\ succ'[TailOf(m)] = NULL /\ pred'[HeadOf(m)] = NULL
             /\ \A c \in Members(m)' \cup {HeadOf(m)} :
                  succ'[c] \in Members(m)' \cup {TailOf(m)} /\ pred'[succ'[c]] = c
             /\ \A c \in Members(m)' \cup {TailOf(m)} :
                  pred'[c] \in Members(m)' \cup {HeadOf(m)} /\ succ'[pred'[c]] = c
  BY <1>3 DEF Linked, HeadOf, TailOf
<1>7. succ'[TailOf(m)] = NULL /\ pred'[HeadOf(m)] = NULL
  BY <1>1, <1>4, <1>5, CellsApart DEF Linked
<1>8. ASSUME NEW c \in Members(m)' \cup {HeadOf(m)}
      PROVE  succ'[c] \in Members(m)' \cup {TailOf(m)} /\ pred'[succ'[c]] = c
  <2>1. CASE m = l
    BY <2>1, <1>1, <1>4, <1>5, <1>8, CellsApart DEF Linked
  <2>2. CASE m # l
    BY <2>2, <1>1, <1>4, <1>5, <1>8, CellsApart DEF Linked
  <2> QED
    BY <2>1, <2>2
<1>9. ASSUME NEW c \in Members(m)' \cup {TailOf(m)}
      PROVE  pred'[c] \in Members(m)' \cup {HeadOf(m)} /\ succ'[pred'[c]] = c
  <2>1. CASE m = l
    BY <2>1, <1>1, <1>4, <1>5, <1>9, CellsApart DEF Linked
  <2>2. CASE m # l
    BY <2>2, <1>1, <1>4, <1>5, <1>9, CellsApart DEF Linked
  <2> QED
    BY <2>1, <2>2
<1> QED
  BY <1>7, <1>8, <1>9

\* A node is taken out of its list (LIST_REMOVE): its neighbours meet.
LEMMA UnlinkKeepsLinked ==
  ASSUME ListInv, NEW n \in Nodes, owner[n] # NULL, Unlink(n),
         owner' = [owner EXCEPT ![n] = NULL]
  PROVE  /\ succ' \in [Cells -> Cells \cup {NULL}]
         /\ pred' \in [Cells -> Cells \cup {NULL}]
         /\ owner' \in [Nodes -> Lists \cup {NULL}]
         /\ Linked'
<1> USE ListAssumption DEF ListInv, ListTypeOK, Front, Back, Members
<1>a. PICK l \in Lists : l = owner[n]
  OBVIOUS
<1>b. PICK p, s : p = pred[n] /\ s = succ[n]
  OBVIOUS
<1>1. /\ n \in Members(l) /\ n \in Cells
      /\ p \in Front(l) /\ p \in Cells /\ succ[p] = n
      /\ s \in Back(l) /\ s \in Cells /\ pred[s] = n
  <2>1. n \in Members(l) /\ n \in Cells
    BY <1>a DEF Cells
  <2>2. /\ p \in Front(l) /\ succ[p] = n
        /\ s \in Back(l) /\ pred[s] = n
    BY <1>b, <2>1 DEF Linked
  <2>3. p \in Cells /\ s \in Cells
    BY <2>1, <2>2, CellsApart DEF Cells
  <2> QED
    BY <2>1, <2>2, <2>3
<1>2. /\ succ' = [succ EXCEPT ![p] = s]
      /\ pred' = [pred EXCEPT ![s] = p]
  BY <1>a, <1>b DEF Unlink
<1>3. /\ succ' \in [Cells -> Cells \cup {NULL}]
      /\ pred' \in [Cells -> Cells \cup {NULL}]
      /\ owner' \in [Nodes -> Lists \cup {NULL}]
  BY <1>1, <1>2
<1>4. /\ succ'[p] = s /\ \A c \in Cells \ {p} : succ'[c] = succ[c]
      /\ pred'[s] = p /\ \A c \in Cells \ {s} : pred'[c] = pred[c]
  BY <1>1, <1>2
<1>5. /\ Members(l)' = Members(l) \ {n}
      /\ \A m \in Lists \ {l} : Members(m)' = Members(m)
      /\ \A m \in Lists \ {l} : Members(m) \cap Members(l) = {}
      /\ \A m \in Lists : Members(m) \subseteq Nodes /\ Nodes \subseteq Cells
  BY <1>a, <1>b, CellsApart DEF Cells
<1> HIDE DEF Members
<1>6. SUFFICES ASSUME NEW m \in Lists
      PROVE  /\ succ'[TailOf(m)] = NULL /\ pred'[HeadOf(m)] = NULL
             /\ \A c \in Members(m)' \cup {HeadOf(m)} :
                  succ'[c] \in Members(m)' \cup {TailOf(m)} /\ pred'[succ'[c]] = c
             /\ \A c \in Members(m)' \cup {TailOf(m)} :
                  pred'[c] \in Members(m)' \cup {HeadOf(m)} /\ succ'[pred'[c]] = c
  BY <1>3 DEF Linked, HeadOf, TailOf
<1>7. succ'[TailOf(m)] = NULL /\ pred'[HeadOf(m)] = NULL
  BY <1>1, <1>4, <1>5, CellsApart DEF Linked
<1>8. ASSUME NEW c \in Members(m)' \cup {HeadOf(m)}
      PROVE  succ'[c] \in Members(m)' \cup {TailOf(m)} /\ pred'[succ'[c]] = c
  <2>1. CASE m = l
    BY <2>1, <1>1, <1>4, <1>5, <1>8, CellsApart DEF Linked
  <2>2. CASE m # l
    BY <2>2, <1>1, <1>4, <1>5, <1>8, CellsApart DEF Linked
  <2> QED
    BY <2>1, <2>2
<1>9. ASSUME NEW c \in Members(m)' \cup {TailOf(m)}
      PROVE  pred'[c] \in Members(m)' \cup {HeadOf(m)} /\ succ'[pred'[c]] = c
  <2>1. CASE m = l
    BY <2>1, <1>1, <1>4, <1>5, <1>9, CellsApart DEF Linked
  <2>2. CASE m # l
    BY <2>2, <1>1, <1>4, <1>5, <1>9, CellsApart DEF Linked
  <2> QED
    BY <2>1, <2>2
<1> QED
  BY <1>7, <1>8, <1>9

-----------------------------------------------------------------------------
(* What the steps of the specification come to. *)

Links(l, n, p) ==
  /\ owner[n] = NULL /\ LinkAfter(p, n)
  /\ owner' = [owner EXCEPT ![n] = l]
  /\ scan' = NULL /\ UNCHANGED <<walk, due>>

Unlinks(n) ==
  /\ owner[n] # NULL /\ Unlink(n)
  /\ walk # NULL => n # walk.next
  /\ owner' = [owner EXCEPT ![n] = NULL]
  /\ due' = due \ {n} /\ UNCHANGED walk
  /\ scan = NULL /\ scan' = NULL

Looks ==
  \/ \E l \in Lists, n \in Nodes : EnqueueBegin(l, n)
  \/ EnqueueNext
  \/ \E l \in Lists : WalkBegin(l)
  \/ WalkNext

LEMMA StepKinds ==
  ASSUME ListInv, [ListNext]_listVars
  PROVE  \/ \E l \in Lists, n \in Nodes : \E p \in Front(l) : Links(l, n, p)
         \/ \E n \in Nodes : Unlinks(n)
         \/ Looks
         \/ UNCHANGED listVars
<1> USE DEF ListInv, Ready
<1>a. ASSUME NEW l \in Lists, NEW n \in Nodes, AddTail(l, n)
      PROVE  \E p \in Front(l) : Links(l, n, p)
  <2>1. pred[TailOf(l)] \in Front(l)
    BY DEF Linked, Front
  <2> QED
    BY <1>a, <2>1 DEF AddTail, Adding, Links
<1>b. ASSUME NEW l \in Lists, NEW n \in Nodes, AddHead(l, n)
      PROVE  \E p \in Front(l) : Links(l, n, p)
  BY <1>b DEF AddHead, Adding, Links, Front
<1>1. ASSUME NEW l \in Lists, NEW n \in Nodes,
             NEW p \in Members(l) \cup {TailOf(l), NULL}, Insert(l, n, p)
      PROVE  \E q \in Front(l) : Links(l, n, q)
  BY <1>1, <1>a, <1>b DEF Insert, Adding, Links, Front
<1>2. ASSUME NEW l \in Lists, NEW n \in Nodes, Enqueue(l, n)
      PROVE  \E p \in Front(l) : Links(l, n, p)
  <2>1. pred[scan.next] \in Front(l) /\ owner[n] = NULL
    BY <1>2 DEF Enqueue, LoopsOK, Linked, Front, Back
  <2> QED
    BY <1>2, <2>1 DEF Enqueue, Links
<1>3. ASSUME NEW n \in Nodes, Remove(n)
      PROVE  Unlinks(n)
  BY <1>3 DEF Remove, Removing, Unlinks
<1>4. ASSUME NEW l \in Lists, NEW n \in Nodes \cup {NULL}, RemHead(l, n)
      PROVE  (\E m \in Nodes : Unlinks(m)) \/ UNCHANGED listVars
  <2>1. CASE succ[succ[HeadOf(l)]] = NULL
    BY <1>4, <2>1 DEF RemHead
  <2>2. CASE succ[succ[HeadOf(l)]] # NULL
    <3>1. n = succ[HeadOf(l)] /\ n \in Members(l) /\ pred[n] = HeadOf(l)
      BY <1>4, <2>2 DEF RemHead, Linked
    <3>2. n \in Nodes /\ Unlink(n)
      BY <1>4, <2>2, <3>1 DEF RemHead, Unlink, Members
    <3> QED
      BY <1>4, <2>2, <3>2 DEF RemHead, Removing, Unlinks
  <2> QED
    BY <2>1, <2>2
<1>5. ASSUME NEW l \in Lists, NEW n \in Nodes \cup {NULL}, RemTail(l, n)
      PROVE  (\E m \in Nodes : Unlinks(m)) \/ UNCHANGED listVars
  <2>1. CASE pred[pred[TailOf(l)]] = NULL
    BY <1>5, <2>1 DEF RemTail, GetTail
  <2>2. CASE pred[pred[TailOf(l)]] # NULL
    <3>1. n = pred[TailOf(l)] /\ n \in Members(l)
      BY <1>5, <2>2, CellsApart, ListAssumption
      DEF RemTail, GetTail, Linked, Members, Cells
    <3> QED
      BY <1>5, <2>2, <3>1, ListAssumption
      DEF RemTail, GetTail, Removing, Unlinks, Members, Cells
  <2> QED
    BY <2>1, <2>2
<1> QED
  BY <1>a, <1>b, <1>1, <1>2, <1>3, <1>4, <1>5 DEF ListNext, Looks

LEMMA ListInvInit == ListInit => ListInv
<1> SUFFICES ASSUME ListInit PROVE ListInv
  OBVIOUS
<1>1. ASSUME NEW l \in Lists
      PROVE  /\ succ[HeadOf(l)] = TailOf(l) /\ succ[TailOf(l)] = NULL
             /\ pred[TailOf(l)] = HeadOf(l) /\ pred[HeadOf(l)] = NULL
  <2>1. HeadOf(l)[1] = l /\ TailOf(l)[1] = l
    BY DEF HeadOf, TailOf
  <2>2. HeadOf(l) \in Cells /\ TailOf(l) \in Cells
    BY CellsApart
  <2>3. \A m \in Lists : HeadOf(l) # TailOf(m) /\ HeadOf(m) # TailOf(l)
    BY CellsApart
  <2> QED
    BY <2>1, <2>2, <2>3 DEF ListInit
<1>2. \A c \in Cells : succ[c] \in Cells \cup {NULL} /\ pred[c] \in Cells \cup {NULL}
  <2>1. \A l \in Lists : HeadOf(l)[1] = l /\ TailOf(l)[1] = l
    BY DEF HeadOf, TailOf
  <2> QED
    BY <2>1, CellsApart DEF ListInit
<1>3. ListTypeOK
  BY <1>2 DEF ListInit, ListTypeOK
<1>4. \A l \in Lists : Members(l) = {}
  BY CellsApart DEF Members, ListInit
<1>5. Linked
  BY <1>1, <1>4 DEF Linked
<1> QED
  BY <1>3, <1>5 DEF ListInv, LoopsOK, ListInit

LEMMA ListInvStep == ListInv /\ [ListNext]_listVars => ListInv'
<1> SUFFICES ASSUME ListInv, [ListNext]_listVars PROVE ListInv'
  OBVIOUS
<1>1. ASSUME NEW l \in Lists, NEW n \in Nodes, NEW p \in Front(l), Links(l, n, p)
      PROVE  ListInv'
  <2>1. /\ succ' \in [Cells -> Cells \cup {NULL}]
        /\ pred' \in [Cells -> Cells \cup {NULL}]
        /\ owner' \in [Nodes -> Lists \cup {NULL}]
        /\ Linked'
    BY <1>1, LinkAfterKeepsLinked DEF Links
  <2>2. ListTypeOK'
    BY <1>1, <2>1 DEF Links, ListTypeOK, ListInv
  <2>3. \A m \in Lists : Members(m) \subseteq Members(m)'
    BY <1>1, CellsApart DEF Links, Members, ListInv, ListTypeOK
  <2>4. LoopsOK'
    BY <1>1, <2>3 DEF Links, LoopsOK, Back, TailOf, ListInv, ListTypeOK
  <2> QED
    BY <2>1, <2>2, <2>4 DEF ListInv
<1>2. ASSUME NEW n \in Nodes, Unlinks(n)
      PROVE  ListInv'
  <2>1. /\ succ' \in [Cells -> Cells \cup {NULL}]
        /\ pred' \in [Cells -> Cells \cup {NULL}]
        /\ owner' \in [Nodes -> Lists \cup {NULL}]
        /\ Linked'
    BY <1>2, UnlinkKeepsLinked DEF Unlinks
  <2>2. ListTypeOK'
    BY <1>2, <2>1 DEF Unlinks, ListTypeOK, ListInv
  <2>3. \A m \in Lists : Members(m) \ {n} \subseteq Members(m)'
    BY <1>2, CellsApart DEF Unlinks, Members, ListInv, ListTypeOK
  <2>4. LoopsOK'
    BY <1>2, <2>3 DEF Unlinks, LoopsOK, Back, TailOf, ListInv, ListTypeOK
  <2> QED
    BY <2>1, <2>2, <2>4 DEF ListInv
<1>3. CASE Looks
  <2>0. UNCHANGED <<succ, pred, owner>>
    BY <1>3 DEF Looks, EnqueueBegin, EnqueueNext, WalkBegin, WalkNext, Visit
  <2>1. Linked'
    BY <2>0 DEF ListInv, Linked, Members, HeadOf, TailOf
  <2>2. \A m \in Lists : Members(m)' = Members(m) /\ Members(m) \subseteq Nodes
    BY <2>0 DEF Members
  <2>3. \A m \in Lists : \A c \in Front(m) : succ[c] \in Back(m)
    BY DEF ListInv, Linked, Front, Back
  <2>4. \A m \in Lists : Back(m) \cap Nodes = Members(m) /\ Back(m) \subseteq Nodes \cup Tails
    BY CellsApart DEF Back, Members, Tails
  <2>5. ASSUME NEW l \in Lists, NEW n \in Nodes, EnqueueBegin(l, n)
        PROVE  ListTypeOK' /\ LoopsOK'
    <3>1. succ[HeadOf(l)] \in Back(l)
      BY <2>3 DEF Front
    <3>2. /\ scan' = [list |-> l, node |-> n, next |-> succ[HeadOf(l)]]
          /\ owner[n] = NULL
      BY <2>5 DEF EnqueueBegin
    <3> QED
      BY <2>0, <2>2, <2>4, <2>5, <3>1, <3>2
      DEF EnqueueBegin, ListInv, ListTypeOK, LoopsOK, Back, TailOf
  <2>6. ASSUME EnqueueNext
        PROVE  ListTypeOK' /\ LoopsOK'
    <3>1. /\ scan.next \in Members(scan.list) /\ scan.list \in Lists
          /\ scan \in [list : Lists, node : Nodes, next : Nodes \cup Tails]
          /\ owner[scan.node] = NULL
      BY <2>4, <2>6 DEF EnqueueNext, Ready, Stop, ListInv, ListTypeOK, LoopsOK
    <3>2. succ[scan.next] \in Back(scan.list)
      BY <2>3, <3>1 DEF Front
    <3>3. /\ scan' \in [list : Lists, node : Nodes, next : Nodes \cup Tails]
          /\ scan'.next = succ[scan.next]
          /\ scan'.list = scan.list /\ scan'.node = scan.node
      BY <2>4, <2>6, <3>1, <3>2 DEF EnqueueNext
    <3>4. walk' = walk /\ due' = due
      BY <2>6 DEF EnqueueNext
    <3>5. ListTypeOK'
      BY <2>0, <3>3, <3>4 DEF ListInv, ListTypeOK
    <3>6. \A m \in Lists : Back(m)' = Back(m)
      BY <2>2 DEF Back, TailOf
    <3>7. (owner[scan.node] = NULL /\ scan.next \in Back(scan.list))'
      BY <2>0, <3>1, <3>2, <3>3, <3>6
    <3>8. (walk # NULL => walk.next \in Back(walk.list) /\ due \subseteq Members(walk.list))'
      BY <2>2, <3>4, <3>6 DEF ListInv, ListTypeOK, LoopsOK
    <3> QED
      BY <3>5, <3>7, <3>8 DEF LoopsOK
  <2>7. ASSUME NEW l \in Lists, NEW c \in Back(l), NEW left,
               left \subseteq Members(l), Visit(l, c, left), scan' = scan
        PROVE  ListTypeOK' /\ LoopsOK'
    <3>1. CASE c \in Nodes
      <4>1. succ[c] \in Back(l)
        BY <2>3, <2>4, <3>1 DEF Front
      <4>2. walk' = [list |-> l, current |-> c, next |-> succ[c]] /\ due' = left \ {c}
        BY <2>7, <3>1 DEF Visit
      <4> QED
        BY <2>0, <2>2, <2>4, <2>7, <3>1, <4>1, <4>2
        DEF ListInv, ListTypeOK, LoopsOK, Back, TailOf
    <3>2. CASE c \notin Nodes
      BY <2>0, <2>2, <2>7, <3>2 DEF Visit, ListInv, ListTypeOK, LoopsOK, Back, TailOf
    <3> QED
      BY <3>1, <3>2
  <2>8. ASSUME NEW l \in Lists, WalkBegin(l)
        PROVE  ListTypeOK' /\ LoopsOK'
    <3>1. succ[HeadOf(l)] \in Back(l)
      BY <2>3 DEF Front
    <3> QED
      BY <2>7, <2>8, <3>1 DEF WalkBegin, Visit
  <2>9. ASSUME WalkNext
        PROVE  ListTypeOK' /\ LoopsOK'
    BY <2>7, <2>9 DEF WalkNext, Following, Visit, ListInv, ListTypeOK, LoopsOK
  <2> QED
    BY <1>3, <2>1, <2>5, <2>6, <2>8, <2>9 DEF Looks, ListInv
<1>4. CASE UNCHANGED listVars
  BY <1>4 DEF listVars, ListInv, ListTypeOK, Linked, LoopsOK, Members, Back, HeadOf, TailOf
<1> QED
  BY <1>1, <1>2, <1>3, <1>4, StepKinds

\* Every link of a list leads to a cell, whichever calls have come before.
THEOREM TypeCorrect == ListSpec => []ListTypeOK
<1>1. ListInv => ListTypeOK
  BY DEF ListInv
<1> QED
  BY <1>1, ListInvInit, ListInvStep, PTL DEF ListSpec

\* The chains of each list stay closed and answer each other through every
\* sequence of the list calls, those made from inside a ForeachNodeSafe loop
\* included (exec/lists.h).
THEOREM ListsStayLinked == ListSpec => []Linked
<1>1. ListInv => Linked
  BY DEF ListInv
<1> QED
  BY <1>1, ListInvInit, ListInvStep, PTL DEF ListSpec

-----------------------------------------------------------------------------
(* Linked alone would allow a ring of members that the header does not      *)
(* reach.  There is none, since the cells of a list can be numbered so that *)
(* succ leads from each to the one with the next greater number.            *)

Chained(l) == Front(l) \cup Back(l)

Sorted(pos, l) ==
  /\ \A c \in Front(l) : pos[c] < pos[succ[c]]
  /\ \A c \in Front(l), d \in Back(l) : pos[c] < pos[d] => pos[succ[c]] <= pos[d]
  /\ \A c, d \in Chained(l) : pos[c] = pos[d] => c = d
  /\ \A c \in Members(l) : pos[HeadOf(l)] < pos[c] /\ pos[c] < pos[TailOf(l)]

\* What the loop has yet to visit lies on from its next node.
Ahead(pos) ==
  /\ walk # NULL => \A d \in due : pos[walk.next] <= pos[d]
  /\ walk = NULL => due = {}

Numbering(pos) ==
  /\ pos \in [Cells -> Int]
  /\ \A l \in Lists : Sorted(pos, l)
  /\ Ahead(pos)

OrderInv == \E pos : Numbering(pos)

\* A new node takes the number after that of the cell before it, and the
\* greater numbers move up.
LEMMA LinksKeepOrder ==
  ASSUME ListInv, OrderInv, NEW l \in Lists, NEW n \in Nodes, NEW p \in Front(l),
         Links(l, n, p)
  PROVE  OrderInv'
<1>1. PICK pos : Numbering(pos)
  BY DEF OrderInv
<1> DEFINE q == [c \in Cells |-> IF c = n THEN pos[p] + 1
                                 ELSE IF pos[c] > pos[p] THEN pos[c] + 1 ELSE pos[c]]
<1>2. PICK s : s = succ[p]
  OBVIOUS
<1>3. /\ n \in Cells /\ p \in Cells /\ p # n /\ s \in Cells /\ s # n /\ s \in Back(l)
      /\ n \notin Chained(l)
  BY <1>2, CellsApart
  DEF Links, ListInv, ListTypeOK, Linked, Members, Front, Back, Chained, Cells
<1>4. /\ succ'[n] = s /\ succ'[p] = n
      /\ \A c \in Cells \ {n, p} : succ'[c] = succ[c]
  BY <1>2, <1>3 DEF Links, LinkAfter, ListInv, ListTypeOK
<1>5. /\ Members(l)' = Members(l) \cup {n}
      /\ \A m \in Lists \ {l} : Members(m)' = Members(m) /\ n \notin Chained(m)
  BY CellsApart DEF Links, ListInv, ListTypeOK, Members, Chained, Front, Back
<1>6. \A m \in Lists : Chained(m) \subseteq Cells
  BY CellsApart DEF Chained, Front, Back, Members, Cells
<1>7. /\ q \in [Cells -> Int] /\ q[n] = pos[p] + 1 /\ q[p] = pos[p]
      /\ \A c \in Cells \ {n} : /\ pos[c] > pos[p] => q[c] = pos[c] + 1
                                /\ pos[c] <= pos[p] => q[c] = pos[c]
  BY <1>1, <1>3 DEF Numbering
<1>8. \A c \in Cells : pos[c] \in Int /\ q[c] \in Int
  BY <1>1, <1>7 DEF Numbering
<1> HIDE DEF q
<1>9. ASSUME NEW m \in Lists, m # l
      PROVE  Sorted(q, m)'
  <2>1. /\ Front(m)' = Front(m) /\ Back(m)' = Back(m) /\ Chained(m)' = Chained(m)
        /\ Members(m)' = Members(m)
    BY <1>5, <1>9 DEF Front, Back, Chained, HeadOf, TailOf
  <2>2. \A c \in Front(m) : c # p /\ succ'[c] = succ[c] /\ succ[c] \in Chained(m)
    BY <1>4, <1>5, <1>6, <1>9, CellsApart
    DEF Front, Back, Chained, ListInv, Linked, Members
  <2>3. Sorted(pos, m)
    BY <1>1 DEF Numbering
  <2>4. \A c, d \in Chained(m) : /\ pos[c] < pos[d] <=> q[c] < q[d]
                                 /\ pos[c] <= pos[d] <=> q[c] <= q[d]
                                 /\ pos[c] = pos[d] <=> q[c] = q[d]
    BY <1>3, <1>5, <1>6, <1>7, <1>8, <1>9
  <2>5. /\ Front(m) \subseteq Chained(m) /\ Back(m) \subseteq Chained(m)
        /\ Members(m) \subseteq Chained(m)
        /\ HeadOf(m) \in Chained(m) /\ TailOf(m) \in Chained(m)
    BY DEF Chained, Front, Back
  <2> QED
    BY <2>1, <2>2, <2>3, <2>4, <2>5 DEF Sorted, HeadOf, TailOf
<1>10. Sorted(q, l)'
  <2>1. /\ Front(l)' = Front(l) \cup {n} /\ Back(l)' = Back(l) \cup {n}
        /\ Chained(l)' = Chained(l) \cup {n} /\ Members(l)' = Members(l) \cup {n}
    BY <1>5 DEF Front, Back, Chained, HeadOf, TailOf
  <2>2. Sorted(pos, l)
    BY <1>1 DEF Numbering
  <2>3. \A c, d \in Chained(l) : /\ pos[c] < pos[d] <=> q[c] < q[d]
                                 /\ pos[c] <= pos[d] <=> q[c] <= q[d]
                                 /\ pos[c] = pos[d] <=> q[c] = q[d]
    BY <1>3, <1>6, <1>7, <1>8
  <2>4. \A c \in Chained(l) : /\ c # n
                              /\ q[c] <= q[n] => pos[c] <= pos[p] /\ q[c] < q[n]
                              /\ q[n] <= q[c] => pos[p] < pos[c] /\ q[n] < q[c]
                              /\ pos[c] <= pos[p] => q[c] < q[n]
                              /\ pos[p] < pos[c] => q[n] < q[c]
    BY <1>3, <1>6, <1>7, <1>8
  <2>5. /\ Front(l) \subseteq Chained(l) /\ Back(l) \subseteq Chained(l)
        /\ Members(l) \subseteq Chained(l)
        /\ HeadOf(l) \in Chained(l) /\ TailOf(l) \in Chained(l)
        /\ p \in Chained(l) /\ s \in Chained(l)
    BY <1>3 DEF Chained, Front, Back
  <2>6. \A c \in Front(l) \ {p} : succ'[c] = succ[c] /\ succ[c] \in Back(l)
    BY <1>3, <1>4, <1>6, <2>5 DEF Front, Back, ListInv, Linked
  <2>7. pos[p] < pos[s]
    BY <1>2, <2>2 DEF Sorted
  <2>8. ASSUME NEW c \in Front(l)'
        PROVE  q[c] < q[succ'[c]]
    <3>1. CASE c = n
      BY <1>4, <2>4, <2>5, <2>7, <3>1
    <3>2. CASE c = p
      BY <1>3, <1>4, <1>6, <1>7, <1>8, <3>2
    <3>3. CASE c # n /\ c # p
      BY <2>1, <2>2, <2>3, <2>5, <2>6, <2>8, <3>3 DEF Sorted
    <3> QED
      BY <3>1, <3>2, <3>3
  <2>9. ASSUME NEW c \in Front(l)', NEW d \in Back(l)', q[c] < q[d]
        PROVE  q[succ'[c]] <= q[d]
    <3>1. CASE c = n
      <4>1. d \in Back(l) /\ pos[p] < pos[d]
        BY <1>3, <1>6, <1>8, <2>1, <2>4, <2>5, <2>9, <3>1
      <4>2. pos[s] <= pos[d]
        BY <1>2, <2>2, <4>1 DEF Sorted
      <4> QED
        BY <1>4, <2>3, <2>5, <3>1, <4>1, <4>2
    <3>2. CASE c = p
      BY <1>3, <1>4, <1>6, <1>7, <1>8, <2>1, <2>5, <2>9, <3>2
    <3>3. CASE c # n /\ c # p /\ d # n
      BY <2>1, <2>2, <2>3, <2>5, <2>6, <2>9, <3>3 DEF Sorted
    <3>4. CASE c # n /\ c # p /\ d = n
      <4>1. c \in Front(l) /\ pos[c] <= pos[p]
        BY <1>3, <1>6, <1>8, <2>1, <2>4, <2>5, <2>9, <3>4
      <4>2. pos[c] < pos[p] /\ p \in Members(l)
        BY <4>1, <2>2, <2>5, <3>4, <1>6, <1>8 DEF Sorted, Front
      <4>3. pos[succ[c]] <= pos[p]
        BY <4>1, <4>2, <2>2 DEF Sorted, Back
      <4> QED
        <5>1. succ'[c] = succ[c] /\ succ[c] \in Chained(l)
          BY <4>1, <2>5, <2>6, <3>4
        <5>2. q[succ[c]] < q[n]
          BY <4>3, <5>1, <2>4
        <5> QED
          BY <5>1, <5>2, <1>3, <1>6, <1>8, <3>4
    <3> QED
      BY <3>1, <3>2, <3>3, <3>4
  <2>10. \A c, d \in Chained(l)' : q[c] = q[d] => c = d
    BY <1>8, <1>3, <1>6, <2>1, <2>2, <2>3, <2>4 DEF Sorted
  <2>11. \A c \in Members(l)' : q[HeadOf(l)] < q[c] /\ q[c] < q[TailOf(l)]
    <3>1. pos[HeadOf(l)] <= pos[p] /\ pos[p] < pos[TailOf(l)]
      BY <1>2, <1>3, <1>6, <1>8, <2>2, <2>5, <2>7 DEF Sorted, Front, Back
    <3> QED
      BY <3>1, <2>1, <2>2, <2>3, <2>4, <2>5 DEF Sorted
  <2> QED
    BY <2>8, <2>9, <2>10, <2>11 DEF Sorted, HeadOf, TailOf
<1>11. Ahead(q)'
  <2>1. walk' = walk /\ due' = due
    BY DEF Links
  <2>2. CASE walk = NULL
    BY <1>1, <2>1, <2>2 DEF Numbering, Ahead
  <2>3. CASE walk # NULL
    <3>1. walk.list \in Lists /\ walk.next \in Chained(walk.list) /\ due \subseteq Chained(walk.list)
      BY <2>3 DEF ListInv, ListTypeOK, LoopsOK, Chained, Front, Back
    <3>2. \A d \in due : d \in Cells \ {n} /\ walk.next \in Cells \ {n}
      BY <3>1, <1>3, <1>5, <1>6
    <3>3. \A d \in due : pos[walk.next] <= pos[d]
      BY <1>1, <2>3 DEF Numbering, Ahead
    <3>4. \A d \in due : q[walk.next] <= q[d]
      BY <3>2, <3>3, <1>3, <1>7, <1>8
    <3> QED
      BY <2>1, <2>3, <3>4 DEF Ahead
  <2> QED
    BY <2>2, <2>3
<1>12. Numbering(q)'
  BY <1>7, <1>9, <1>10, <1>11 DEF Numbering, Cells, Heads, Tails
<1> QED
  BY <1>12 DEF OrderInv

\* A removed node leaves the numbers of the others as they are.
LEMMA UnlinksKeepOrder ==
  ASSUME ListInv, OrderInv, NEW n \in Nodes, Unlinks(n)
  PROVE  OrderInv'
<1>1. PICK pos : Numbering(pos)
  BY DEF OrderInv
<1>2. PICK l \in Lists : l = owner[n]
  BY DEF Unlinks, ListInv, ListTypeOK
<1>3. PICK p, s : p = pred[n] /\ s = succ[n]
  OBVIOUS
<1>4. /\ n \in Members(l) /\ n \in Cells
      /\ p \in Front(l) /\ p \in Cells /\ succ[p] = n
      /\ s \in Back(l) /\ s \in Cells /\ pred[s] = n
  <2>1. n \in Members(l) /\ n \in Cells
    BY <1>2 DEF Members, Cells
  <2>2. p \in Front(l) /\ succ[p] = n /\ s \in Back(l) /\ pred[s] = n
    BY <1>3, <2>1 DEF ListInv, Linked, Front, Back
  <2> QED
    BY <2>1, <2>2, CellsApart DEF Front, Back, Members, Cells
<1>5. succ'[p] = s /\ \A c \in Cells \ {p} : succ'[c] = succ[c]
  BY <1>3, <1>4 DEF Unlinks, Unlink, ListInv, ListTypeOK
<1>6. /\ Members(l)' = Members(l) \ {n}
      /\ \A m \in Lists \ {l} : Members(m)' = Members(m) /\ p \notin Front(m)
  BY <1>2, <1>4, CellsApart DEF Unlinks, ListInv, ListTypeOK, Members, Front
<1>7. \A m \in Lists : Chained(m) \subseteq Cells /\ Front(m) \subseteq Chained(m)
                       /\ Back(m) \subseteq Chained(m)
  BY CellsApart DEF Chained, Front, Back, Members, Cells
<1>8. \A c \in Cells : pos[c] \in Int
  BY <1>1 DEF Numbering
<1>9. ASSUME NEW m \in Lists, m # l
      PROVE  Sorted(pos, m)'
  <2>1. /\ Front(m)' = Front(m) /\ Back(m)' = Back(m) /\ Chained(m)' = Chained(m)
        /\ Members(m)' = Members(m)
    BY <1>6, <1>9 DEF Front, Back, Chained, HeadOf, TailOf
  <2>2. \A c \in Front(m) : succ'[c] = succ[c]
    BY <1>5, <1>6, <1>7, <1>9
  <2>3. Sorted(pos, m)
    BY <1>1 DEF Numbering
  <2> QED
    BY <2>1, <2>2, <2>3 DEF Sorted, HeadOf, TailOf
<1>10. Sorted(pos, l)'
  <2>1. /\ Front(l)' = Front(l) \ {n} /\ Back(l)' = Back(l) \ {n}
        /\ Chained(l)' = Chained(l) \ {n} /\ Members(l)' = Members(l) \ {n}
    <3>1. n # HeadOf(l) /\ n # TailOf(l)
      BY CellsApart
    <3>2. HeadOf(l)' = HeadOf(l) /\ TailOf(l)' = TailOf(l)
      BY DEF HeadOf, TailOf
    <3> QED
      BY <1>6, <3>1, <3>2 DEF Front, Back, Chained
  <2>2. Sorted(pos, l)
    BY <1>1 DEF Numbering
  <2>3. pos[p] < pos[n] /\ pos[n] < pos[s] /\ n \in Front(l) /\ n \in Back(l)
    BY <1>3, <1>4, <2>2 DEF Sorted, Front, Back
  <2>4. \A c \in Front(l) \ {p} : succ'[c] = succ[c]
    BY <1>5, <1>7
  <2>5. ASSUME NEW c \in Front(l)'
        PROVE  pos[c] < pos[succ'[c]]
    <3>1. CASE c = p
      BY <1>4, <1>5, <1>8, <2>3, <3>1
    <3>2. CASE c # p
      BY <2>1, <2>2, <2>4, <2>5, <3>2 DEF Sorted
    <3> QED
      BY <3>1, <3>2
  <2>6. ASSUME NEW c \in Front(l)', NEW d \in Back(l)', pos[c] < pos[d]
        PROVE  pos[succ'[c]] <= pos[d]
    <3>1. CASE c = p
      <4>1. d \in Back(l) /\ d # n /\ d \in Chained(l) /\ d \in Cells /\ n \in Chained(l)
        BY <1>7, <2>1, <2>3, <2>6
      <4>2. pos[n] <= pos[d] /\ pos[n] # pos[d]
        BY <1>4, <2>2, <2>6, <3>1, <4>1 DEF Sorted
      <4>3. pos[s] <= pos[d]
        BY <1>3, <1>4, <1>8, <2>2, <2>3, <4>1, <4>2 DEF Sorted
      <4> QED
        BY <1>5, <3>1, <4>3
    <3>2. CASE c # p
      BY <2>1, <2>2, <2>4, <2>6, <3>2 DEF Sorted
    <3> QED
      BY <3>1, <3>2
  <2>7. /\ \A c, d \in Chained(l)' : pos[c] = pos[d] => c = d
        /\ \A c \in Members(l)' : pos[HeadOf(l)] < pos[c] /\ pos[c] < pos[TailOf(l)]
    BY <2>1, <2>2 DEF Sorted
  <2> QED
    BY <2>5, <2>6, <2>7 DEF Sorted, HeadOf, TailOf
<1>11. Ahead(pos)'
  BY <1>1 DEF Numbering, Ahead, Unlinks
<1>12. Numbering(pos)'
  BY <1>1, <1>9, <1>10, <1>11 DEF Numbering, Cells, Heads, Tails, HeadOf, TailOf
<1> QED
  BY <1>12 DEF OrderInv

\* A step of the loop leaves nothing unvisited between the node it comes to
\* and the next.
LEMMA VisitKeepsAhead ==
  ASSUME ListInv, NEW pos, Numbering(pos), NEW l \in Lists, NEW c \in Back(l),
         NEW left, left \subseteq Members(l), \A d \in left : pos[c] <= pos[d],
         Visit(l, c, left)
  PROVE  Ahead(pos)'
<1>1. Sorted(pos, l)
  BY DEF Numbering
<1>2. \A d \in left : d \in Back(l) /\ d \in Chained(l) /\ d \in Cells /\ pos[d] \in Int
  BY DEF Back, Chained, Members, Cells, Numbering
<1>3. c \in Chained(l) /\ c \in Cells /\ pos[c] \in Int
  BY CellsApart DEF Back, Chained, Members, Cells, Numbering
<1>4. CASE c \in Nodes
  <2>1. walk' # NULL /\ walk'.next = succ[c] /\ due' = left \ {c}
    <3>1. succ[c] \in Back(l)
      BY <1>4, CellsApart DEF ListInv, Linked, Back
    <3>2. succ[c] \in Cells
      BY <3>1, CellsApart DEF Back, Members, Cells
    <3>3. walk' = [list |-> l, current |-> c, next |-> succ[c]] /\ due' = left \ {c}
      BY <1>4 DEF Visit
    <3> QED
      BY <1>4, <3>2, <3>3, ListAssumption
  <2>2. c \in Front(l)
    BY <1>4, CellsApart DEF Back, Front
  <2>3. \A d \in left \ {c} : pos[c] < pos[d]
    BY <1>1, <1>2, <1>3 DEF Sorted
  <2>4. \A d \in left \ {c} : pos[succ[c]] <= pos[d]
    BY <1>1, <1>2, <2>2, <2>3 DEF Sorted
  <2> QED
    BY <2>1, <2>4 DEF Ahead
<1>5. CASE c \notin Nodes
  <2>1. c = TailOf(l) /\ walk' = NULL /\ due' = left \ {c}
    BY <1>5 DEF Visit, Back, Members
  <2>2. left = {}
    BY <1>1, <1>2, <1>3, <2>1 DEF Sorted
  <2> QED
    BY <2>1, <2>2 DEF Ahead
<1> QED
  BY <1>4, <1>5

LEMMA LooksKeepOrder ==
  ASSUME ListInv, OrderInv, Looks
  PROVE  OrderInv'
<1>1. PICK pos : Numbering(pos)
  BY DEF OrderInv
<1>2. UNCHANGED <<succ, pred, owner>>
  BY DEF Looks, EnqueueBegin, EnqueueNext, WalkBegin, WalkNext, Visit
<1>3. \A l \in Lists : Sorted(pos, l)'
  BY <1>1, <1>2 DEF Numbering, Sorted, Front, Back, Chained, Members, HeadOf, TailOf
<1>4. ASSUME UNCHANGED <<walk, due>>
      PROVE  Ahead(pos)'
  BY <1>1, <1>4 DEF Numbering, Ahead
<1>5. ASSUME NEW l \in Lists, WalkBegin(l)
      PROVE  Ahead(pos)'
  <2>1. succ[HeadOf(l)] \in Back(l) /\ HeadOf(l) \in Front(l) /\ Members(l) \subseteq Back(l)
    BY DEF ListInv, Linked, Front, Back
  <2>2. \A d \in Members(l) : pos[succ[HeadOf(l)]] <= pos[d]
    BY <1>1, <2>1 DEF Numbering, Sorted
  <2> QED
    BY <1>1, <1>5, <2>1, <2>2, VisitKeepsAhead DEF WalkBegin
<1>6. ASSUME WalkNext
      PROVE  Ahead(pos)'
  <2>1. /\ walk # NULL /\ walk.list \in Lists /\ walk.next \in Back(walk.list)
        /\ due \subseteq Members(walk.list)
        /\ \A d \in due : pos[walk.next] <= pos[d]
    BY <1>1, <1>6 DEF WalkNext, ListInv, ListTypeOK, LoopsOK, Numbering, Ahead
  <2> QED
    BY <1>1, <1>6, <2>1, VisitKeepsAhead DEF WalkNext, Following
<1>7. Ahead(pos)'
  BY <1>4, <1>5, <1>6 DEF Looks, EnqueueBegin, EnqueueNext
<1>8. Numbering(pos)'
  BY <1>1, <1>3, <1>7 DEF Numbering, Cells, Heads, Tails, HeadOf, TailOf
<1> QED
  BY <1>8 DEF OrderInv

LEMMA OrderInit == ListInit => OrderInv
<1> SUFFICES ASSUME ListInit PROVE OrderInv
  OBVIOUS
<1> DEFINE pos == [c \in Cells |-> IF c \in Tails THEN 1 ELSE 0]
<1>1. \A l \in Lists : /\ HeadOf(l) \in Cells \ Tails
                       /\ TailOf(l) \in Cells /\ TailOf(l) \in Tails
                       /\ HeadOf(l) # TailOf(l)
  BY CellsApart DEF Tails
<1>2. \A l \in Lists : pos[HeadOf(l)] = 0 /\ pos[TailOf(l)] = 1
  BY <1>1
<1>3. pos \in [Cells -> Int]
  OBVIOUS
<1> HIDE DEF pos
<1>4. ASSUME NEW l \in Lists
      PROVE  Sorted(pos, l)
  <2>1. succ[HeadOf(l)] = TailOf(l)
    <3>1. HeadOf(l)[1] = l
      BY DEF HeadOf
    <3> QED
      BY <1>1, <3>1 DEF ListInit
  <2>2. Members(l) = {}
    BY CellsApart DEF ListInit, Members
  <2> QED
    BY <1>1, <1>2, <2>1, <2>2 DEF Sorted, Chained, Front, Back
<1>5. Numbering(pos)
  BY <1>3, <1>4 DEF Numbering, Ahead, ListInit
<1> QED
  BY <1>5 DEF OrderInv

LEMMA OrderStep == ListInv /\ OrderInv /\ [ListNext]_listVars => OrderInv'
<1> SUFFICES ASSUME ListInv, OrderInv, [ListNext]_listVars PROVE OrderInv'
  OBVIOUS
<1>1. CASE UNCHANGED listVars
  BY <1>1
  DEF listVars, OrderInv, Numbering, Sorted, Ahead, Front, Back, Chained, Members,
      HeadOf, TailOf, Cells, Heads, Tails
<1> QED
  BY <1>1, StepKinds, LinksKeepOrder, UnlinksKeepOrder, LooksKeepOrder

\* Every list is one chain from its header to its tail with every member on
\* it, in an order that succ follows: no call makes a ring of nodes that a
\* ForeachNode loop would miss or never leave.
THEOREM ListsStayInOrder == ListSpec => []OrderInv
BY ListInvInit, ListInvStep, OrderInit, OrderStep, PTL DEF ListSpec

\* A ForeachNodeSafe loop comes to every node that stays in its list, though
\* its body removes nodes, the current one included, and adds others.
THEOREM SafeLoopsAreComplete == ListSpec => []SafeLoopIsComplete
<1>1. OrderInv => SafeLoopIsComplete
  BY DEF OrderInv, Numbering, Ahead, SafeLoopIsComplete
<1> QED
  BY <1>1, ListsStayInOrder, PTL

-----------------------------------------------------------------------------
(* The nodes of a list as a sequence: what Contents computes is what one    *)
(* meets from the header to the tail, every member once.                    *)

LastStep == Cardinality(Nodes)

\* One step along the chain, which ends at the tail.
Onward(c) == IF succ[c] = NULL THEN c ELSE succ[c]

\* The recursive function Reached has the values its definition gives it.
LEMMA ReachedStep ==
  ASSUME ListInv, NEW l \in Lists
  PROVE  /\ Reached(l) \in [0 .. LastStep -> Cells]
         /\ Reached(l)[0] = succ[HeadOf(l)]
         /\ \A i \in 1 .. LastStep : Reached(l)[i] = Onward(Reached(l)[i - 1])
<1>1. LastStep \in Nat
  BY FS_CardinalityType, ListAssumption DEF LastStep
<1> DEFINE g == [c \in Cells |-> IF succ[c] = NULL THEN c ELSE succ[c]]
<1>2. g \in [Cells -> Cells] /\ \A c \in Cells : g[c] = Onward(c)
  BY DEF ListInv, ListTypeOK, Onward
<1> HIDE DEF g
<1>a. PICK x \in Cells : x = succ[HeadOf(l)]
  BY CellsApart DEF ListInv, ListTypeOK, Linked, Members, Cells
<1>3. PICK f : Iterates(f, Cells, x, g, LastStep)
  BY <1>1, <1>2, IteratesExist
<1>4. f = [i \in 0 .. LastStep |-> IF i = 0 THEN succ[HeadOf(l)]
                               ELSE IF succ[f[i - 1]] = NULL THEN f[i - 1] ELSE succ[f[i - 1]]]
  <2>1. f = [i \in 0 .. LastStep |-> f[i]]
    BY <1>3 DEF Iterates
  <2>2. ASSUME NEW i \in 0 .. LastStep, i # 0
        PROVE  f[i] = Onward(f[i - 1])
    <3>1. i \in 1 .. LastStep /\ f[i - 1] \in Cells
      BY <1>1, <1>3, <2>2 DEF Iterates
    <3> QED
      BY <1>2, <1>3, <3>1 DEF Iterates
  <2>3. \A i \in 0 .. LastStep :
          f[i] = IF i = 0 THEN succ[HeadOf(l)]
                 ELSE IF succ[f[i - 1]] = NULL THEN f[i - 1] ELSE succ[f[i - 1]]
    BY <1>a, <1>3, <2>2 DEF Onward, Iterates
  <2> QED
    BY <2>1, <2>3, Zenon
<1> DEFINE at == Reached(l)
<1>5. at = [i \in 0 .. LastStep |-> IF i = 0 THEN succ[HeadOf(l)]
                               ELSE IF succ[at[i - 1]] = NULL THEN at[i - 1] ELSE succ[at[i - 1]]]
  BY <1>4, Zenon DEF Reached, LastStep
<1> HIDE DEF at
<1>6. \A i \in 0 .. LastStep : at[i] \in Cells
  <2> DEFINE S == {i \in 0 .. LastStep : at[i] \in Cells}
  <2>1. 0 \in S
    BY <1>1, <1>a, <1>5
  <2>2. \A n \in 0 .. LastStep - 1 : n \in S => n + 1 \in S
    <3> SUFFICES ASSUME NEW n \in 0 .. LastStep - 1, n \in S PROVE n + 1 \in S
      OBVIOUS
    <3>1. at[n + 1] = IF succ[at[n]] = NULL THEN at[n] ELSE succ[at[n]]
      BY <1>1, <1>5
    <3> QED
      BY <1>1, <3>1 DEF ListInv, ListTypeOK
  <2>3. 0 .. LastStep \subseteq S
    <3> HIDE DEF S
    <3> QED
      BY <1>1, <2>1, <2>2, IntervalInduction
  <2> QED
    BY <2>3
<1>7. at \in [0 .. LastStep -> Cells]
  <2>1. \A i \in 0 .. LastStep : at[i] \in Cells
    BY <1>6
  <2> QED
    BY <1>5, <2>1
<1> QED
  BY <1>1, <1>5, <1>7 DEF at, Onward

\* The cells of the chain: the header, the nodes of s, the tail.
At(s, l, i) == IF i = 0 THEN HeadOf(l) ELSE IF i \in 1 .. Len(s) THEN s[i] ELSE TailOf(l)

\* s is what one meets from the header of l to its tail.
Spells(s, l) ==
  /\ s \in Seq(Members(l))
  /\ \A i \in 0 .. Len(s) : succ[At(s, l, i)] = At(s, l, i + 1)

\* There is only one such sequence.
LEMMA SpellingUnique ==
  ASSUME ListInv, NEW l \in Lists, NEW s, NEW t, Spells(s, l), Spells(t, l)
  PROVE  s = t
<1>0. /\ Len(s) \in Nat /\ Len(t) \in Nat
      /\ \A i \in 1 .. Len(s) : s[i] # TailOf(l) /\ At(s, l, i) = s[i]
      /\ \A i \in 1 .. Len(t) : t[i] # TailOf(l) /\ At(t, l, i) = t[i]
      /\ At(s, l, 0) = HeadOf(l) /\ At(t, l, 0) = HeadOf(l) /\ HeadOf(l) # TailOf(l)
      /\ At(s, l, Len(s) + 1) = TailOf(l) /\ At(t, l, Len(t) + 1) = TailOf(l)
  BY CellsApart DEF Spells, At, Members
<1>1. ASSUME NEW u, NEW v, u \in {s, t}, v \in {s, t}
      PROVE  \A i \in Nat : i <= Len(u) + 1 => i <= Len(v) + 1 /\ At(u, l, i) = At(v, l, i)
  <2> DEFINE S == {i \in Nat : i <= Len(u) + 1 => i <= Len(v) + 1 /\ At(u, l, i) = At(v, l, i)}
  <2>1. 0 \in S
    BY <1>0, <1>1
  <2>2. ASSUME NEW i \in Nat, i \in S
        PROVE  i + 1 \in S
    <3> SUFFICES ASSUME i + 1 <= Len(u) + 1
                 PROVE  i + 1 <= Len(v) + 1 /\ At(u, l, i + 1) = At(v, l, i + 1)
      OBVIOUS
    <3>1. i \in 0 .. Len(u) /\ At(u, l, i) # TailOf(l) /\ At(u, l, i) = At(v, l, i)
      BY <1>0, <1>1, <2>2
    <3>2. i \in 0 .. Len(v)
      <4>1. i # Len(v) + 1 /\ i <= Len(v) + 1
        BY <1>0, <1>1, <2>2, <3>1
      <4> QED
        BY <1>0, <1>1, <4>1
    <3>3. succ[At(u, l, i)] = At(u, l, i + 1) /\ succ[At(v, l, i)] = At(v, l, i + 1)
      BY <1>1, <3>1, <3>2 DEF Spells
    <3> QED
      BY <1>0, <1>1, <3>1, <3>2, <3>3
  <2>3. Nat \subseteq S
    <3> HIDE DEF S
    <3> QED
      BY <2>1, <2>2, NatSetInduction
  <2> QED
    BY <2>3
<1>2. Len(s) = Len(t)
  BY <1>0, <1>1
<1>3. \A i \in 1 .. Len(s) : s[i] = t[i]
  BY <1>0, <1>1, <1>2
<1> QED
  BY <1>2, <1>3 DEF Spells

\* Contents is that sequence, and has every member once.
LEMMA ContentsSpell ==
  ASSUME ListInv, OrderInv, NEW l \in Lists
  PROVE  LET s == Contents(l)
         IN  /\ Spells(s, l)
             /\ {s[i] : i \in DOMAIN s} = Members(l)
             /\ \A i, j \in DOMAIN s : s[i] = s[j] => i = j
             /\ Len(s) = Cardinality(Members(l)) /\ Len(s) <= LastStep
<1>1. PICK pos : Numbering(pos)
  BY DEF OrderInv
<1>2. Sorted(pos, l) /\ \A c \in Chained(l) : pos[c] \in Int
  BY <1>1, CellsApart DEF Numbering, Chained, Front, Back, Members, Cells
<1>3. PICK at : at = Reached(l)
  OBVIOUS
<1>4. /\ LastStep \in Nat
      /\ at \in [0 .. LastStep -> Cells] /\ at[0] = succ[HeadOf(l)]
      /\ \A i \in 0 .. LastStep - 1 : at[i + 1] = Onward(at[i])
  <2>1. LastStep \in Nat
    BY FS_CardinalityType, ListAssumption DEF LastStep
  <2> QED
    BY <1>3, <2>1, ReachedStep
<1>5. /\ \A c \in Front(l) : succ[c] \in Back(l)
      /\ \A c \in Back(l) : c \in Nodes <=> c \in Members(l)
      /\ \A c \in Back(l) : c \in Nodes \/ c = TailOf(l)
      /\ Onward(TailOf(l)) = TailOf(l)
      /\ \A c \in Members(l) : Onward(c) = succ[c]
      /\ Members(l) \subseteq Front(l) /\ Back(l) \subseteq Chained(l)
      /\ HeadOf(l) \in Front(l) /\ Front(l) \subseteq Chained(l) /\ TailOf(l) \in Back(l)
      /\ TailOf(l) \notin Nodes /\ Members(l) \subseteq Back(l)
  BY CellsApart, ListAssumption
  DEF ListInv, ListTypeOK, Linked, Front, Back, Chained, Members, Onward, Cells
<1>6. \A i \in 0 .. LastStep : at[i] \in Back(l)
  <2> DEFINE S == {i \in 0 .. LastStep : at[i] \in Back(l)}
  <2>1. 0 \in S
    BY <1>4, <1>5
  <2>2. \A i \in 0 .. LastStep - 1 : i \in S => i + 1 \in S
    BY <1>4, <1>5
  <2>3. 0 .. LastStep \subseteq S
    <3> HIDE DEF S
    <3> QED
      BY <1>4, <2>1, <2>2, IntervalInduction
  <2> QED
    BY <2>3
<1>7. ASSUME NEW i \in 0 .. LastStep - 1
      PROVE  /\ at[i] \in Nodes => at[i + 1] = succ[at[i]] /\ pos[at[i]] < pos[at[i + 1]]
             /\ at[i] \notin Nodes => at[i + 1] = at[i]
             /\ pos[at[i]] <= pos[at[i + 1]]
             /\ pos[at[i]] \in Int /\ pos[at[i + 1]] \in Int
  <2>1. i \in 0 .. LastStep /\ i + 1 \in 0 .. LastStep
    BY <1>4
  <2> QED
    BY <1>2, <1>4, <1>5, <1>6, <2>1 DEF Sorted
<1>8. ASSUME NEW i \in 0 .. LastStep
      PROVE  \A j \in 0 .. LastStep :
               i < j => pos[at[i]] <= pos[at[j]] /\ (at[i] \in Nodes => pos[at[i]] < pos[at[j]])
  <2> DEFINE S == {j \in 0 .. LastStep :
               i < j => pos[at[i]] <= pos[at[j]] /\ (at[i] \in Nodes => pos[at[i]] < pos[at[j]])}
  <2>1. 0 \in S
    BY <1>4
  <2>2. ASSUME NEW j \in 0 .. LastStep - 1, j \in S
        PROVE  j + 1 \in S
    <3>1. pos[at[i]] \in Int /\ pos[at[j]] \in Int /\ pos[at[j + 1]] \in Int
          /\ pos[at[j]] <= pos[at[j + 1]] /\ (at[j] \in Nodes => pos[at[j]] < pos[at[j + 1]])
      BY <1>2, <1>4, <1>5, <1>6, <1>7
    <3>2. i < j + 1 => i = j \/ i < j
      BY <1>4
    <3> QED
      BY <1>4, <2>2, <3>1, <3>2
  <2>3. 0 .. LastStep \subseteq S
    <3> HIDE DEF S
    <3> QED
      BY <1>4, <2>1, <2>2, IntervalInduction
  <2> QED
    BY <2>3
<1>9. \A i, j \in 0 .. LastStep : at[i] \in Nodes /\ at[i] = at[j] => i = j
  <2> SUFFICES ASSUME NEW i \in 0 .. LastStep, NEW j \in 0 .. LastStep,
                      at[i] \in Nodes, at[i] = at[j]
               PROVE  i = j
    OBVIOUS
  <2>1. pos[at[i]] \in Int /\ pos[at[i]] = pos[at[j]]
    BY <1>2, <1>5, <1>6
  <2>2. ~ (i < j) /\ ~ (j < i)
    BY <1>8, <2>1
  <2> QED
    BY <1>4, <2>2
<1> DEFINE Ended == {j \in 0 .. LastStep : at[j] \notin Nodes}
<1>10. Ended # {}
  <2> SUFFICES ASSUME Ended = {} PROVE FALSE
    OBVIOUS
  <2>1. at \in Injection(0 .. LastStep, Nodes)
    BY <1>4, <1>9 DEF Injection, IsInjective
  <2>2. Cardinality(0 .. LastStep) <= Cardinality(Nodes)
    BY <2>1, FS_Injection, ListAssumption
  <2> QED
    BY <1>4, <2>2, FS_Interval DEF LastStep
<1>11. PICK T \in Ended : \A j \in Ended : T <= j
  <2>1. Ended \in SUBSET Nat
    BY <1>4
  <2> HIDE DEF Ended
  <2> QED
    BY <1>10, <2>1, LeastElement
<1>12. /\ T \in 0 .. LastStep /\ at[T] = TailOf(l)
       /\ \A j \in 0 .. T - 1 : at[j] \in Members(l)
       /\ \A j \in 0 .. LastStep : at[j] \in Nodes <=> j < T
  <2>1. T \in 0 .. LastStep /\ at[T] = TailOf(l)
    BY <1>5, <1>6, <1>11
  <2>2. \A j \in 0 .. LastStep : j < T => at[j] \in Nodes
    BY <1>4, <1>11, <2>1
  <2>3. ASSUME NEW j \in 0 .. LastStep, T < j
        PROVE  at[j] \notin Nodes
    <3>1. pos[at[T]] <= pos[at[j]]
      BY <1>8, <2>1, <2>3
    <3>2. at[j] \in Nodes => pos[at[j]] < pos[TailOf(l)]
      BY <1>2, <1>5, <1>6 DEF Sorted
    <3> QED
      BY <1>2, <1>5, <1>6, <2>1, <3>1, <3>2
  <2> QED
    BY <1>4, <1>5, <1>6, <2>1, <2>2, <2>3
<1> HIDE DEF Ended
<1>13. Cardinality({j \in DOMAIN at : at[j] \in Nodes}) = T
  <2>1. {j \in DOMAIN at : at[j] \in Nodes} = 0 .. T - 1
    BY <1>4, <1>12
  <2>2. T - 1 \in Int /\ (0 > T - 1 <=> T = 0) /\ T \in Nat
    BY <1>4, <1>12
  <2>3. Cardinality(0 .. T - 1) = T
    BY <2>2, FS_Interval
  <2> QED
    BY <2>1, <2>3
<1> DEFINE s == [i \in 1 .. T |-> at[i - 1]]
<1>14. Contents(l) = s
  BY <1>3, <1>13, Zenon DEF Contents
<1>15. /\ s \in Seq(Members(l)) /\ Len(s) = T /\ DOMAIN s = 1 .. T
       /\ \A i \in 1 .. T : s[i] = at[i - 1] /\ s[i] \in Members(l)
  BY <1>4, <1>12
<1> HIDE DEF s
<1>16. Spells(s, l)
  <2>1. \A i \in 0 .. T : At(s, l, i + 1) = at[i]
    BY <1>4, <1>12, <1>15 DEF At
  <2>2. ASSUME NEW i \in 0 .. T
        PROVE  succ[At(s, l, i)] = At(s, l, i + 1)
    <3>1. CASE i = 0
      BY <1>4, <1>12, <2>1, <3>1 DEF At
    <3>2. CASE i # 0
      <4>1. i - 1 \in 0 .. LastStep - 1 /\ i - 1 \in 0 .. T /\ at[i - 1] \in Nodes
        BY <1>4, <1>5, <1>12, <3>2
      <4> QED
        BY <1>4, <1>7, <1>12, <2>1, <3>2, <4>1
    <3> QED
      BY <3>1, <3>2
  <2> QED
    BY <1>15, <2>2 DEF Spells
<1>17. {s[i] : i \in DOMAIN s} = Members(l)
  <2> SUFFICES ASSUME NEW m \in Members(l), \A i \in 1 .. T : s[i] # m
               PROVE  FALSE
    <3>1. {s[i] : i \in DOMAIN s} = {s[i] : i \in 1 .. T}
      BY <1>15
    <3>2. \A i \in 1 .. T : s[i] \in Members(l)
      BY <1>15
    <3> QED
      BY <3>1, <3>2
  <2> DEFINE S == {i \in 0 .. T : pos[at[i]] <= pos[m]}
  <2>0. \A c \in Front(l) : pos[c] < pos[m] => pos[succ[c]] <= pos[m]
    BY <1>2, <1>5 DEF Sorted
  <2>1. 0 \in S
    <3>1. pos[HeadOf(l)] < pos[m]
      BY <1>2 DEF Sorted
    <3> QED
      BY <1>4, <1>5, <1>12, <2>0, <3>1
  <2>2. ASSUME NEW i \in 0 .. T - 1, i \in S
        PROVE  i + 1 \in S
    <3>1. /\ i \in 0 .. LastStep - 1 /\ at[i] \in Members(l) /\ at[i] \in Nodes
          /\ i + 1 \in 1 .. T
      BY <1>4, <1>5, <1>12
    <3>2. at[i] # m
      BY <1>15, <3>1
    <3>3. pos[at[i]] < pos[m]
      BY <1>2, <1>5, <2>2, <3>1, <3>2 DEF Sorted
    <3>4. pos[succ[at[i]]] <= pos[m]
      BY <1>5, <2>0, <3>1, <3>3
    <3> QED
      BY <1>7, <1>12, <3>1, <3>4
  <2>3. 0 .. T \subseteq S
    <3> HIDE DEF S
    <3> QED
      BY <1>12, <2>1, <2>2, IntervalInduction
  <2>4. pos[TailOf(l)] <= pos[m]
    BY <1>12, <2>3
  <2> QED
    BY <1>2, <1>5, <2>4 DEF Sorted
<1>18. \A i, j \in DOMAIN s : s[i] = s[j] => i = j
  <2> SUFFICES ASSUME NEW i \in 1 .. T, NEW j \in 1 .. T, s[i] = s[j] PROVE i = j
    BY <1>15
  <2>1. i - 1 \in 0 .. LastStep /\ j - 1 \in 0 .. LastStep
    BY <1>4, <1>12
  <2>2. at[i - 1] = at[j - 1] /\ at[i - 1] \in Nodes
    BY <1>5, <1>15
  <2>3. i - 1 = j - 1
    BY <1>9, <2>1, <2>2
  <2> QED
    BY <2>3
<1>19. Cardinality(Members(l)) = T
  <2>1. s \in Bijection(1 .. T, Members(l))
    <3>1. s \in [1 .. T -> Members(l)]
      BY <1>15
    <3>2. \A m \in Members(l) : \E i \in 1 .. T : s[i] = m
      BY <1>15, <1>17
    <3> QED
      BY <3>1, <3>2, <1>15, <1>18 DEF Bijection, Injection, IsInjective, Surjection
  <2>2. ExistsBijection(1 .. T, Members(l))
    BY <2>1 DEF ExistsBijection
  <2> QED
    BY <1>12, <2>2, FS_CountingElements
<1> QED
  BY <1>12, <1>14, <1>15, <1>16, <1>17, <1>18, <1>19

\* One step of FindName.
Passing(c, name) == IF c \in Nodes => Name[c] = name THEN c ELSE GetSucc(c)

LEMMA LookedAtStep ==
  ASSUME ListInv, NEW l \in Lists, NEW name
  PROVE  /\ LookedAt(l, name)[0] = GetHead(l)
         /\ \A i \in 0 .. LastStep - 1 :
              LookedAt(l, name)[i + 1] = Passing(LookedAt(l, name)[i], name)
<1>1. LastStep \in Nat
  BY FS_CardinalityType, ListAssumption DEF LastStep
<1> DEFINE X == Cells \cup {NULL}
           g == [c \in X |-> Passing(c, name)]
<1>2. g \in [X -> X] /\ \A c \in X : g[c] = Passing(c, name)
  <2>1. \A c \in X : Passing(c, name) \in X
    BY ListAssumption DEF Passing, GetSucc, ListInv, ListTypeOK, Cells
  <2> QED
    BY <2>1
<1>3. PICK x \in X : x = GetHead(l)
  BY CellsApart, ListAssumption DEF GetHead, ListInv, ListTypeOK, Linked, Members, Cells
<1> HIDE DEF g, X
<1>4. PICK f : Iterates(f, X, x, g, LastStep)
  BY <1>1, <1>2, <1>3, IteratesExist
<1>5. f = [i \in 0 .. LastStep |->
             IF i = 0 THEN GetHead(l)
             ELSE IF f[i - 1] \in Nodes => Name[f[i - 1]] = name THEN f[i - 1]
                  ELSE GetSucc(f[i - 1])]
  <2>1. f = [i \in 0 .. LastStep |-> f[i]]
    BY <1>4 DEF Iterates
  <2>2. ASSUME NEW i \in 0 .. LastStep, i # 0
        PROVE  f[i] = Passing(f[i - 1], name)
    <3>1. i \in 1 .. LastStep /\ f[i - 1] \in X
      BY <1>1, <1>4, <2>2 DEF Iterates
    <3> QED
      BY <1>2, <1>4, <3>1 DEF Iterates
  <2>3. \A i \in 0 .. LastStep :
          f[i] = IF i = 0 THEN GetHead(l)
                 ELSE IF f[i - 1] \in Nodes => Name[f[i - 1]] = name THEN f[i - 1]
                      ELSE GetSucc(f[i - 1])
    BY <1>3, <1>4, <2>2 DEF Passing, Iterates
  <2> QED
    BY <2>1, <2>3, Zenon
<1> DEFINE at == LookedAt(l, name)
<1>6. at = [i \in 0 .. LastStep |->
             IF i = 0 THEN GetHead(l)
             ELSE IF at[i - 1] \in Nodes => Name[at[i - 1]] = name THEN at[i - 1]
                  ELSE GetSucc(at[i - 1])]
  BY <1>5, Zenon DEF LookedAt, LastStep
<1> HIDE DEF at
<1>7. /\ at[0] = GetHead(l)
      /\ \A i \in 0 .. LastStep - 1 :
           at[i + 1] = IF at[i] \in Nodes => Name[at[i]] = name THEN at[i] ELSE GetSucc(at[i])
  <2>1. at[0] = GetHead(l)
    BY <1>1, <1>6
  <2>2. ASSUME NEW i \in 0 .. LastStep - 1
        PROVE  at[i + 1] = IF at[i] \in Nodes => Name[at[i]] = name THEN at[i] ELSE GetSucc(at[i])
    <3>1. i + 1 \in 0 .. LastStep /\ i + 1 # 0 /\ (i + 1) - 1 = i
      BY <1>1
    <3> QED
      BY <1>6, <3>1
  <2> QED
    BY <2>1, <2>2
<1> QED
  BY <1>7, Zenon DEF at, Passing

\* What the list headers' macros read off the links.
LEMMA LookupsRead ==
  ASSUME ListInv, OrderInv, NEW l \in Lists, NEW s, s = Contents(l)
  PROVE  LET at(i) == IF i \in DOMAIN s THEN s[i] ELSE NULL
         IN  /\ IsListEmpty(l) <=> s = <<>>
             /\ GetHead(l) = at(1) /\ GetTail(l) = at(Len(s))
             /\ \A i \in DOMAIN s : GetSucc(s[i]) = at(i + 1) /\ GetPred(s[i]) = at(i - 1)
<1> DEFINE at(i) == IF i \in DOMAIN s THEN s[i] ELSE NULL
<1>1. /\ s \in Seq(Members(l)) /\ Len(s) \in Nat /\ DOMAIN s = 1 .. Len(s)
      /\ \A i \in 1 .. Len(s) : s[i] \in Members(l)
      /\ \A i \in 0 .. Len(s) : succ[At(s, l, i)] = At(s, l, i + 1)
  BY ContentsSpell DEF Spells
<1>2. /\ \A c \in Members(l) \cup {HeadOf(l)} :
            succ[c] \in Members(l) \cup {TailOf(l)} /\ pred[succ[c]] = c
      /\ \A c \in Members(l) \cup {TailOf(l)} :
            pred[c] \in Members(l) \cup {HeadOf(l)} /\ succ[pred[c]] = c
      /\ succ[TailOf(l)] = NULL /\ pred[HeadOf(l)] = NULL
      /\ HeadOf(l) # NULL /\ TailOf(l) # NULL /\ HeadOf(l) # TailOf(l)
      /\ HeadOf(l) \notin Members(l) /\ TailOf(l) \notin Members(l)
      /\ NULL \notin Members(l)
  BY CellsApart, ListAssumption DEF ListInv, Linked, Members, Cells
<1>3. /\ At(s, l, 0) = HeadOf(l) /\ At(s, l, Len(s) + 1) = TailOf(l)
      /\ \A i \in 1 .. Len(s) : At(s, l, i) = s[i] /\ At(s, l, i) \in Members(l)
  BY <1>1 DEF At
<1>4. \A i \in 0 .. Len(s) : pred[At(s, l, i + 1)] = At(s, l, i)
  <2> SUFFICES ASSUME NEW i \in 0 .. Len(s) PROVE pred[At(s, l, i + 1)] = At(s, l, i)
    OBVIOUS
  <2>1. At(s, l, i) \in Members(l) \cup {HeadOf(l)}
    BY <1>1, <1>3
  <2> QED
    BY <1>1, <1>2, <2>1
<1>5. \A i \in 1 .. Len(s) + 1 : /\ i = Len(s) + 1 => At(s, l, i) = TailOf(l) /\ at(i) = NULL
                                 /\ i # Len(s) + 1 => At(s, l, i) \in Members(l) /\ at(i) = At(s, l, i)
  BY <1>1, <1>3
<1>6. \A i \in 0 .. Len(s) : /\ i = 0 => At(s, l, i) = HeadOf(l) /\ at(i) = NULL
                             /\ i # 0 => At(s, l, i) \in Members(l) /\ at(i) = At(s, l, i)
  BY <1>1, <1>3
<1>7. IsListEmpty(l) <=> s = <<>>
  <2>1. pred[TailOf(l)] = At(s, l, Len(s))
    BY <1>1, <1>3, <1>4
  <2>2. s = <<>> <=> Len(s) = 0
    BY <1>1
  <2> QED
    BY <1>1, <1>2, <1>6, <2>1, <2>2 DEF IsListEmpty
<1>8. GetHead(l) = at(1)
  <2>1. succ[HeadOf(l)] = At(s, l, 1)
    BY <1>1, <1>3
  <2>2. CASE Len(s) = 0
    BY <1>2, <1>5, <2>1, <2>2 DEF GetHead
  <2>3. CASE Len(s) # 0
    <3>1. at(1) = At(s, l, 1) /\ At(s, l, 1) \in Members(l)
      BY <1>1, <1>5, <2>3
    <3>2. succ[At(s, l, 1)] # NULL
      BY <1>2, <3>1
    <3> QED
      BY <2>1, <3>1, <3>2 DEF GetHead
  <2> QED
    BY <2>2, <2>3
<1>9. GetTail(l) = at(Len(s))
  <2>1. pred[TailOf(l)] = At(s, l, Len(s))
    BY <1>1, <1>3, <1>4
  <2>2. CASE Len(s) = 0
    BY <1>1, <1>2, <1>6, <2>1, <2>2 DEF GetTail
  <2>3. CASE Len(s) # 0
    <3>1. at(Len(s)) = At(s, l, Len(s)) /\ At(s, l, Len(s)) \in Members(l)
      BY <1>1, <1>6, <2>3
    <3>2. pred[At(s, l, Len(s))] # NULL
      BY <1>2, <3>1
    <3> QED
      BY <2>1, <3>1, <3>2 DEF GetTail
  <2> QED
    BY <2>2, <2>3
<1>10. ASSUME NEW i \in 1 .. Len(s)
       PROVE  GetSucc(s[i]) = at(i + 1) /\ GetPred(s[i]) = at(i - 1)
  <2>1. succ[s[i]] = At(s, l, i + 1) /\ pred[s[i]] = At(s, l, i - 1)
    <3>1. i \in 0 .. Len(s) /\ i - 1 \in 0 .. Len(s) /\ (i - 1) + 1 = i
      BY <1>1
    <3> QED
      BY <1>1, <1>3, <1>4, <3>1
  <2>2. s[i] # NULL
    BY <1>1, <1>2
  <2>3. GetSucc(s[i]) = at(i + 1)
    <3>1. i + 1 \in 1 .. Len(s) + 1
      BY <1>1
    <3>2. CASE i + 1 = Len(s) + 1
      BY <1>2, <1>5, <2>1, <2>2, <3>1, <3>2 DEF GetSucc
    <3>3. CASE i + 1 # Len(s) + 1
      <4>1. at(i + 1) = At(s, l, i + 1) /\ At(s, l, i + 1) \in Members(l)
        BY <1>5, <3>1, <3>3
      <4>2. succ[At(s, l, i + 1)] # NULL /\ At(s, l, i + 1) # NULL
        BY <1>2, <4>1
      <4> QED
        BY <2>1, <2>2, <4>1, <4>2 DEF GetSucc
    <3> QED
      BY <3>2, <3>3
  <2>4. GetPred(s[i]) = at(i - 1)
    <3>1. i - 1 \in 0 .. Len(s)
      BY <1>1
    <3>2. CASE i - 1 = 0
      BY <1>2, <1>6, <2>1, <2>2, <3>1, <3>2 DEF GetPred
    <3>3. CASE i - 1 # 0
      <4>1. at(i - 1) = At(s, l, i - 1) /\ At(s, l, i - 1) \in Members(l)
        BY <1>6, <3>1, <3>3
      <4>2. pred[At(s, l, i - 1)] # NULL /\ At(s, l, i - 1) # NULL
        BY <1>2, <4>1
      <4> QED
        BY <2>1, <2>2, <4>1, <4>2 DEF GetPred
    <3> QED
      BY <3>2, <3>3
  <2> QED
    BY <2>3, <2>4
<1> QED
  BY <1>1, <1>7, <1>8, <1>9, <1>10

\* FindName stops at the first node of that name.
LEMMA FindsFirst ==
  ASSUME ListInv, OrderInv, NEW l \in Lists, NEW s, s = Contents(l), NEW name
  PROVE  LET named == {i \in DOMAIN s : Name[s[i]] = name}
         IN  FindName(l, name) =
               IF named = {} THEN NULL
               ELSE s[CHOOSE i \in named : \A j \in named : i <= j]
<1> DEFINE at(i) == IF i \in DOMAIN s THEN s[i] ELSE NULL
           named == {i \in DOMAIN s : Name[s[i]] = name}
<1>1. /\ Len(s) \in Nat /\ DOMAIN s = 1 .. Len(s) /\ Len(s) <= LastStep
      /\ \A i \in 1 .. Len(s) : s[i] \in Nodes
  <2>1. s \in Seq(Members(l)) /\ Len(s) <= LastStep /\ Members(l) \subseteq Nodes
    BY ContentsSpell DEF Spells, Members
  <2> QED
    BY <2>1
<1>2. LastStep \in Nat /\ NULL \notin Nodes
  BY FS_CardinalityType, ListAssumption DEF LastStep, Cells
<1>3. GetHead(l) = at(1) /\ \A i \in 1 .. Len(s) : GetSucc(s[i]) = at(i + 1)
  BY <1>1, LookupsRead
<1>4. PICK from : from = LookedAt(l, name)
  OBVIOUS
<1>5. from[0] = GetHead(l) /\ \A i \in 0 .. LastStep - 1 : from[i + 1] = Passing(from[i], name)
  BY <1>4, LookedAtStep
<1>6. FindName(l, name) = from[LastStep]
  BY <1>4 DEF FindName, LastStep
<1>7. CASE named = {}
  <2> DEFINE S == {i \in 0 .. LastStep : from[i] = at(i + 1)}
  <2>1. 0 \in S
    BY <1>2, <1>3, <1>5
  <2>2. ASSUME NEW i \in 0 .. LastStep - 1, i \in S
        PROVE  i + 1 \in S
    <3>1. CASE i + 1 \in 1 .. Len(s)
      <4>1. from[i] = s[i + 1] /\ s[i + 1] \in Nodes /\ Name[s[i + 1]] # name
        BY <1>1, <1>7, <2>2, <3>1
      <4>2. from[i + 1] = GetSucc(s[i + 1])
        BY <1>5, <4>1 DEF Passing
      <4> QED
        BY <1>2, <1>3, <3>1, <4>2
    <3>2. CASE i + 1 \notin 1 .. Len(s)
      <4>1. from[i] = NULL /\ at((i + 1) + 1) = NULL
        BY <1>1, <1>2, <2>2, <3>2
      <4>2. from[i + 1] = NULL
        BY <1>2, <1>5, <4>1 DEF Passing
      <4> QED
        BY <1>2, <4>1, <4>2
    <3> QED
      BY <3>1, <3>2
  <2>3. 0 .. LastStep \subseteq S
    <3> HIDE DEF S
    <3> QED
      BY <1>2, <2>1, <2>2, IntervalInduction
  <2>4. from[LastStep] = at(LastStep + 1)
    BY <1>2, <2>3
  <2> QED
    BY <1>1, <1>2, <1>6, <1>7, <2>4
<1>8. CASE named # {}
  <2>1. PICK F \in named : \A j \in named : F <= j
    <3>1. named \in SUBSET Nat
      BY <1>1
    <3> HIDE DEF named
    <3> QED
      BY <1>8, <3>1, LeastElement
  <2>2. F \in 1 .. Len(s) /\ Name[s[F]] = name
    BY <1>1, <2>1
  <2>3. (CHOOSE i \in named : \A j \in named : i <= j) = F
    <3>1. \A i \in named : i \in Int
      BY <1>1
    <3> HIDE DEF named
    <3> QED
      BY <2>1, <3>1
  <2>4. \A i \in 1 .. F - 1 : i \in 1 .. Len(s) /\ Name[s[i]] # name
    BY <1>1, <2>1, <2>2
  <2> DEFINE S == {i \in 0 .. LastStep : from[i] = IF F <= i + 1 THEN s[F] ELSE s[i + 1]}
  <2>5. 0 \in S
    BY <1>1, <1>2, <1>3, <1>5, <2>2
  <2>6. ASSUME NEW i \in 0 .. LastStep - 1, i \in S
        PROVE  i + 1 \in S
    <3>1. CASE F <= i + 1
      <4>1. from[i] = s[F] /\ from[i + 1] = s[F]
        BY <1>5, <2>2, <2>6, <3>1 DEF Passing
      <4> QED
        BY <1>1, <1>2, <2>2, <3>1, <4>1
    <3>2. CASE ~ (F <= i + 1)
      <4>1. i + 1 \in 1 .. F - 1 /\ i + 1 \in 1 .. Len(s) /\ i + 2 \in 1 .. Len(s)
        BY <1>1, <1>2, <2>2, <3>2
      <4>2. from[i] = s[i + 1] /\ s[i + 1] \in Nodes /\ Name[s[i + 1]] # name
        BY <1>1, <2>4, <2>6, <3>2, <4>1
      <4>3. from[i + 1] = s[i + 2]
        BY <1>1, <1>3, <1>5, <4>1, <4>2 DEF Passing
      <4>4. F <= i + 2 => F = i + 2
        BY <1>1, <1>2, <2>2, <3>2
      <4> QED
        BY <1>2, <4>3, <4>4
    <3> QED
      BY <3>1, <3>2
  <2>7. 0 .. LastStep \subseteq S
    <3> HIDE DEF S
    <3> QED
      BY <1>2, <2>5, <2>6, IntervalInduction
  <2>8. from[LastStep] = s[F]
    <3>1. LastStep \in S /\ F <= LastStep + 1
      BY <1>1, <1>2, <2>2, <2>7
    <3> QED
      BY <3>1
  <2> QED
    BY <1>6, <1>8, <2>3, <2>8
<1> QED
  BY <1>7, <1>8

\* What the look-ups answer is what the list's nodes, first to last, say.
THEOREM LookupsAnswerForContents == ListSpec => []LookupsAgree
<1>1. ASSUME ListInv, OrderInv
      PROVE  LookupsAgree
  <2>1. ASSUME NEW l \in Lists, NEW s, s = Contents(l)
        PROVE  LET at(i) == IF i \in DOMAIN s THEN s[i] ELSE NULL
                   named(x) == {i \in DOMAIN s : Name[s[i]] = x}
               IN  /\ {s[i] : i \in DOMAIN s} = Members(l) /\ Len(s) = Cardinality(Members(l))
                   /\ IsListEmpty(l) <=> s = <<>>
                   /\ GetHead(l) = at(1) /\ GetTail(l) = at(Len(s))
                   /\ \A i \in DOMAIN s : GetSucc(s[i]) = at(i + 1) /\ GetPred(s[i]) = at(i - 1)
                   /\ \A x \in {Name[n] : n \in Nodes} \ {NULL} :
                        FindName(l, x) =
                          IF named(x) = {} THEN NULL
                          ELSE s[CHOOSE i \in named(x) : \A j \in named(x) : i <= j]
    <3>1. {s[i] : i \in DOMAIN s} = Members(l) /\ Len(s) = Cardinality(Members(l))
      BY <1>1, <2>1, ContentsSpell
    <3>2. /\ IsListEmpty(l) <=> s = <<>>
          /\ GetHead(l) = IF 1 \in DOMAIN s THEN s[1] ELSE NULL
          /\ GetTail(l) = IF Len(s) \in DOMAIN s THEN s[Len(s)] ELSE NULL
          /\ \A i \in DOMAIN s :
               /\ GetSucc(s[i]) = IF i + 1 \in DOMAIN s THEN s[i + 1] ELSE NULL
               /\ GetPred(s[i]) = IF i - 1 \in DOMAIN s THEN s[i - 1] ELSE NULL
      BY <1>1, <2>1, LookupsRead
    <3>3. ASSUME NEW x
          PROVE  FindName(l, x) =
                   IF {i \in DOMAIN s : Name[s[i]] = x} = {} THEN NULL
                   ELSE s[CHOOSE i \in {k \in DOMAIN s : Name[s[k]] = x} :
                            \A j \in {k \in DOMAIN s : Name[s[k]] = x} : i <= j]
      BY <1>1, <2>1, FindsFirst
    <3> QED
      BY <3>1, <3>2, <3>3, Zenon
  <2> QED
    BY <2>1, Zenon DEF LookupsAgree
<1> QED
  BY <1>1, ListInvInit, ListInvStep, OrderInit, OrderStep, PTL DEF ListSpec

-----------------------------------------------------------------------------
(* What a change of the links does to the sequences. *)

LEMMA ContentsAre ==
  ListInv /\ OrderInv => \A l \in Lists : \A s : Spells(s, l) => s = Contents(l)
BY ContentsSpell, SpellingUnique

LEMMA ContentsWillBe ==
  (ListInv /\ OrderInv => \A l \in Lists : \A s : Spells(s, l) => s = Contents(l))'
BY ContentsAre, PTL

\* A list whose chain is as it was has the same nodes in the same order.
LEMMA SameChain ==
  ASSUME ListInv, OrderInv, ListInv', OrderInv', NEW l \in Lists,
         Members(l)' = Members(l), \A c \in Front(l) : succ'[c] = succ[c]
  PROVE  Contents(l)' = Contents(l)
<1>1. PICK s : s = Contents(l)
  OBVIOUS
<1>2. Spells(s, l)
  BY <1>1, ContentsSpell
<1>3. \A i \in 0 .. Len(s) : At(s, l, i) \in Front(l)
  BY <1>2 DEF Spells, At, Front
<1>4. \A i : At(s, l, i)' = At(s, l, i)
  BY DEF At, HeadOf, TailOf
<1>5. Spells(s, l)'
  BY <1>2, <1>3, <1>4 DEF Spells
<1> QED
  BY <1>1, <1>5, ContentsWillBe

\* t is s with n put in at i.
IsInserted(t, s, i, n) ==
  /\ Len(t) = Len(s) + 1
  /\ \A j \in 1 .. i - 1 : t[j] = s[j]
  /\ t[i] = n
  /\ \A j \in i + 1 .. Len(s) + 1 : t[j] = s[j - 1]

\* t is s without what was at i.
IsRemoved(t, s, i) ==
  /\ Len(t) = Len(s) - 1
  /\ \A j \in 1 .. i - 1 : t[j] = s[j]
  /\ \A j \in i .. Len(s) - 1 : t[j] = s[j + 1]

LEMMA InsertedAt ==
  ASSUME NEW T, NEW s \in Seq(T), NEW i \in 1 .. Len(s) + 1, NEW n \in T,
         NEW t, t = Documented!S!InsertAt(s, i, n)
  PROVE  t \in Seq(T) /\ IsInserted(t, s, i, n)
<1>1. PICK a, b : a = SubSeq(s, 1, i - 1) /\ b = SubSeq(s, i, Len(s))
  OBVIOUS
<1>2. a \in Seq(T) /\ Len(a) = i - 1 /\ b \in Seq(T) /\ Len(b) = Len(s) + 1 - i
  BY <1>1
<1>3. /\ \A j \in 1 .. i - 1 : a[j] = s[j]
      /\ \A j \in 1 .. Len(s) + 1 - i : b[j] = s[i + j - 1]
  BY <1>1
<1>4. PICK c : c = a \o <<n>>
  OBVIOUS
<1>5. c \in Seq(T) /\ Len(c) = i
  BY <1>2, <1>4
<1>6. c[i] = n /\ \A j \in 1 .. i - 1 : c[j] = s[j]
  BY <1>2, <1>3, <1>4
<1>7. t = c \o b
  BY <1>1, <1>4 DEF Documented!S!InsertAt
<1>8. t \in Seq(T) /\ Len(t) = Len(s) + 1
  BY <1>2, <1>5, <1>7
<1>9. \A j \in 1 .. i : t[j] = c[j]
  BY <1>2, <1>5, <1>7
<1>10. \A j \in i + 1 .. Len(s) + 1 : t[j] = b[j - i]
  BY <1>2, <1>5, <1>7
<1>11. \A j \in i + 1 .. Len(s) + 1 : t[j] = s[j - 1]
  <2> SUFFICES ASSUME NEW j \in i + 1 .. Len(s) + 1 PROVE t[j] = s[j - 1]
    OBVIOUS
  <2>1. j - i \in 1 .. Len(s) + 1 - i /\ i + (j - i) - 1 = j - 1
    OBVIOUS
  <2> QED
    BY <1>3, <1>10, <2>1
<1>12. \A j \in 1 .. i - 1 : t[j] = s[j]
  BY <1>6, <1>9
<1>13. t[i] = n
  BY <1>6, <1>9
<1> QED
  BY <1>8, <1>11, <1>12, <1>13 DEF IsInserted

LEMMA RemovedAt ==
  ASSUME NEW T, NEW s \in Seq(T), NEW i \in 1 .. Len(s),
         NEW t, t = Documented!S!RemoveAt(s, i)
  PROVE  t \in Seq(T) /\ IsRemoved(t, s, i)
<1>1. PICK a, b : a = SubSeq(s, 1, i - 1) /\ b = SubSeq(s, i + 1, Len(s))
  OBVIOUS
<1>2. a \in Seq(T) /\ Len(a) = i - 1 /\ b \in Seq(T) /\ Len(b) = Len(s) - i
  BY <1>1
<1>3. /\ \A j \in 1 .. i - 1 : a[j] = s[j]
      /\ \A j \in 1 .. Len(s) - i : b[j] = s[i + j]
  BY <1>1
<1>4. t = a \o b
  BY <1>1 DEF Documented!S!RemoveAt
<1>5. t \in Seq(T) /\ Len(t) = Len(s) - 1
  BY <1>2, <1>4
<1>6. \A j \in 1 .. i - 1 : t[j] = a[j]
  BY <1>2, <1>4
<1>7. \A j \in i .. Len(s) - 1 : t[j] = b[j - (i - 1)]
  BY <1>2, <1>4
<1>8. \A j \in i .. Len(s) - 1 : t[j] = s[j + 1]
  <2> SUFFICES ASSUME NEW j \in i .. Len(s) - 1 PROVE t[j] = s[j + 1]
    OBVIOUS
  <2>1. j - (i - 1) \in 1 .. Len(s) - i /\ i + (j - (i - 1)) = j + 1
    OBVIOUS
  <2> QED
    BY <1>3, <1>7, <2>1
<1>9. \A j \in 1 .. i - 1 : t[j] = s[j]
  BY <1>3, <1>6
<1> QED
  BY <1>5, <1>8, <1>9 DEF IsRemoved

\* The cells from header to tail are told apart.
LEMMA AtInjective ==
  ASSUME ListInv, OrderInv, NEW l \in Lists, NEW s, s = Contents(l)
  PROVE  /\ \A i, j \in 0 .. Len(s) + 1 : At(s, l, i) = At(s, l, j) => i = j
         /\ \A i \in 0 .. Len(s) : At(s, l, i) \in Front(l)
         /\ \A c \in Front(l) : \E i \in 0 .. Len(s) : At(s, l, i) = c
<1>1. /\ s \in Seq(Members(l)) /\ Len(s) \in Nat /\ DOMAIN s = 1 .. Len(s)
      /\ \A i, j \in 1 .. Len(s) : s[i] = s[j] => i = j
      /\ {s[i] : i \in 1 .. Len(s)} = Members(l)
  BY ContentsSpell DEF Spells
<1>2. /\ HeadOf(l) # TailOf(l)
      /\ HeadOf(l) \notin Members(l) /\ TailOf(l) \notin Members(l)
  BY CellsApart DEF Members
<1>3. /\ At(s, l, 0) = HeadOf(l) /\ At(s, l, Len(s) + 1) = TailOf(l)
      /\ \A i \in 1 .. Len(s) : At(s, l, i) = s[i] /\ s[i] \in Members(l)
  BY <1>1 DEF At
<1>4. \A i \in 0 .. Len(s) + 1 : i = 0 \/ i = Len(s) + 1 \/ i \in 1 .. Len(s)
  BY <1>1
<1>5. \A i, j \in 0 .. Len(s) + 1 : At(s, l, i) = At(s, l, j) => i = j
  BY <1>1, <1>2, <1>3, <1>4
<1>6. \A c \in Front(l) : \E i \in 0 .. Len(s) : At(s, l, i) = c
  <2> SUFFICES ASSUME NEW c \in Front(l) PROVE \E i \in 0 .. Len(s) : At(s, l, i) = c
    OBVIOUS
  <2>1. CASE c = HeadOf(l)
    BY <1>1, <1>3, <2>1
  <2>2. CASE c \in Members(l)
    <3>1. PICK i \in 1 .. Len(s) : c = s[i]
      BY <1>1, <2>2
    <3> QED
      BY <1>1, <1>3, <3>1
  <2> QED
    BY <2>1, <2>2 DEF Front
<1> QED
  BY <1>1, <1>3, <1>5, <1>6 DEF Front

LEMMA LinksInsert ==
  ASSUME ListInv, OrderInv, ListInv', OrderInv', NEW l \in Lists, NEW n \in Nodes,
         NEW s, s = Contents(l), NEW i \in 0 .. Len(s), Links(l, n, At(s, l, i))
  PROVE  /\ Contents(l)' = Documented!S!InsertAt(s, i + 1, n)
         /\ \A m \in Lists \ {l} : Contents(m)' = Contents(m)
<1> DEFINE p == At(s, l, i)
<1>1. /\ Spells(s, l) /\ s \in Seq(Members(l)) /\ Len(s) \in Nat
      /\ p \in Front(l)
      /\ \A j, k \in 0 .. Len(s) + 1 : At(s, l, j) = At(s, l, k) => j = k
      /\ \A j \in 0 .. Len(s) : At(s, l, j) \in Front(l)
  <2>1. Spells(s, l)
    BY ContentsSpell
  <2>2. s \in Seq(Members(l)) /\ Len(s) \in Nat
    BY <2>1 DEF Spells
  <2>3. /\ \A j, k \in 0 .. Len(s) + 1 : At(s, l, j) = At(s, l, k) => j = k
        /\ \A j \in 0 .. Len(s) : At(s, l, j) \in Front(l)
    BY <2>2, AtInjective
  <2> QED
    BY <2>1, <2>2, <2>3
<1>2. /\ n \in Cells /\ p \in Cells /\ p # n /\ n \notin Chained(l)
      /\ succ[p] = At(s, l, i + 1)
  BY <1>1, CellsApart DEF Links, ListInv, ListTypeOK, Members, Front, Back, Chained, Cells, Spells
<1> HIDE DEF p
<1>3. /\ succ'[n] = At(s, l, i + 1) /\ succ'[p] = n
      /\ \A c \in Cells \ {n, p} : succ'[c] = succ[c]
  BY <1>2 DEF Links, LinkAfter, ListInv, ListTypeOK, p
<1>4. /\ Members(l)' = Members(l) \cup {n}
      /\ \A m \in Lists \ {l} : Members(m)' = Members(m) /\ n \notin Chained(m) /\ p \notin Front(m)
  BY <1>1, CellsApart DEF Links, ListInv, ListTypeOK, Members, Chained, Front, Back
<1>5. \A m \in Lists : Front(m) \subseteq Cells /\ Front(m) \subseteq Chained(m)
  BY CellsApart DEF Chained, Front, Members, Cells
<1>6. \A m \in Lists \ {l} : Contents(m)' = Contents(m)
  <2> SUFFICES ASSUME NEW m \in Lists \ {l} PROVE Contents(m)' = Contents(m)
    OBVIOUS
  <2>1. \A c \in Front(m) : succ'[c] = succ[c]
    BY <1>3, <1>4, <1>5
  <2> QED
    BY <1>4, <2>1, SameChain
<1>7. PICK t : t = Documented!S!InsertAt(s, i + 1, n)
  OBVIOUS
<1>8. /\ t \in Seq(Members(l) \cup {n}) /\ Len(t) = Len(s) + 1
      /\ \A j \in 1 .. i : t[j] = s[j]
      /\ t[i + 1] = n
      /\ \A j \in i + 2 .. Len(s) + 1 : t[j] = s[j - 1]
  <2>1. s \in Seq(Members(l) \cup {n}) /\ i + 1 \in 1 .. Len(s) + 1
    BY <1>1
  <2>2. t \in Seq(Members(l) \cup {n}) /\ IsInserted(t, s, i + 1, n)
    BY <1>7, <2>1, InsertedAt
  <2> QED
    BY <1>1, <2>2 DEF IsInserted
<1>9. /\ \A j \in 0 .. i : At(t, l, j) = At(s, l, j)
      /\ At(t, l, i + 1) = n
      /\ \A j \in i + 2 .. Len(s) + 2 : At(t, l, j) = At(s, l, j - 1)
  BY <1>1, <1>8 DEF At
<1>10. ASSUME NEW j \in 0 .. Len(t)
       PROVE  succ'[At(t, l, j)] = At(t, l, j + 1)
  <2>0. \A k \in 0 .. Len(s) : k # i => succ'[At(s, l, k)] = At(s, l, k + 1)
    <3> SUFFICES ASSUME NEW k \in 0 .. Len(s), k # i
                 PROVE  succ'[At(s, l, k)] = At(s, l, k + 1)
      OBVIOUS
    <3>1. At(s, l, k) # p
      BY <1>1 DEF p
    <3>2. At(s, l, k) # n /\ At(s, l, k) \in Cells
      BY <1>1, <1>2, <1>5
    <3> QED
      BY <1>1, <1>3, <3>1, <3>2 DEF Spells
  <2>1. CASE j < i
    BY <1>1, <1>9, <2>0, <2>1
  <2>2. CASE j = i
    BY <1>1, <1>3, <1>9, <2>2 DEF p
  <2>3. CASE j = i + 1
    <3>1. At(t, l, j + 1) = At(s, l, i + 1)
      BY <1>1, <1>9, <2>3
    <3> QED
      BY <1>3, <1>9, <2>3, <3>1
  <2>4. CASE j > i + 1
    <3>1. j - 1 \in 0 .. Len(s) /\ j - 1 # i /\ j \in i + 2 .. Len(s) + 2
          /\ j + 1 \in i + 2 .. Len(s) + 2 /\ (j - 1) + 1 = j /\ (j + 1) - 1 = j
      BY <1>1, <1>8, <2>4
    <3> QED
      BY <1>9, <2>0, <3>1
  <2> QED
    BY <1>1, <1>8, <2>1, <2>2, <2>3, <2>4
<1>11. Spells(t, l)'
  <2>1. \A j : At(t, l, j)' = At(t, l, j)
    BY DEF At, HeadOf, TailOf
  <2> QED
    BY <1>4, <1>8, <1>10, <2>1 DEF Spells
<1>12. Contents(l)' = t
  BY <1>11, ContentsWillBe
<1> QED
  BY <1>6, <1>7, <1>12

LEMMA UnlinksRemove ==
  ASSUME ListInv, OrderInv, ListInv', OrderInv', NEW l \in Lists,
         NEW s, s = Contents(l), NEW i \in 1 .. Len(s), Unlinks(s[i])
  PROVE  /\ Contents(l)' = Documented!S!RemoveAt(s, i)
         /\ \A m \in Lists \ {l} : Contents(m)' = Contents(m)
<1> DEFINE n == s[i]
           p == At(s, l, i - 1)
<1>1. /\ Spells(s, l) /\ s \in Seq(Members(l)) /\ Len(s) \in Nat
      /\ \A j, k \in 0 .. Len(s) + 1 : At(s, l, j) = At(s, l, k) => j = k
      /\ \A j \in 0 .. Len(s) : At(s, l, j) \in Front(l)
  <2>1. Spells(s, l)
    BY ContentsSpell
  <2>2. s \in Seq(Members(l)) /\ Len(s) \in Nat
    BY <2>1 DEF Spells
  <2> QED
    BY <2>1, <2>2, AtInjective
<1>2. /\ n \in Members(l) /\ n = At(s, l, i) /\ n \in Nodes /\ owner[n] = l
      /\ \A j \in 1 .. Len(s) : s[j] \in Members(l)
  BY <1>1 DEF At, Members
<1>3. p \in Front(l) /\ succ[p] = n /\ succ[n] = At(s, l, i + 1)
  <2>1. i - 1 \in 0 .. Len(s) /\ i \in 0 .. Len(s) /\ (i - 1) + 1 = i
    BY <1>1
  <2> QED
    BY <1>1, <1>2, <2>1 DEF Spells
<1>4. pred[n] = p
  BY <1>3 DEF ListInv, Linked, Front
<1> HIDE DEF n, p
<1>5. /\ Members(l)' = Members(l) \ {n}
      /\ \A m \in Lists \ {l} : Members(m)' = Members(m) /\ p \notin Front(m)
  BY <1>2, <1>3, CellsApart DEF Unlinks, ListInv, ListTypeOK, Members, Front, n
<1>6. \A m \in Lists : Front(m) \subseteq Cells
  BY CellsApart DEF Front, Members, Cells
<1>7. succ'[p] = At(s, l, i + 1) /\ \A c \in Cells \ {p} : succ'[c] = succ[c]
  <2>1. succ' = [succ EXCEPT ![p] = At(s, l, i + 1)] /\ p \in DOMAIN succ /\ DOMAIN succ = Cells
    BY <1>3, <1>4, <1>6 DEF Unlinks, Unlink, ListInv, ListTypeOK, n
  <2> QED
    BY <2>1
<1>8. \A m \in Lists \ {l} : Contents(m)' = Contents(m)
  <2> SUFFICES ASSUME NEW m \in Lists \ {l} PROVE Contents(m)' = Contents(m)
    OBVIOUS
  <2>1. \A c \in Front(m) : succ'[c] = succ[c]
    BY <1>5, <1>6, <1>7
  <2> QED
    BY <1>5, <2>1, SameChain
<1>9. PICK t : t = Documented!S!RemoveAt(s, i)
  OBVIOUS
<1>10. /\ t \in Seq(Members(l)) /\ Len(t) = Len(s) - 1
       /\ \A j \in 1 .. i - 1 : t[j] = s[j]
       /\ \A j \in i .. Len(s) - 1 : t[j] = s[j + 1]
  <2>1. t \in Seq(Members(l)) /\ IsRemoved(t, s, i)
    BY <1>1, <1>9, RemovedAt
  <2> QED
    BY <2>1 DEF IsRemoved
<1>11. /\ \A j \in 0 .. i - 1 : At(t, l, j) = At(s, l, j)
       /\ \A j \in i .. Len(s) : At(t, l, j) = At(s, l, j + 1)
  BY <1>1, <1>10 DEF At
<1>12. t \in Seq(Members(l) \ {n})
  <2>1. \A j \in 1 .. Len(s) : j # i => s[j] # n
    <3> SUFFICES ASSUME NEW j \in 1 .. Len(s), j # i PROVE s[j] # n
      OBVIOUS
    <3>1. At(s, l, j) = s[j] /\ At(s, l, j) # At(s, l, i)
      BY <1>1 DEF At
    <3> QED
      BY <1>2, <3>1
  <2>2. ASSUME NEW j \in 1 .. Len(t)
        PROVE  t[j] \in Members(l) \ {n}
    <3>1. CASE j < i
      <4>1. t[j] = s[j] /\ j \in 1 .. Len(s)
        BY <1>1, <1>10, <3>1
      <4> QED
        BY <1>2, <2>1, <3>1, <4>1
    <3>2. CASE j >= i
      <4>1. t[j] = s[j + 1] /\ j + 1 \in 1 .. Len(s) /\ j + 1 # i
        BY <1>1, <1>10, <3>2
      <4> QED
        BY <1>2, <2>1, <4>1
    <3> QED
      BY <1>1, <1>10, <3>1, <3>2
  <2> QED
    BY <1>10, <2>2
<1>13. ASSUME NEW j \in 0 .. Len(t)
       PROVE  succ'[At(t, l, j)] = At(t, l, j + 1)
  <2>0. \A k \in 0 .. Len(s) : k # i - 1 => succ'[At(s, l, k)] = At(s, l, k + 1)
    <3> SUFFICES ASSUME NEW k \in 0 .. Len(s), k # i - 1
                 PROVE  succ'[At(s, l, k)] = At(s, l, k + 1)
      OBVIOUS
    <3>1. At(s, l, k) # p
      BY <1>1 DEF p
    <3>2. At(s, l, k) \in Cells
      BY <1>1, <1>6
    <3> QED
      BY <1>1, <1>7, <3>1, <3>2 DEF Spells
  <2>1. CASE j < i - 1
    BY <1>1, <1>10, <1>11, <2>0, <2>1
  <2>2. CASE j = i - 1
    <3>1. At(t, l, j) = p /\ At(t, l, j + 1) = At(s, l, i + 1)
      BY <1>1, <1>10, <1>11, <2>2 DEF p
    <3> QED
      BY <1>7, <3>1
  <2>3. CASE j > i - 1
    <3>1. j \in i .. Len(s) /\ j + 1 \in i .. Len(s) /\ j + 1 \in 0 .. Len(s) /\ j + 1 # i - 1
      BY <1>1, <1>10, <2>3
    <3> QED
      BY <1>11, <2>0, <3>1
  <2> QED
    BY <1>1, <1>10, <2>1, <2>2, <2>3
<1>14. Spells(t, l)'
  <2>1. \A j : At(t, l, j)' = At(t, l, j)
    BY DEF At, HeadOf, TailOf
  <2> QED
    BY <1>5, <1>12, <1>13, <2>1 DEF Spells
<1>15. Contents(l)' = t
  BY <1>14, ContentsWillBe
<1> QED
  BY <1>8, <1>9, <1>15

-----------------------------------------------------------------------------
(* The calls have their documented effect. *)

\* Enqueue's loop has passed the nodes of at least its node's priority.
SearchInv ==
  scan # NULL =>
    LET s == Contents(scan.list)
    IN  \E j \in 1 .. Len(s) + 1 :
          /\ scan.next = At(s, scan.list, j)
          /\ \A i \in 1 .. j - 1 : Pri[s[i]] >= Pri[scan.node]

LEMMA SearchStep ==
  ASSUME ListInv, OrderInv, ListInv', OrderInv', SearchInv, [ListNext]_listVars
  PROVE  SearchInv'
<1>1. ASSUME scan' = NULL
      PROVE  SearchInv'
  BY <1>1 DEF SearchInv
<1>2. ASSUME UNCHANGED <<succ, owner>>
      PROVE  \A l \in Lists : Contents(l)' = Contents(l)
  <2>1. \A l \in Lists : Members(l)' = Members(l)
    BY <1>2 DEF Members
  <2> QED
    BY <1>2, <2>1, SameChain
<1>3. ASSUME UNCHANGED <<succ, owner, scan>>
      PROVE  SearchInv'
  <2>1. CASE scan # NULL
    <3>1. scan.list \in Lists
      BY <2>1 DEF ListInv, ListTypeOK
    <3>2. Contents(scan.list)' = Contents(scan.list)
      BY <1>2, <1>3, <3>1
    <3> QED
      BY <1>3, <3>2 DEF SearchInv, At, HeadOf, TailOf
  <2> QED
    BY <1>1, <1>3, <2>1
<1>4. ASSUME NEW l \in Lists, NEW n \in Nodes, EnqueueBegin(l, n)
      PROVE  SearchInv'
  <2>1. PICK s : s = Contents(l)
    OBVIOUS
  <2>2. s = Contents(l)'
    BY <1>2, <1>4, <2>1 DEF EnqueueBegin
  <2>3. Len(s) \in Nat /\ succ[HeadOf(l)] = At(s, l, 1)
    <3>1. Spells(s, l)
      BY <2>1, ContentsSpell
    <3>2. Len(s) \in Nat /\ succ[At(s, l, 0)] = At(s, l, 1)
      BY <3>1 DEF Spells
    <3>3. At(s, l, 0) = HeadOf(l)
      BY DEF At
    <3> QED
      BY <3>2, <3>3
  <2>4. scan'.next = At(s, l, 1) /\ scan'.list = l
    BY <1>4, <2>3 DEF EnqueueBegin
  <2>5. At(s, l, 1)' = At(s, l, 1)
    BY DEF At, HeadOf, TailOf
  <2>6. 1 \in 1 .. Len(s) + 1 /\ 1 .. 1 - 1 = {}
    BY <2>3
  <2>7. \E j \in 1 .. Len(s) + 1 :
          scan'.next = At(s, l, j)' /\ \A i \in 1 .. j - 1 : Pri[s[i]] >= Pri[scan'.node]
    BY <2>4, <2>5, <2>6
  <2> QED
    BY <2>2, <2>4, <2>7 DEF SearchInv
<1>5. ASSUME EnqueueNext
      PROVE  SearchInv'
  <2>1. /\ scan # NULL /\ scan.list \in Lists
        /\ scan \in [list : Lists, node : Nodes, next : Nodes \cup Tails]
        /\ scan.next \in Nodes /\ Pri[scan.next] >= Pri[scan.node]
    <3>1. scan # NULL /\ ~ Stop(scan.node, scan.next)
      BY <1>5 DEF EnqueueNext, Ready
    <3>2. scan \in [list : Lists, node : Nodes, next : Nodes \cup Tails]
      BY <3>1 DEF ListInv, ListTypeOK
    <3>3. scan.next \in Nodes /\ ~ (Pri[scan.node] > Pri[scan.next])
      BY <3>1 DEF Stop
    <3>4. Pri[scan.node] \in Int /\ Pri[scan.next] \in Int
      BY <3>2, <3>3, ListAssumption
    <3> QED
      BY <3>1, <3>2, <3>3, <3>4
  <2>. PICK l \in Lists : l = scan.list
    BY <2>1
  <2>2. PICK s : l = scan.list /\ s = Contents(l)
    OBVIOUS
  <2>3. PICK j \in 1 .. Len(s) + 1 :
          scan.next = At(s, l, j) /\ \A i \in 1 .. j - 1 : Pri[s[i]] >= Pri[scan.node]
    BY <2>1, <2>2 DEF SearchInv
  <2>4. s = Contents(l)'
    BY <1>2, <1>5, <2>2 DEF EnqueueNext
  <2>5. Len(s) \in Nat /\ \A i \in 0 .. Len(s) : succ[At(s, l, i)] = At(s, l, i + 1)
    BY <2>2, ContentsSpell DEF Spells
  <2>6. j \in 1 .. Len(s) /\ s[j] = scan.next
    BY <2>1, <2>3, <2>5, CellsApart DEF At
  <2>7. scan'.next = At(s, l, j + 1) /\ scan'.list = l /\ scan'.node = scan.node
    BY <1>5, <2>1, <2>2, <2>3, <2>5, <2>6 DEF EnqueueNext
  <2>8. At(s, l, j + 1)' = At(s, l, j + 1)
    BY DEF At, HeadOf, TailOf
  <2>9. \A i \in 1 .. (j + 1) - 1 : Pri[s[i]] >= Pri[scan.node]
    BY <2>1, <2>3, <2>5, <2>6
  <2>10. j + 1 \in 1 .. Len(s) + 1
    BY <2>5, <2>6
  <2>11. \E k \in 1 .. Len(s) + 1 :
           scan'.next = At(s, l, k)' /\ \A i \in 1 .. k - 1 : Pri[s[i]] >= Pri[scan'.node]
    BY <2>7, <2>8, <2>9, <2>10
  <2> QED
    BY <2>4, <2>7, <2>11 DEF SearchInv
<1>6. CASE Looks
  BY <1>3, <1>4, <1>5, <1>6 DEF Looks, WalkBegin, WalkNext, Visit
<1>7. CASE UNCHANGED listVars
  BY <1>3, <1>7 DEF listVars
<1> QED
  BY <1>1, <1>6, <1>7, StepKinds DEF Links, Unlinks

LEMMA Placed ==
  ASSUME ListInv, OrderInv, ListInv', OrderInv', NEW l \in Lists, NEW n \in Nodes,
         NEW s, s = Contents(l), NEW i \in 0 .. Len(s), Links(l, n, At(s, l, i))
  PROVE  Documented!Place(l, n, i + 1)
<1>1. /\ Contents(l)' = Documented!S!InsertAt(s, i + 1, n)
      /\ \A m \in Lists \ {l} : Contents(m)' = Contents(m)
  BY LinksInsert
<1>2. Documented!Free(n)
  <2>1. \A m \in Lists : n \notin Members(m)
    BY CellsApart DEF Links, Members
  <2>2. \A m \in Lists : {Contents(m)[j] : j \in DOMAIN Contents(m)} = Members(m)
    BY ContentsSpell
  <2> QED
    BY <2>1, <2>2 DEF Documented!Free, Documented!S!ToSet
<1>3. [m \in Lists |-> Contents(m)'] =
        [[m \in Lists |-> Contents(m)] EXCEPT ![l] = Documented!S!InsertAt(@, i + 1, n)]
  BY <1>1
<1> QED
  BY <1>2, <1>3 DEF Documented!Place

LEMMA Withdrawn ==
  ASSUME ListInv, OrderInv, ListInv', OrderInv', NEW l \in Lists,
         NEW s, s = Contents(l), NEW i \in 1 .. Len(s), Unlinks(s[i])
  PROVE  ~ Documented!Free(s[i]) /\ Documented!Without(s[i])
<1>1. /\ Contents(l)' = Documented!S!RemoveAt(s, i)
      /\ \A m \in Lists \ {l} : Contents(m)' = Contents(m)
  BY UnlinksRemove
<1>2. i \in DOMAIN s
  BY ContentsSpell DEF Spells
<1>3. ~ Documented!Free(s[i])
  BY <1>2 DEF Documented!Free, Documented!S!ToSet
<1>4. [m \in Lists |-> Contents(m)'] =
        [[m \in Lists |-> Contents(m)] EXCEPT ![l] = Documented!S!RemoveAt(@, i)]
  BY <1>1
<1>5. [m \in Lists |-> Contents(m)][l] = s
  OBVIOUS
<1> QED
  BY <1>2, <1>3, <1>4, <1>5 DEF Documented!Without

LEMMA EnqueuePlaces ==
  ASSUME ListInv, OrderInv, ListInv', OrderInv', SearchInv,
         NEW l \in Lists, NEW n \in Nodes, Enqueue(l, n)
  PROVE  Documented!Enqueue(l, n)
<1>1. PICK s : s = Contents(l)
  OBVIOUS
<1>2. /\ scan # NULL /\ scan.list = l /\ scan.node = n /\ Stop(n, scan.next)
      /\ LinkAfter(pred[scan.next], n) /\ owner' = [owner EXCEPT ![n] = l]
      /\ scan' = NULL /\ UNCHANGED <<walk, due>>
  BY DEF Enqueue, Ready
<1>3. owner[n] = NULL
  BY <1>2 DEF ListInv, LoopsOK
<1>4. PICK j \in 1 .. Len(s) + 1 :
        scan.next = At(s, l, j) /\ \A i \in 1 .. j - 1 : Pri[s[i]] >= Pri[n]
  BY <1>1, <1>2 DEF SearchInv
<1>5. /\ Len(s) \in Nat /\ DOMAIN s = 1 .. Len(s) /\ s \in Seq(Members(l))
      /\ \A i \in 0 .. Len(s) : succ[At(s, l, i)] = At(s, l, i + 1)
      /\ \A i \in 0 .. Len(s) : At(s, l, i) \in Front(l)
  BY <1>1, ContentsSpell, AtInjective DEF Spells
<1>6. j - 1 \in 0 .. Len(s) /\ (j - 1) + 1 = j /\ j \in Int
  BY <1>5
<1>7. pred[scan.next] = At(s, l, j - 1)
  BY <1>4, <1>5, <1>6 DEF ListInv, Linked, Front
<1>8. Links(l, n, At(s, l, j - 1))
  BY <1>2, <1>3, <1>7 DEF Links
<1>9. Documented!Place(l, n, j)
  <2>1. PICK k \in 0 .. Len(s) : k = j - 1
    BY <1>6
  <2>2. Documented!Place(l, n, k + 1)
    BY <1>1, <1>8, <2>1, Placed
  <2> QED
    BY <1>6, <2>1, <2>2
<1> DEFINE lower == {i \in DOMAIN s : Pri[s[i]] < Pri[n]}
<1>10. Documented!S!Min(lower \cup {Len(s) + 1}) = j
  <2>1. \A i \in 1 .. Len(s) : Pri[s[i]] \in Int /\ s[i] \in Nodes
    <3>1. \A i \in 1 .. Len(s) : s[i] \in Nodes
      BY <1>5 DEF Members
    <3> QED
      BY <3>1, ListAssumption
  <2>2. Pri[n] \in Int
    BY ListAssumption
  <2>3. j \in lower \cup {Len(s) + 1}
    <3>1. CASE j = Len(s) + 1
      BY <3>1
    <3>2. CASE j # Len(s) + 1
      <4>1. j \in 1 .. Len(s) /\ scan.next = s[j]
        BY <1>4, <1>5, <3>2 DEF At
      <4> QED
        BY <1>2, <1>5, <2>1, <2>2, <4>1 DEF Stop
    <3> QED
      BY <3>1, <3>2
  <2>4. \A i \in lower \cup {Len(s) + 1} : j <= i
    <3> SUFFICES ASSUME NEW i \in 1 .. Len(s), Pri[s[i]] < Pri[n] PROVE j <= i
      BY <1>5
    <3>1. ~ (i \in 1 .. j - 1)
      BY <1>4, <2>1, <2>2
    <3> QED
      BY <1>5, <3>1
  <2>5. \A i \in lower \cup {Len(s) + 1} : i \in Int
    BY <1>5
  <2>6. PICK T : T = lower \cup {Len(s) + 1}
    OBVIOUS
  <2> HIDE DEF lower
  <2>7. j \in T /\ \A i \in T : i \in Int /\ j <= i
    BY <2>3, <2>4, <2>5, <2>6
  <2>8. PICK least : least = CHOOSE x \in T : \A y \in T : x <= y
    OBVIOUS
  <2>9. least \in T /\ \A y \in T : least <= y
    BY <2>7, <2>8, Zenon
  <2> QED
    BY <2>6, <2>7, <2>8, <2>9 DEF Documented!S!Min
<1>11. [m \in Lists |-> Contents(m)][l] = s
  BY <1>1
<1> QED
  BY <1>9, <1>10, <1>11 DEF Documented!Enqueue

LEMMA StepAsDocumented ==
  ASSUME ListInv, OrderInv, ListInv', OrderInv', SearchInv, [ListNext]_listVars,
         NEW n \in Nodes, owner'[n] # owner[n], NEW l \in {owner[n], owner'[n]} \ {NULL}
  PROVE  /\ AddHead(l, n) => Documented!AddHead(l, n)
         /\ AddTail(l, n) => Documented!AddTail(l, n)
         /\ \A p \in Nodes : Insert(l, n, p) => Documented!Insert(l, n, p)
         /\ Enqueue(l, n) => Documented!Enqueue(l, n)
         /\ Remove(n) => Documented!Remove(n)
         /\ RemHead(l, n) => Documented!RemHead(l, n)
         /\ RemTail(l, n) => Documented!RemTail(l, n)
<1>1. l \in Lists
  BY DEF ListInv, ListTypeOK
<1>2. PICK s : s = Contents(l)
  OBVIOUS
<1>3. /\ Len(s) \in Nat /\ DOMAIN s = 1 .. Len(s) /\ s \in Seq(Members(l))
      /\ {s[i] : i \in 1 .. Len(s)} = Members(l)
      /\ \A i \in 0 .. Len(s) : succ[At(s, l, i)] = At(s, l, i + 1)
      /\ \A i \in 0 .. Len(s) : At(s, l, i) \in Front(l)
      /\ [m \in Lists |-> Contents(m)][l] = s
  BY <1>1, <1>2, ContentsSpell, AtInjective DEF Spells
<1>4. 0 \in 0 .. Len(s) /\ Len(s) \in 0 .. Len(s)
  BY <1>3
<1>5. \A i \in 0 .. Len(s) : Links(l, n, At(s, l, i)) => Documented!Place(l, n, i + 1)
  BY <1>1, <1>2, Placed
<1>6. \A i \in 1 .. Len(s) : Unlinks(s[i]) => ~ Documented!Free(s[i]) /\ Documented!Without(s[i])
  BY <1>1, <1>2, Withdrawn
<1>7. ASSUME AddHead(l, n)
      PROVE  Documented!AddHead(l, n)
  <2>1. Links(l, n, At(s, l, 0))
    BY <1>7 DEF AddHead, Adding, Ready, Links, At
  <2> QED
    BY <1>4, <1>5, <2>1 DEF Documented!AddHead
<1>8. ASSUME AddTail(l, n)
      PROVE  Documented!AddTail(l, n)
  <2>1. At(s, l, Len(s)) \in Members(l) \cup {HeadOf(l)} /\ succ[At(s, l, Len(s))] = TailOf(l)
    BY <1>3, <1>4 DEF At, Front
  <2>2. pred[TailOf(l)] = At(s, l, Len(s))
    BY <1>1, <2>1 DEF ListInv, Linked
  <2>3. Links(l, n, At(s, l, Len(s)))
    BY <1>8, <2>2 DEF AddTail, Adding, Ready, Links
  <2> QED
    BY <1>3, <1>4, <1>5, <2>3 DEF Documented!AddTail
<1>9. ASSUME NEW p \in Nodes, Insert(l, n, p)
      PROVE  Documented!Insert(l, n, p)
  <2>1. p \in Members(l) /\ Adding(l, n) /\ LinkAfter(p, n)
    BY <1>1, <1>9, CellsApart, ListAssumption DEF Insert, Cells
  <2>2. PICK i \in 1 .. Len(s) : s[i] = p
    BY <1>3, <2>1
  <2>3. At(s, l, i) = p /\ i \in 0 .. Len(s)
    BY <1>3, <2>2 DEF At
  <2>4. Links(l, n, At(s, l, i))
    BY <2>1, <2>3 DEF Adding, Ready, Links
  <2>5. Documented!Place(l, n, i + 1)
    BY <1>5, <2>3, <2>4
  <2> QED
    BY <1>3, <2>2, <2>5 DEF Documented!Insert
<1>10. ASSUME Enqueue(l, n)
       PROVE  Documented!Enqueue(l, n)
  BY <1>1, <1>10, EnqueuePlaces
<1>11. ASSUME Unlinks(n)
       PROVE  l = owner[n] /\ \E i \in 1 .. Len(s) : s[i] = n
  <2>1. owner'[n] = NULL
    BY <1>11 DEF Unlinks, ListInv, ListTypeOK
  <2>2. n \in Members(l)
    BY <1>11, <2>1 DEF Members
  <2> QED
    BY <1>3, <2>1, <2>2
<1>12. ASSUME Remove(n)
       PROVE  Documented!Remove(n)
  <2>1. Unlinks(n)
    BY <1>12 DEF Remove, Removing, Ready, Unlinks
  <2>2. PICK i \in 1 .. Len(s) : s[i] = n
    BY <1>11, <2>1
  <2> QED
    BY <1>6, <2>1, <2>2 DEF Documented!Remove
<1>13. ASSUME RemHead(l, n)
       PROVE  Documented!RemHead(l, n)
  <2>1. succ[succ[HeadOf(l)]] # NULL /\ n = succ[HeadOf(l)] /\ Removing(n)
    BY <1>13 DEF RemHead, listVars
  <2>2. n \in Members(l) /\ pred[n] = HeadOf(l)
    BY <1>1, <2>1 DEF ListInv, Linked
  <2>3. Unlinks(n)
    BY <1>13, <2>1, <2>2 DEF RemHead, Removing, Ready, Unlinks, Unlink
  <2>4. Len(s) # 0
    BY <1>3, <2>2
  <2>5. n = s[1] /\ 1 \in 1 .. Len(s)
    BY <1>3, <1>4, <2>1, <2>4 DEF At
  <2>6. Documented!Without(n)
    BY <1>6, <2>3, <2>5
  <2>7. s # <<>> /\ n = Head(s)
    BY <1>3, <2>4, <2>5
  <2> QED
    BY <1>3, <2>6, <2>7 DEF Documented!RemHead
<1>14. ASSUME RemTail(l, n)
       PROVE  Documented!RemTail(l, n)
  <2>1. GetTail(l) = IF Len(s) \in DOMAIN s THEN s[Len(s)] ELSE NULL
    BY <1>1, <1>2, LookupsRead
  <2>2. n # NULL
    BY ListAssumption DEF Cells
  <2>3. GetTail(l) # NULL /\ n = GetTail(l) /\ Removing(n) /\ Unlink(n)
    BY <1>14, <2>2 DEF RemTail
  <2>4. Len(s) \in 1 .. Len(s) /\ n = s[Len(s)]
    BY <1>3, <2>1, <2>3
  <2>5. Unlinks(n)
    BY <2>3 DEF Removing, Ready, Unlinks
  <2>6. Documented!Without(n)
    BY <1>6, <2>4, <2>5
  <2>7. s # <<>> /\ n = Documented!S!Last(s)
    BY <1>3, <2>4 DEF Documented!S!Last
  <2> QED
    BY <1>3, <2>6, <2>7 DEF Documented!RemTail
<1> QED
  BY <1>7, <1>8, <1>9, <1>10, <1>12, <1>13, <1>14

LEMMA DocumentedInit == ListInit => Documented!Init
<1> SUFFICES ASSUME ListInit PROVE Documented!Init
  OBVIOUS
<1>1. ListInv /\ OrderInv
  BY ListInvInit, OrderInit
<1>2. ASSUME NEW l \in Lists
      PROVE  Contents(l) = <<>>
  <2>1. Members(l) = {}
    BY <1>2, CellsApart DEF ListInit, Members
  <2>2. succ[HeadOf(l)] = TailOf(l)
    BY <1>1, <2>1 DEF ListInv, Linked
  <2>3. At(<<>>, l, 0) = HeadOf(l) /\ At(<<>>, l, 1) = TailOf(l)
    BY DEF At
  <2>4. <<>> \in Seq(Members(l)) /\ Len(<<>>) = 0 /\ 0 .. 0 = {0} /\ 0 + 1 = 1
    OBVIOUS
  <2>5. Spells(<<>>, l)
    BY <2>2, <2>3, <2>4 DEF Spells
  <2> QED
    BY <1>1, <1>2, <2>5, ContentsAre
<1> QED
  BY <1>2 DEF Documented!Init

\* Every call changes the sequences of nodes as NodeLists says, which is what
\* the documentation states: a node that Enqueue puts in goes before the first
\* of lower priority, behind those of its own.
THEOREM CallsDoAsDocumented == ListSpec => CallsAsDocumented
<1>1. ListInit => SearchInv
  BY DEF ListInit, SearchInv
<1>2. ListInv /\ OrderInv /\ SearchInv /\ [ListNext]_listVars => SearchInv'
  BY ListInvStep, OrderStep, SearchStep
<1>3. ListSpec => [](ListInv /\ OrderInv /\ SearchInv)
  BY <1>1, <1>2, ListInvInit, ListInvStep, OrderInit, OrderStep, PTL DEF ListSpec
<1>4. ListInv /\ OrderInv /\ SearchInv /\ [ListNext]_listVars =>
        [\A n \in Nodes : owner'[n] # owner[n] =>
           \A l \in {owner[n], owner'[n]} \ {NULL} :
             /\ AddHead(l, n) => Documented!AddHead(l, n)
             /\ AddTail(l, n) => Documented!AddTail(l, n)
             /\ \A p \in Nodes : Insert(l, n, p) => Documented!Insert(l, n, p)
             /\ Enqueue(l, n) => Documented!Enqueue(l, n)
             /\ Remove(n) => Documented!Remove(n)
             /\ RemHead(l, n) => Documented!RemHead(l, n)
             /\ RemTail(l, n) => Documented!RemTail(l, n)]_listVars
  <2> SUFFICES ASSUME ListInv, OrderInv, SearchInv, [ListNext]_listVars,
                      NEW n \in Nodes, owner'[n] # owner[n],
                      NEW l \in {owner[n], owner'[n]} \ {NULL}
               PROVE  /\ AddHead(l, n) => Documented!AddHead(l, n)
                      /\ AddTail(l, n) => Documented!AddTail(l, n)
                      /\ \A p \in Nodes : Insert(l, n, p) => Documented!Insert(l, n, p)
                      /\ Enqueue(l, n) => Documented!Enqueue(l, n)
                      /\ Remove(n) => Documented!Remove(n)
                      /\ RemHead(l, n) => Documented!RemHead(l, n)
                      /\ RemTail(l, n) => Documented!RemTail(l, n)
    BY Zenon
  <2>1. ListInv' /\ OrderInv'
    BY ListInvStep, OrderStep
  <2> QED
    BY <2>1, StepAsDocumented
<1> QED
  BY <1>3, <1>4, DocumentedInit, PTL DEF ListSpec, CallsAsDocumented

-----------------------------------------------------------------------------
(* Tag lists *)

IsItem(m, a) == m[a].tag \notin Control

LEMMA MemoryFacts ==
  ASSUME NEW m \in Memories
  PROVE  /\ Addresses \subseteq Nat /\ 0 \notin Addresses
         /\ \A a \in Addresses : /\ a + 1 \in Nat
                                 /\ m[a] \in TagItem /\ m[a].tag \in Nat /\ m[a].data \in Nat
<1>1. MemoryEnd \in Nat
  BY TagAssumption, Zenon
<1>2. \A a \in Addresses : m[a] \in TagItem
  BY Zenon DEF Memories
<1>3. Addresses \subseteq Nat /\ 0 \notin Addresses
  BY <1>1 DEF Addresses
<1> QED
  BY <1>2, <1>3 DEF TagItem

LEMMA TurnTyped ==
  ASSUME NEW m \in Memories
  PROVE  TagTurn(m) \in [Nat -> Nat]
<1> SUFFICES ASSUME NEW p \in Nat PROVE TagTurn(m)[p] \in Nat
  BY DEF TagTurn
<1>1. CASE p \notin Addresses
  BY <1>1 DEF TagTurn
<1>2. CASE p \in Addresses
  BY <1>2, MemoryFacts DEF TagTurn, TAG_DONE, TAG_IGNORE, TAG_MORE, TAG_SKIP
<1> QED
  BY <1>1, <1>2

LEMMA NextTyped ==
  ASSUME NEW m \in Memories, NEW p \in Nat
  PROVE  LET n == NextTagItem(m, p)
         IN  /\ n \in [item : Addresses \cup {0}, rest : Nat]
             /\ n.item # 0 => n.item \in Addresses /\ n.rest = n.item + 1
BY MemoryFacts, Zenon DEF NextTagItem

\* One place of the way through a list, for NextTagItem.
LEMMA NextAt ==
  ASSUME NEW m \in Memories, NEW p, NEW r, IsRoute(m, p, r), NEW i \in 1 .. Len(r)
  PROVE  /\ r[i] \in Addresses
         /\ i = Len(r) => NextTagItem(m, r[i]) = [item |-> 0, rest |-> 0]
         /\ i < Len(r) /\ ~ IsItem(m, r[i]) =>
              NextTagItem(m, r[i]) = NextTagItem(m, r[i + 1])
         /\ IsItem(m, r[i]) =>
              /\ i < Len(r)
              /\ NextTagItem(m, r[i]) = [item |-> r[i], rest |-> r[i + 1]]
<1> DEFINE next == TagTurn(m)
<1>1. next \in [Nat -> Nat]
  BY TurnTyped
<1>2. Len(r) \in Nat \ {0} /\ r \in [1 .. Len(r) -> Addresses]
  BY DEF IsRoute
<1>3. r[i] \in Addresses /\ r[i] \in Nat
  BY <1>2, MemoryFacts
<1>4. m[r[i]].tag \in Nat /\ m[r[i]].data \in Nat
  BY <1>3, MemoryFacts
<1>5. 0 \notin Addresses /\ 0 \in Nat
  BY MemoryFacts
<1>6. CASE i = Len(r)
  <2>1. m[r[i]].tag = TAG_DONE
    BY <1>6 DEF IsRoute
  <2>2. next[r[i]] = 0
    BY <1>3, <2>1 DEF TagTurn, TAG_DONE, TAG_IGNORE, TAG_MORE, TAG_SKIP
  <2>3. next[0] = 0
    BY <1>5 DEF TagTurn
  <2>4. Loop(next, 0) = 0
    BY <1>1, <1>5, <2>3, LoopTurns
  <2>5. Loop(next, r[i]) = 0
    BY <1>1, <1>3, <1>5, <2>2, <2>4, LoopTurns
  <2>6. ~ IsItem(m, r[i])
    BY <2>1 DEF IsItem, Control, TAG_DONE, TAG_SKIP
  <2> QED
    BY <1>3, <1>5, <1>6, <2>5, <2>6 DEF NextTagItem
<1>7. CASE i < Len(r) /\ ~ IsItem(m, r[i])
  <2>1. i \in 1 .. Len(r) - 1 /\ i + 1 \in 1 .. Len(r)
    BY <1>2, <1>7
  <2>2. m[r[i]].tag # TAG_DONE /\ r[i + 1] = Behind(m, r[i]) /\ r[i] # r[i + 1]
    BY <2>1 DEF IsRoute
  <2>3. next[r[i]] = r[i + 1]
    BY <1>3, <1>4, <1>7, <2>2
      DEF TagTurn, Behind, IsItem, Control, TAG_DONE, TAG_IGNORE, TAG_MORE, TAG_SKIP
  <2>4. Loop(next, r[i]) = Loop(next, r[i + 1])
    <3> HIDE DEF next
    <3>1. Loop(next, r[i]) = IF next[r[i]] = r[i] THEN r[i] ELSE Loop(next, next[r[i]])
      BY <1>1, <1>3, LoopTurns
    <3> QED
      BY <2>2, <2>3, <3>1, Zenon
  <2> QED
    BY <1>3, <1>7, <2>4 DEF NextTagItem
<1>8. CASE IsItem(m, r[i])
  <2>1. next[r[i]] = r[i]
    BY <1>3, <1>4, <1>8 DEF TagTurn, IsItem, Control, TAG_DONE, TAG_IGNORE, TAG_MORE, TAG_SKIP
  <2>2. Loop(next, r[i]) = r[i]
    BY <1>1, <1>3, <2>1, LoopTurns
  <2>3. i # Len(r)
    BY <1>8 DEF IsItem, IsRoute, Control, TAG_DONE, TAG_SKIP
  <2>4. i \in 1 .. Len(r) - 1 /\ i < Len(r)
    <3> DEFINE K == Len(r)
    <3>1. K \in Nat /\ i \in 1 .. K /\ i # K
      BY <1>2, <2>3
    <3> HIDE DEF K
    <3>2. i \in 1 .. K - 1 /\ i < K
      BY <3>1
    <3> QED
      BY <3>2 DEF K
  <2>5. r[i + 1] = r[i] + 1
    BY <1>4, <1>8, <2>4
      DEF IsRoute, Behind, IsItem, Control, TAG_DONE, TAG_IGNORE, TAG_MORE, TAG_SKIP
  <2> QED
    BY <1>3, <1>8, <2>2, <2>4, <2>5 DEF NextTagItem
<1> QED
  BY <1>2, <1>3, <1>6, <1>7, <1>8

\* Where the next item is.
LEMMA NextIsAhead ==
  ASSUME NEW m \in Memories, NEW p, NEW r, IsRoute(m, p, r), NEW i \in 1 .. Len(r)
  PROVE  \/ NextTagItem(m, r[i]) = [item |-> 0, rest |-> 0]
         \/ \E j \in i .. Len(r) - 1 :
              /\ IsItem(m, r[j])
              /\ NextTagItem(m, r[i]) = [item |-> r[j], rest |-> r[j + 1]]
<1> DEFINE K == Len(r)
           Comes(k) == \/ NextTagItem(m, r[k]) = [item |-> 0, rest |-> 0]
                       \/ \E j \in k .. K - 1 :
                            /\ IsItem(m, r[j])
                            /\ NextTagItem(m, r[k]) = [item |-> r[j], rest |-> r[j + 1]]
           S == {n \in 0 .. K - 1 : Comes(K - n)}
<1>1. K \in Nat \ {0}
  BY DEF IsRoute
<1> HIDE DEF K
<1>2. \A k \in 1 .. K :
        /\ k = K => NextTagItem(m, r[k]) = [item |-> 0, rest |-> 0]
        /\ k < K /\ ~ IsItem(m, r[k]) => NextTagItem(m, r[k]) = NextTagItem(m, r[k + 1])
        /\ IsItem(m, r[k]) =>
              /\ k < K
              /\ NextTagItem(m, r[k]) = [item |-> r[k], rest |-> r[k + 1]]
  BY NextAt DEF K
<1>3. 0 \in S
  <2>1. K - 0 = K /\ 0 \in 0 .. K - 1 /\ K \in 1 .. K
    BY <1>1
  <2> QED
    BY <1>2, <2>1
<1>4. ASSUME NEW n \in 0 .. K - 1 - 1, n \in S PROVE n + 1 \in S
  <2> DEFINE k == K - (n + 1)
  <2>1. k \in 1 .. K /\ k < K /\ k + 1 = K - n /\ n + 1 \in 0 .. K - 1
    BY <1>1
  <2>2. Comes(k + 1)
    BY <1>4, <2>1
  <2> HIDE DEF k
  <2>5. Comes(k)
    <3>1. CASE IsItem(m, r[k])
      <4>1. k \in k .. K - 1
        BY <1>1, <2>1
      <4>2. NextTagItem(m, r[k]) = [item |-> r[k], rest |-> r[k + 1]]
        BY <1>2, <2>1, <3>1, Zenon
      <4> QED
        BY <3>1, <4>1, <4>2, Zenon
    <3>2. CASE ~ IsItem(m, r[k])
      <4>1. \A j \in k + 1 .. K - 1 : j \in k .. K - 1
        BY <1>1, <2>1
      <4>2. NextTagItem(m, r[k]) = NextTagItem(m, r[k + 1])
        BY <1>2, <2>1, <3>2, Zenon
      <4> QED
        BY <2>2, <4>1, <4>2, Zenon
    <3> QED
      BY <3>1, <3>2
  <2>6. Comes(K - (n + 1))
    BY <2>5 DEF k
  <2> HIDE DEF Comes
  <2> QED
    BY <2>1, <2>6
<1>5. 0 .. K - 1 \subseteq S
  <2> HIDE DEF S
  <2> QED
    BY <1>1, <1>3, <1>4, IntervalInduction
<1>6. K - i \in 0 .. K - 1 /\ K - (K - i) = i
  BY <1>1 DEF K
<1>7. Comes(i)
  BY <1>5, <1>6
<1> QED
  BY <1>7 DEF K

-----------------------------------------------------------------------------
(* Loops over the items of a list *)

LEMMA RouteFacts ==
  ASSUME NEW m, NEW p, NEW r, IsRoute(m, p, r)
  PROVE  /\ Len(r) \in Nat \ {0} /\ 1 \in 1 .. Len(r) /\ Len(r) \in 1 .. Len(r) /\ r[1] = p
         /\ r \in [1 .. Len(r) -> Addresses]
         /\ \A i, j \in 1 .. Len(r) : r[i] = r[j] => i = j
BY DEF IsRoute

Changing(body) ==
  [y \in [mem : Memories, at : Nat] |->
     LET n == NextTagItem(y.mem, y.at)
     IN  IF n.item = 0 THEN y
         ELSE [mem |-> body[y.mem][n.item], at |-> n.rest]]

LEMMA ChangingTyped ==
  ASSUME NEW body \in [Memories -> [Addresses -> Memories]]
  PROVE  Changing(body) \in [[mem : Memories, at : Nat] -> [mem : Memories, at : Nat]]
<1> SUFFICES ASSUME NEW y \in [mem : Memories, at : Nat]
             PROVE  Changing(body)[y] \in [mem : Memories, at : Nat]
  BY DEF Changing
<1>1. y.mem \in Memories /\ y.at \in Nat
  OBVIOUS
<1> DEFINE n == NextTagItem(y.mem, y.at)
<1>2. n.rest \in Nat /\ (n.item # 0 => n.item \in Addresses)
  BY <1>1, NextTyped
<1>3. Changing(body)[y] = IF n.item = 0 THEN y ELSE [mem |-> body[y.mem][n.item], at |-> n.rest]
  BY DEF Changing
<1> HIDE DEF n
<1> QED
  BY <1>1, <1>2, <1>3

\* One place of the way through a list, for a loop that changes items.
LEMMA ForEachAt ==
  ASSUME NEW m \in Memories, NEW p, NEW r, IsRoute(m, p, r), NEW i \in 1 .. Len(r),
         NEW body \in [Memories -> [Addresses -> Memories]]
  PROVE  /\ i = Len(r) => ForEachItem(m, r[i], body) = m
         /\ i < Len(r) /\ ~ IsItem(m, r[i]) =>
              ForEachItem(m, r[i], body) = ForEachItem(m, r[i + 1], body)
         /\ IsItem(m, r[i]) =>
              ForEachItem(m, r[i], body) = ForEachItem(body[m][r[i]], r[i + 1], body)
<1> DEFINE D == [mem : Memories, at : Nat]
           next == Changing(body)
           x == [mem |-> m, at |-> r[i]]
           n == NextTagItem(m, r[i])
<1>1. next \in [D -> D]
  BY ChangingTyped
<1>2. \A m2, q : ForEachItem(m2, q, body) = Loop(next, [mem |-> m2, at |-> q]).mem
  BY DEF ForEachItem, Changing
<1>3. r \in [1 .. Len(r) -> Addresses] /\ Len(r) \in Nat
  BY RouteFacts
<1>4. Addresses \subseteq Nat
  BY MemoryFacts
<1>5. r[i] \in Addresses /\ x \in D
  BY <1>3, <1>4
<1>6. next[x] = IF n.item = 0 THEN x ELSE [mem |-> body[m][n.item], at |-> n.rest]
  BY <1>5 DEF Changing
<1>7. Loop(next, x) = IF next[x] = x THEN x ELSE Loop(next, next[x])
  BY <1>1, <1>5, LoopTurns
<1> HIDE DEF next
<1>8. ASSUME i = Len(r) PROVE ForEachItem(m, r[i], body) = m
  <2>a. n = [item |-> 0, rest |-> 0]
    BY <1>8, NextAt
  <2>1. n.item = 0
    BY <2>a
  <2> QED
    BY <1>2, <1>6, <1>7, <2>1
<1>9. ASSUME i < Len(r), ~ IsItem(m, r[i])
      PROVE  ForEachItem(m, r[i], body) = ForEachItem(m, r[i + 1], body)
  <2> DEFINE y == [mem |-> m, at |-> r[i + 1]]
  <2>a. i + 1 \in 1 .. Len(r)
    BY <1>3, <1>9
  <2>b. r[i + 1] \in Addresses
    BY <1>3, <2>a
  <2>1. i + 1 \in 1 .. Len(r) /\ r[i + 1] \in Addresses /\ y \in D
    BY <1>4, <2>a, <2>b
  <2>2. NextTagItem(m, r[i + 1]) = n
    BY <1>9, NextAt
  <2>3. next[y] = IF n.item = 0 THEN y ELSE [mem |-> body[m][n.item], at |-> n.rest]
    BY <2>1, <2>2 DEF Changing, next
  <2>4. CASE n.item = 0
    <3>1. Loop(next, x) = x
      BY <1>6, <1>7, <2>4
    <3>2. Loop(next, y) = IF next[y] = y THEN y ELSE Loop(next, next[y])
      BY <1>1, <2>1, LoopTurns
    <3>3. Loop(next, y) = y
      BY <2>3, <2>4, <3>2
    <3> QED
      BY <1>2, <3>1, <3>3
  <2>5. CASE n.item # 0
    <3>a. \/ NextTagItem(m, r[i + 1]) = [item |-> 0, rest |-> 0]
          \/ \E j \in i + 1 .. Len(r) - 1 :
               NextTagItem(m, r[i + 1]) = [item |-> r[j], rest |-> r[j + 1]]
      BY <2>a, NextIsAhead
    <3>b. NextTagItem(m, r[i + 1]) # [item |-> 0, rest |-> 0]
      BY <2>2, <2>5
    <3>c. PICK j \in i + 1 .. Len(r) - 1 :
            NextTagItem(m, r[i + 1]) = [item |-> r[j], rest |-> r[j + 1]]
      BY <3>a, <3>b
    <3>1. n.rest = r[j + 1]
      BY <2>2, <3>c
    <3>2. j + 1 \in 1 .. Len(r) /\ j + 1 # i
      BY <1>3
    <3>3. n.rest # r[i]
      BY <3>1, <3>2, RouteFacts
    <3>4. next[x] # x /\ next[x] = next[y]
      BY <1>6, <2>3, <2>5, <3>3
    <3>5. Loop(next, x) = Loop(next, y)
      <4>1. x \in D /\ y \in D
        BY <1>5, <2>1
      <4> HIDE DEF x, y, D
      <4> QED
        BY <1>1, <3>4, <4>1, LoopMeets
    <3> QED
      BY <1>2, <3>5
  <2> QED
    BY <2>4, <2>5
<1>10. ASSUME IsItem(m, r[i])
       PROVE  ForEachItem(m, r[i], body) = ForEachItem(body[m][r[i]], r[i + 1], body)
  <2>a. n = [item |-> r[i], rest |-> r[i + 1]] /\ i < Len(r)
    BY <1>10, NextAt
  <2>1. n.item = r[i] /\ n.rest = r[i + 1] /\ i < Len(r)
    BY <2>a
  <2>2. i + 1 \in 1 .. Len(r) /\ i + 1 # i
    BY <1>3, <2>1
  <2>3. r[i + 1] # r[i]
    BY <2>2, RouteFacts
  <2>4. 0 \notin Addresses
    BY MemoryFacts
  <2>5. next[x] = [mem |-> body[m][r[i]], at |-> r[i + 1]] /\ next[x] # x
    BY <1>5, <1>6, <2>1, <2>3, <2>4
  <2> QED
    BY <1>2, <1>7, <2>5
<1> QED
  BY <1>8, <1>9, <1>10

\* X[i] are the memories that may be when the loop is at the i-th place.
LEMMA ForEachReaches ==
  ASSUME NEW p, NEW r, Len(r) \in Nat \ {0},
         NEW body \in [Memories -> [Addresses -> Memories]],
         NEW X \in [1 .. Len(r) -> SUBSET Memories],
         \A i \in 1 .. Len(r) : \A m \in X[i] :
           /\ IsRoute(m, p, r)
           /\ i < Len(r) /\ ~ IsItem(m, r[i]) => m \in X[i + 1]
           /\ IsItem(m, r[i]) /\ i < Len(r) => body[m][r[i]] \in X[i + 1],
         NEW m0 \in X[1]
  PROVE  ForEachItem(m0, p, body) \in X[Len(r)]
<1> DEFINE K == Len(r)
           Same(i, m) == ForEachItem(m0, p, body) = ForEachItem(m, r[i], body)
           S == {n \in 0 .. K - 1 : \E m \in X[n + 1] : Same(n + 1, m)}
<1>1. K \in Nat \ {0}
  OBVIOUS
<1> HIDE DEF K
<1>2. \A i \in 1 .. K : \A m \in X[i] :
        /\ m \in Memories
        /\ IsRoute(m, p, r)
        /\ i = K => ForEachItem(m, r[i], body) = m
        /\ i < K => \E m2 \in X[i + 1] :
                      ForEachItem(m, r[i], body) = ForEachItem(m2, r[i + 1], body)
  <2> SUFFICES ASSUME NEW i \in 1 .. Len(r), NEW m \in X[i]
               PROVE  /\ m \in Memories
                      /\ IsRoute(m, p, r)
                      /\ i = Len(r) => ForEachItem(m, r[i], body) = m
                      /\ i < Len(r) => \E m2 \in X[i + 1] :
                           ForEachItem(m, r[i], body) = ForEachItem(m2, r[i + 1], body)
    BY DEF K
  <2>1. m \in Memories /\ IsRoute(m, p, r)
    OBVIOUS
  <2>2. /\ i = Len(r) => ForEachItem(m, r[i], body) = m
        /\ i < Len(r) /\ ~ IsItem(m, r[i]) =>
              ForEachItem(m, r[i], body) = ForEachItem(m, r[i + 1], body)
        /\ IsItem(m, r[i]) =>
              ForEachItem(m, r[i], body) = ForEachItem(body[m][r[i]], r[i + 1], body)
    BY <2>1, ForEachAt
  <2>3. ASSUME i < Len(r)
        PROVE  \E m2 \in X[i + 1] :
                 ForEachItem(m, r[i], body) = ForEachItem(m2, r[i + 1], body)
    <3>1. CASE IsItem(m, r[i])
      BY <2>2, <2>3, <3>1
    <3>2. CASE ~ IsItem(m, r[i])
      BY <2>2, <2>3, <3>2
    <3> QED
      BY <3>1, <3>2
  <2> QED
    BY <2>1, <2>2, <2>3
<1>3. 0 \in S
  <2>1. 0 \in 0 .. K - 1 /\ 0 + 1 = 1 /\ 1 \in 1 .. K
    BY <1>1
  <2>2. r[1] = p
    BY <1>2, <2>1, RouteFacts
  <2>3. Same(0 + 1, m0) /\ m0 \in X[0 + 1]
    BY <2>1, <2>2
  <2> HIDE DEF Same
  <2> QED
    BY <2>1, <2>3
<1>4. ASSUME NEW n \in 0 .. K - 1 - 1, n \in S PROVE n + 1 \in S
  <2>1. n + 1 \in 1 .. K /\ n + 1 < K /\ n + 1 \in 0 .. K - 1
    BY <1>1
  <2>2. PICK m \in X[n + 1] : Same(n + 1, m)
    BY <1>4
  <2>3. PICK m2 \in X[n + 1 + 1] :
          ForEachItem(m, r[n + 1], body) = ForEachItem(m2, r[n + 1 + 1], body)
    BY <1>2, <2>1, <2>2, Zenon
  <2>4. Same(n + 1 + 1, m2)
    BY <2>2, <2>3, Zenon
  <2> HIDE DEF Same
  <2> QED
    BY <2>1, <2>3, <2>4
<1>5. 0 .. K - 1 \subseteq S
  <2>1. K - 1 \in Nat
    BY <1>1
  <2> HIDE DEF S
  <2> QED
    BY <1>3, <1>4, <2>1, IntervalInduction
<1>6. K - 1 \in 0 .. K - 1 /\ K - 1 + 1 = K /\ K \in 1 .. K
  BY <1>1
<1>7. PICK m \in X[K - 1 + 1] : Same(K - 1 + 1, m)
  BY <1>5, <1>6
<1>8. m \in X[K] /\ Same(K, m)
  BY <1>6, <1>7
<1>9. ForEachItem(m, r[K], body) = m
  BY <1>2, <1>6, <1>8
<1> QED
  BY <1>8, <1>9 DEF K

-----------------------------------------------------------------------------
(* FindTagItem and GetTagData *)

Searching(m, tag) ==
  [q \in Nat |->
     LET n == NextTagItem(m, q)
     IN  IF n.item = 0 \/ m[n.item].tag = tag THEN n.item ELSE n.rest]

LEMMA SearchingFacts ==
  ASSUME NEW m \in Memories, NEW tag
  PROVE  LET next == Searching(m, tag)
         IN  next \in [Nat -> Nat] /\ next[0] = 0 /\ Loop(next, 0) = 0
<1> DEFINE next == Searching(m, tag)
           Goes(k) == IF k.item = 0 \/ m[k.item].tag = tag THEN k.item ELSE k.rest
<1>1. next \in [Nat -> Nat]
  <2> SUFFICES ASSUME NEW q \in Nat PROVE Goes(NextTagItem(m, q)) \in Nat
    BY DEF Searching
  <2> DEFINE k == NextTagItem(m, q)
  <2>1. k.rest \in Nat /\ (k.item = 0 \/ k.item \in Addresses)
    BY NextTyped
  <2>2. Addresses \subseteq Nat /\ 0 \in Nat
    BY MemoryFacts
  <2> HIDE DEF k
  <2>3. Goes(k) \in Nat
    BY <2>1, <2>2, Zenon
  <2> QED
    BY <2>3 DEF k
<1>2. 0 \notin Addresses
  BY MemoryFacts
<1>3. next[0] = 0 /\ Loop(next, 0) = 0
  <2> DEFINE k == NextTagItem(m, 0)
  <2>1. Loop(TagTurn(m), 0) = 0
    <3>1. TagTurn(m)[0] = 0
      BY <1>2 DEF TagTurn
    <3>2. TagTurn(m) \in [Nat -> Nat]
      BY TurnTyped
    <3> QED
      BY <3>1, <3>2, LoopTurns
  <2>2. k = [item |-> 0, rest |-> 0]
    BY <1>2, <2>1 DEF NextTagItem
  <2>3. Goes(k) = 0
    BY <2>2
  <2>4. next[0] = Goes(k)
    BY DEF Searching
  <2>5. next[0] = 0
    BY <2>3, <2>4
  <2> HIDE DEF next
  <2> QED
    BY <1>1, <2>5, LoopTurns
<1> QED
  BY <1>1, <1>3

LEMMA FindEnds ==
  ASSUME NEW m \in Memories, NEW p, NEW r, IsRoute(m, p, r), NEW tag
  PROVE  FindTagItem(m, tag, r[Len(r)]) = 0
<1> DEFINE next == Searching(m, tag)
           q == r[Len(r)]
           n == NextTagItem(m, q)
<1>1. next \in [Nat -> Nat] /\ Loop(next, 0) = 0
  BY SearchingFacts
<1>2. FindTagItem(m, tag, q) = Loop(next, q)
  BY DEF FindTagItem, Searching
<1>3. Len(r) \in 1 .. Len(r)
  BY RouteFacts
<1>4. q \in Addresses /\ n = [item |-> 0, rest |-> 0]
  BY <1>3, NextAt
<1>5. q \in Nat /\ q # 0
  BY <1>4, MemoryFacts
<1>6. next[q] = 0
  BY <1>4, <1>5 DEF Searching
<1>7. Loop(next, q) = IF next[q] = q THEN q ELSE Loop(next, next[q])
  BY <1>1, <1>5, LoopTurns
<1> HIDE DEF next, q
<1> QED
  BY <1>1, <1>2, <1>5, <1>6, <1>7 DEF q

\* One place of the way through a list, for FindTagItem.
LEMMA FindAt ==
  ASSUME NEW m \in Memories, NEW p, NEW r, IsRoute(m, p, r), NEW i \in 1 .. Len(r), NEW tag
  PROVE  /\ i < Len(r) /\ ~ IsItem(m, r[i]) =>
              FindTagItem(m, tag, r[i]) = FindTagItem(m, tag, r[i + 1])
         /\ IsItem(m, r[i]) /\ m[r[i]].tag = tag => FindTagItem(m, tag, r[i]) = r[i]
         /\ IsItem(m, r[i]) /\ m[r[i]].tag # tag =>
              FindTagItem(m, tag, r[i]) = FindTagItem(m, tag, r[i + 1])
<1> DEFINE next == Searching(m, tag)
           n == NextTagItem(m, r[i])
           Goes(k) == IF k.item = 0 \/ m[k.item].tag = tag THEN k.item ELSE k.rest
<1>1. next \in [Nat -> Nat]
  BY SearchingFacts
<1>2. \A q : FindTagItem(m, tag, q) = Loop(next, q)
  BY DEF FindTagItem, Searching
<1>3. r \in [1 .. Len(r) -> Addresses] /\ Len(r) \in Nat
  BY RouteFacts
<1>4. Addresses \subseteq Nat /\ 0 \notin Addresses
  BY MemoryFacts
<1>5. r[i] \in Addresses /\ r[i] \in Nat
  BY <1>3, <1>4
<1>6. next[r[i]] = Goes(n)
  BY <1>5, Zenon DEF Searching
<1>7. Loop(next, r[i]) = IF next[r[i]] = r[i] THEN r[i] ELSE Loop(next, next[r[i]])
  BY <1>1, <1>5, LoopTurns
<1> HIDE DEF next
<1>8. ASSUME i < Len(r), ~ IsItem(m, r[i])
       PROVE  FindTagItem(m, tag, r[i]) = FindTagItem(m, tag, r[i + 1])
  <2>1. i + 1 \in 1 .. Len(r) /\ r[i + 1] \in Addresses /\ r[i + 1] \in Nat
    <3>1. i + 1 \in 1 .. Len(r)
      BY <1>3, <1>8
    <3> QED
      BY <1>3, <1>4, <3>1
  <2>2. NextTagItem(m, r[i + 1]) = n
    BY <1>8, NextAt
  <2>3. next[r[i + 1]] = next[r[i]]
    <3>1. next[r[i + 1]] = Goes(NextTagItem(m, r[i + 1]))
      BY <2>1, Zenon DEF Searching, next
    <3> QED
      BY <1>6, <2>2, <3>1, Zenon
  <2>4. next[r[i]] # r[i]
    <3>1. \/ NextTagItem(m, r[i + 1]) = [item |-> 0, rest |-> 0]
          \/ \E j \in i + 1 .. Len(r) - 1 :
               NextTagItem(m, r[i + 1]) = [item |-> r[j], rest |-> r[j + 1]]
      BY <2>1, NextIsAhead
    <3>2. CASE n = [item |-> 0, rest |-> 0]
      <4>1. Goes(n) = 0
        BY <3>2
      <4> QED
        BY <1>4, <1>5, <1>6, <4>1
    <3>3. CASE \E j \in i + 1 .. Len(r) - 1 : n = [item |-> r[j], rest |-> r[j + 1]]
      <4>1. PICK j \in i + 1 .. Len(r) - 1 : n = [item |-> r[j], rest |-> r[j + 1]]
        BY <3>3
      <4>2. Goes(n) \in {r[j], r[j + 1]}
        BY <4>1
      <4>3. j \in 1 .. Len(r) /\ j + 1 \in 1 .. Len(r) /\ j # i /\ j + 1 # i
        BY <1>3
      <4>4. r[j] # r[i] /\ r[j + 1] # r[i]
        BY <4>3, RouteFacts
      <4> QED
        BY <1>6, <4>2, <4>4
    <3> QED
      BY <2>2, <3>1, <3>2, <3>3
  <2>5. Loop(next, r[i]) = Loop(next, r[i + 1])
    <3> DEFINE x == r[i]
               y == r[i + 1]
    <3>1. x \in Nat /\ y \in Nat /\ next[x] = next[y] /\ next[x] # x
      BY <1>5, <2>1, <2>3, <2>4
    <3> HIDE DEF x, y
    <3>2. Loop(next, x) = Loop(next, y)
      BY <1>1, <3>1, LoopMeets
    <3> QED
      BY <3>2 DEF x, y
  <2> QED
    BY <1>2, <2>5
<1>9. ASSUME IsItem(m, r[i])
       PROVE  /\ m[r[i]].tag = tag => FindTagItem(m, tag, r[i]) = r[i]
              /\ m[r[i]].tag # tag =>
                   FindTagItem(m, tag, r[i]) = FindTagItem(m, tag, r[i + 1])
  <2>1. n = [item |-> r[i], rest |-> r[i + 1]] /\ i < Len(r)
    BY <1>9, NextAt
  <2>2. Goes(n) = IF m[r[i]].tag = tag THEN r[i] ELSE r[i + 1]
    BY <1>4, <1>5, <2>1
  <2>3. i + 1 \in 1 .. Len(r) /\ i + 1 # i
    BY <1>3, <2>1
  <2>4. r[i + 1] # r[i]
    BY <2>3, RouteFacts
  <2> QED
    BY <1>2, <1>6, <1>7, <2>2, <2>4
<1> QED
  BY <1>8, <1>9

\* a is the first item of the way r with the tag, or 0.
Finds(m, r, tag, a) ==
  LET hits(j) == IsItem(m, r[j]) /\ m[r[j]].tag = tag
  IN  \/ a = 0 /\ \A j \in 1 .. Len(r) : ~ hits(j)
      \/ \E j \in 1 .. Len(r) : a = r[j] /\ hits(j) /\ \A k \in 1 .. j - 1 : ~ hits(k)

LEMMA FindIs ==
  ASSUME NEW m \in Memories, NEW p, NEW r, IsRoute(m, p, r), NEW tag
  PROVE  Finds(m, r, tag, FindTagItem(m, tag, p))
<1> DEFINE K == Len(r)
           F(q) == FindTagItem(m, tag, q)
           hits(j) == IsItem(m, r[j]) /\ m[r[j]].tag = tag
           Missed(n) == F(p) = F(r[n + 1]) /\ \A k \in 1 .. n : ~ hits(k)
           S == {n \in 0 .. K - 1 : Missed(n) \/ Finds(m, r, tag, F(p))}
<1>1. K \in Nat \ {0} /\ K - 1 \in Nat /\ r[1] = p
  BY RouteFacts
<1>2. \A i \in 1 .. K :
        /\ i = K => F(r[i]) = 0
        /\ hits(i) => F(r[i]) = r[i] /\ i < K
        /\ i < K /\ ~ hits(i) => F(r[i]) = F(r[i + 1])
  <2> SUFFICES ASSUME NEW i \in 1 .. K
               PROVE  /\ i = K => F(r[i]) = 0
                      /\ hits(i) => F(r[i]) = r[i] /\ i < K
                      /\ i < K /\ ~ hits(i) => F(r[i]) = F(r[i + 1])
    OBVIOUS
  <2>1. IsItem(m, r[i]) => i < K
    BY NextAt
  <2>2. ASSUME i = K PROVE F(r[i]) = 0
    BY <2>2, FindEnds
  <2>3. i < K /\ ~ IsItem(m, r[i]) => F(r[i]) = F(r[i + 1])
    BY FindAt
  <2>4. IsItem(m, r[i]) /\ m[r[i]].tag = tag => F(r[i]) = r[i]
    BY FindAt
  <2>5. IsItem(m, r[i]) /\ m[r[i]].tag # tag => F(r[i]) = F(r[i + 1])
    BY FindAt
  <2> QED
    BY <2>1, <2>2, <2>3, <2>4, <2>5, Zenon
<1>3. ASSUME NEW n \in 0 .. K - 1, Missed(n), hits(n + 1)
      PROVE  Finds(m, r, tag, F(p))
  <2>1. n + 1 \in 1 .. K /\ n + 1 - 1 = n
    BY <1>1
  <2>2. F(p) = r[n + 1]
    BY <1>2, <1>3, <2>1
  <2> HIDE DEF F
  <2> QED
    BY <1>3, <2>1, <2>2 DEF Finds
<1> HIDE DEF K
<1>4. 0 \in S
  <2>1. 0 + 1 = 1 /\ 0 \in 0 .. K - 1
    BY <1>1
  <2> QED
    BY <1>1, <2>1
<1>5. ASSUME NEW n \in 0 .. K - 1 - 1, n \in S PROVE n + 1 \in S
  <2>1. n + 1 \in 1 .. K /\ n + 1 < K /\ n + 1 \in 0 .. K - 1 /\ n \in 0 .. K - 1
    BY <1>1
  <2>2. Missed(n) /\ ~ hits(n + 1) => Missed(n + 1)
    <3> SUFFICES ASSUME Missed(n), ~ hits(n + 1) PROVE Missed(n + 1)
      OBVIOUS
    <3>1. F(r[n + 1]) = F(r[n + 1 + 1])
      BY <1>2, <2>1, Zenon
    <3>2. \A k \in 1 .. n + 1 : k \in 1 .. n \/ k = n + 1
      BY <2>1
    <3> HIDE DEF F, hits
    <3> QED
      BY <3>1, <3>2, Zenon
  <2> HIDE DEF F, hits, Missed
  <2> QED
    BY <1>3, <1>5, <2>1, <2>2
<1>6. 0 .. K - 1 \subseteq S
  <2> HIDE DEF S
  <2> QED
    BY <1>1, <1>4, <1>5, IntervalInduction
<1>7. K - 1 \in 0 .. K - 1 /\ K - 1 + 1 = K /\ K \in 1 .. K
  BY <1>1
<1>8. Missed(K - 1) \/ Finds(m, r, tag, F(p))
  BY <1>6, <1>7
<1>9. ASSUME Missed(K - 1), ~ hits(K)
      PROVE  Finds(m, r, tag, F(p))
  <2>1. F(p) = 0
    BY <1>2, <1>7, <1>9
  <2>2. \A k \in 1 .. K : k \in 1 .. K - 1 \/ k = K
    BY <1>1
  <2> HIDE DEF F
  <2>3. \A k \in 1 .. Len(r) : ~ hits(k)
    BY <1>9, <2>2 DEF K
  <2> QED
    BY <2>1, <2>3, Zenon DEF Finds
<1> QED
  BY <1>3, <1>7, <1>8, <1>9

\* There is one such item only.
LEMMA FindsOne ==
  ASSUME NEW m, NEW m2, NEW r, Len(r) \in Nat, NEW tag, NEW a, NEW b,
         \A j \in 1 .. Len(r) : m2[r[j]].tag = m[r[j]].tag,
         Finds(m, r, tag, a), Finds(m2, r, tag, b)
  PROVE  a = b
<1> DEFINE hits(j) == IsItem(m, r[j]) /\ m[r[j]].tag = tag
<1>1. \A j \in 1 .. Len(r) : (IsItem(m2, r[j]) /\ m2[r[j]].tag = tag) <=> hits(j)
  BY DEF IsItem
<1>2. \/ a = 0 /\ \A j \in 1 .. Len(r) : ~ hits(j)
      \/ \E j \in 1 .. Len(r) : a = r[j] /\ hits(j) /\ \A k \in 1 .. j - 1 : ~ hits(k)
  BY DEF Finds
<1>3. \A j \in 1 .. Len(r) : \A k \in 1 .. j - 1 : k \in 1 .. Len(r)
  OBVIOUS
<1>4. \/ b = 0 /\ \A j \in 1 .. Len(r) : ~ hits(j)
      \/ \E j \in 1 .. Len(r) : b = r[j] /\ hits(j) /\ \A k \in 1 .. j - 1 : ~ hits(k)
  BY <1>1, <1>3, Zenon DEF Finds
<1> HIDE DEF hits
<1>5. CASE a = 0 /\ \A j \in 1 .. Len(r) : ~ hits(j)
  BY <1>4, <1>5
<1>6. CASE \E j \in 1 .. Len(r) : a = r[j] /\ hits(j) /\ \A k \in 1 .. j - 1 : ~ hits(k)
  <2>1. PICK i \in 1 .. Len(r) : a = r[i] /\ hits(i) /\ \A k \in 1 .. i - 1 : ~ hits(k)
    BY <1>6
  <2>2. PICK j \in 1 .. Len(r) : b = r[j] /\ hits(j) /\ \A k \in 1 .. j - 1 : ~ hits(k)
    BY <1>4, <2>1
  <2>3. i = j
    BY <2>1, <2>2
  <2> QED
    BY <2>1, <2>2, <2>3
<1> QED
  BY <1>2, <1>5, <1>6

\* The answer depends on the items of the list alone.
LEMMA FindSame ==
  ASSUME NEW m \in Memories, NEW m2 \in Memories, NEW p, NEW r,
         IsRoute(m, p, r), IsRoute(m2, p, r), NEW tag,
         \A j \in 1 .. Len(r) : m2[r[j]].tag = m[r[j]].tag
  PROVE  FindTagItem(m2, tag, p) = FindTagItem(m, tag, p)
BY RouteFacts, FindIs, FindsOne

LEMMA GetSame ==
  ASSUME NEW m \in Memories, NEW m2 \in Memories, NEW p, NEW r,
         IsRoute(m, p, r), IsRoute(m2, p, r), NEW tag, NEW default,
         \A j \in 1 .. Len(r) : m2[r[j]] = m[r[j]]
  PROVE  GetTagData(m2, tag, default, p) = GetTagData(m, tag, default, p)
<1>1. FindTagItem(m2, tag, p) = FindTagItem(m, tag, p)
  BY FindSame
<1> DEFINE a == FindTagItem(m, tag, p)
<1>2. a = 0 \/ \E j \in 1 .. Len(r) : a = r[j]
  BY FindIs DEF Finds
<1>3. 0 \notin Addresses
  BY MemoryFacts
<1>4. a \in Addresses => m2[a] = m[a]
  BY <1>2, <1>3
<1> QED
  BY <1>1, <1>4, Zenon DEF GetTagData

-----------------------------------------------------------------------------
(* What a list holds *)

\* P[i] is what the list holds before its i-th place.
Prefixes(m, r, P) ==
  /\ P \in [1 .. Len(r) -> Seq(TagItem)] /\ P[1] = <<>>
  /\ \A i \in 1 .. Len(r) - 1 :
       P[i + 1] = IF IsItem(m, r[i]) THEN Append(P[i], m[r[i]]) ELSE P[i]

LEMMA PrefixesExist ==
  ASSUME NEW m \in Memories, NEW p, NEW r, IsRoute(m, p, r)
  PROVE  \E P : Prefixes(m, r, P)
<1> DEFINE K == Len(r)
           X == Seq(TagItem)
           step(i, x) == IF IsItem(m, r[i]) THEN Append(x, m[r[i]]) ELSE x
           g == [y \in (1 .. K - 1) \X X |-> step(y[1], y[2])]
<1>1. K \in Nat \ {0} /\ K - 1 \in Nat /\ r \in [1 .. K -> Addresses]
  BY RouteFacts
<1> HIDE DEF K
<1>2. \A i \in 1 .. K : m[r[i]] \in TagItem
  BY <1>1, MemoryFacts
<1>3. ASSUME NEW i \in 1 .. K - 1, NEW x \in X
      PROVE  g[<<i, x>>] = step(i, x) /\ step(i, x) \in X
  <2>1. i \in 1 .. K
    BY <1>1
  <2>2. Append(x, m[r[i]]) \in X
    BY <1>2, <2>1
  <2>3. <<i, x>> \in (1 .. K - 1) \X X /\ <<i, x>>[1] = i /\ <<i, x>>[2] = x
    OBVIOUS
  <2> HIDE DEF X
  <2> QED
    BY <2>2, <2>3, Zenon
<1>4. g \in [(1 .. K - 1) \X X -> X]
  <2> SUFFICES ASSUME NEW y \in (1 .. K - 1) \X X PROVE step(y[1], y[2]) \in X
    BY Zenon
  <2>1. y[1] \in 1 .. K - 1 /\ y[2] \in X
    OBVIOUS
  <2> HIDE DEF X, step
  <2> QED
    BY <1>3, <2>1
<1>5. <<>> \in X
  OBVIOUS
<1> HIDE DEF g, X
<1>6. PICK f : Steps(f, X, <<>>, g, K - 1)
  BY <1>1, <1>4, <1>5, StepsExist
<1> DEFINE P == [i \in 1 .. K |-> f[i - 1]]
<1>7. f \in [0 .. K - 1 -> X] /\ f[0] = <<>> /\ \A i \in 1 .. K - 1 : f[i] = g[<<i, f[i - 1]>>]
  BY <1>6 DEF Steps
<1>8. P \in [1 .. K -> X] /\ P[1] = <<>>
  <2>1. \A i \in 1 .. K : i - 1 \in 0 .. K - 1
    BY <1>1
  <2>2. 1 \in 1 .. K /\ 1 - 1 = 0
    BY <1>1
  <2> QED
    BY <1>7, <2>1, <2>2
<1>9. ASSUME NEW i \in 1 .. K - 1
      PROVE  P[i + 1] = step(i, P[i])
  <2>1. i \in 1 .. K /\ i + 1 \in 1 .. K /\ i + 1 - 1 = i /\ i - 1 \in 0 .. K - 1
    BY <1>1
  <2>2. P[i + 1] = f[i] /\ P[i] = f[i - 1] /\ f[i - 1] \in X
    BY <1>7, <2>1
  <2> HIDE DEF P, step
  <2> QED
    BY <1>3, <1>7, <2>2
<1>10. Prefixes(m, r, P)
  <2> HIDE DEF P
  <2> QED
    BY <1>8, <1>9 DEF Prefixes, K, X
<1> HIDE DEF P
<1> QED
  BY <1>10

Seeing(m) ==
  [y \in [at : Nat, seen : Seq(TagItem)] |->
     LET n == NextTagItem(m, y.at)
     IN  IF n.item = 0 THEN y
         ELSE [at |-> n.rest, seen |-> Append(y.seen, m[n.item])]]

\* What Items has seen in the end when it comes to q having seen s.
SeenFrom(m, q, s) == Loop(Seeing(m), [at |-> q, seen |-> s]).seen

LEMMA SeeingTyped ==
  ASSUME NEW m \in Memories
  PROVE  Seeing(m) \in [[at : Nat, seen : Seq(TagItem)] -> [at : Nat, seen : Seq(TagItem)]]
<1> SUFFICES ASSUME NEW y \in [at : Nat, seen : Seq(TagItem)]
             PROVE  Seeing(m)[y] \in [at : Nat, seen : Seq(TagItem)]
  BY DEF Seeing
<1> DEFINE n == NextTagItem(m, y.at)
<1>1. y.at \in Nat /\ y.seen \in Seq(TagItem)
  OBVIOUS
<1>2. n.rest \in Nat /\ (n.item # 0 => n.item \in Addresses)
  BY <1>1, NextTyped
<1>3. Seeing(m)[y] = IF n.item = 0 THEN y ELSE [at |-> n.rest, seen |-> Append(y.seen, m[n.item])]
  BY DEF Seeing
<1> HIDE DEF n
<1>4. n.item # 0 => Append(y.seen, m[n.item]) \in Seq(TagItem)
  BY <1>1, <1>2, MemoryFacts
<1> QED
  BY <1>1, <1>2, <1>3, <1>4

\* One place of the way through a list, for Items.
LEMMA SeenAt ==
  ASSUME NEW m \in Memories, NEW p, NEW r, IsRoute(m, p, r), NEW i \in 1 .. Len(r),
         NEW s \in Seq(TagItem)
  PROVE  /\ i = Len(r) => SeenFrom(m, r[i], s) = s
         /\ i < Len(r) /\ ~ IsItem(m, r[i]) =>
              SeenFrom(m, r[i], s) = SeenFrom(m, r[i + 1], s)
         /\ IsItem(m, r[i]) =>
              SeenFrom(m, r[i], s) = SeenFrom(m, r[i + 1], Append(s, m[r[i]]))
<1> DEFINE D == [at : Nat, seen : Seq(TagItem)]
           next == Seeing(m)
           x == [at |-> r[i], seen |-> s]
           n == NextTagItem(m, r[i])
<1>1. next \in [D -> D]
  BY SeeingTyped
<1>3. r \in [1 .. Len(r) -> Addresses] /\ Len(r) \in Nat
  BY RouteFacts
<1>4. Addresses \subseteq Nat /\ 0 \notin Addresses
  BY MemoryFacts
<1>5. r[i] \in Addresses /\ x \in D
  BY <1>3, <1>4
<1>6. next[x] = IF n.item = 0 THEN x ELSE [at |-> n.rest, seen |-> Append(s, m[n.item])]
  BY <1>5 DEF Seeing
<1>7. Loop(next, x) = IF next[x] = x THEN x ELSE Loop(next, next[x])
  BY <1>1, <1>5, LoopTurns
<1> HIDE DEF next
<1>8. ASSUME i = Len(r) PROVE SeenFrom(m, r[i], s) = s
  <2>1. n = [item |-> 0, rest |-> 0]
    BY <1>8, NextAt
  <2>2. n.item = 0
    BY <2>1
  <2> QED
    BY <1>6, <1>7, <2>2 DEF SeenFrom, next
<1>9. ASSUME i < Len(r), ~ IsItem(m, r[i])
      PROVE  SeenFrom(m, r[i], s) = SeenFrom(m, r[i + 1], s)
  <2> DEFINE y == [at |-> r[i + 1], seen |-> s]
  <2>0. i + 1 \in 1 .. Len(r)
    BY <1>3, <1>9
  <2>1. r[i + 1] \in Addresses /\ y \in D
    BY <1>3, <1>4, <2>0
  <2>2. NextTagItem(m, r[i + 1]) = n
    BY <1>9, NextAt
  <2>3. next[y] = IF n.item = 0 THEN y ELSE [at |-> n.rest, seen |-> Append(s, m[n.item])]
    BY <2>1, <2>2 DEF Seeing, next
  <2>4. CASE n.item = 0
    <3>1. Loop(next, x) = x
      BY <1>6, <1>7, <2>4
    <3>2. Loop(next, y) = IF next[y] = y THEN y ELSE Loop(next, next[y])
      BY <1>1, <2>1, LoopTurns
    <3>3. Loop(next, y) = y
      BY <2>3, <2>4, <3>2
    <3> QED
      BY <3>1, <3>3 DEF SeenFrom, next
  <2>5. CASE n.item # 0
    <3>1. \/ NextTagItem(m, r[i + 1]) = [item |-> 0, rest |-> 0]
          \/ \E j \in i + 1 .. Len(r) - 1 :
               NextTagItem(m, r[i + 1]) = [item |-> r[j], rest |-> r[j + 1]]
      BY <2>0, NextIsAhead
    <3>2. NextTagItem(m, r[i + 1]) # [item |-> 0, rest |-> 0]
      BY <2>2, <2>5
    <3>3. PICK j \in i + 1 .. Len(r) - 1 :
            NextTagItem(m, r[i + 1]) = [item |-> r[j], rest |-> r[j + 1]]
      BY <3>1, <3>2
    <3>4. n.rest = r[j + 1]
      BY <2>2, <3>3
    <3>5. j + 1 \in 1 .. Len(r) /\ j + 1 # i
      BY <1>3
    <3>6. n.rest # r[i]
      BY <3>4, <3>5, RouteFacts
    <3>7. next[x] # x /\ next[x] = next[y]
      BY <1>6, <2>3, <2>5, <3>6
    <3>8. Loop(next, x) = Loop(next, y)
      <4> HIDE DEF x, y, D
      <4> QED
        BY <1>1, <1>5, <2>1, <3>7, LoopMeets
    <3> QED
      BY <3>8 DEF SeenFrom, next
  <2> QED
    BY <2>4, <2>5
<1>10. ASSUME IsItem(m, r[i])
       PROVE  SeenFrom(m, r[i], s) = SeenFrom(m, r[i + 1], Append(s, m[r[i]]))
  <2>1. n = [item |-> r[i], rest |-> r[i + 1]] /\ i < Len(r)
    BY <1>10, NextAt
  <2>2. n.item = r[i] /\ n.rest = r[i + 1]
    BY <2>1
  <2>3. i + 1 \in 1 .. Len(r) /\ i + 1 # i
    BY <1>3, <2>1
  <2>4. r[i + 1] # r[i]
    BY <2>3, RouteFacts
  <2>5. next[x] = [at |-> r[i + 1], seen |-> Append(s, m[r[i]])] /\ next[x] # x
    BY <1>4, <1>5, <1>6, <2>2, <2>4
  <2> QED
    BY <1>7, <2>5 DEF SeenFrom, next
<1> QED
  BY <1>8, <1>9, <1>10

LEMMA ItemsAre ==
  ASSUME NEW m \in Memories, NEW p, NEW r, IsRoute(m, p, r), NEW P, Prefixes(m, r, P)
  PROVE  Items(m, p) = P[Len(r)] /\ Items(m, p) \in Seq(TagItem)
<1> DEFINE K == Len(r)
           S == {n \in 0 .. K - 1 : Items(m, p) = SeenFrom(m, r[n + 1], P[n + 1])}
<1>1. K \in Nat \ {0} /\ K - 1 \in Nat /\ r[1] = p
  BY RouteFacts
<1>2. P \in [1 .. K -> Seq(TagItem)] /\ P[1] = <<>>
  BY DEF Prefixes
<1>3. Items(m, p) = SeenFrom(m, p, <<>>)
  BY DEF Items, SeenFrom, Seeing
<1>4. ASSUME NEW i \in 1 .. K - 1
      PROVE  SeenFrom(m, r[i], P[i]) = SeenFrom(m, r[i + 1], P[i + 1])
  <2>1. i \in 1 .. K /\ i < K
    BY <1>1
  <2>2. P[i] \in Seq(TagItem)
    BY <1>2, <2>1
  <2>3. CASE IsItem(m, r[i])
    <3>1. P[i + 1] = Append(P[i], m[r[i]])
      BY <2>3 DEF Prefixes
    <3> QED
      BY <2>1, <2>2, <2>3, <3>1, SeenAt
  <2>4. CASE ~ IsItem(m, r[i])
    <3>1. P[i + 1] = P[i]
      BY <2>4 DEF Prefixes
    <3> QED
      BY <2>1, <2>2, <2>4, <3>1, SeenAt
  <2> QED
    BY <2>3, <2>4
<1>5. ASSUME NEW s \in Seq(TagItem) PROVE SeenFrom(m, r[K], s) = s
  <2>1. K \in 1 .. Len(r)
    BY <1>1
  <2> QED
    BY <2>1, SeenAt
<1> HIDE DEF K
<1>6. 0 \in S
  <2>1. 0 \in 0 .. K - 1 /\ 0 + 1 = 1
    BY <1>1
  <2> QED
    BY <1>1, <1>2, <1>3, <2>1
<1>7. ASSUME NEW n \in 0 .. K - 1 - 1, n \in S PROVE n + 1 \in S
  <2>1. n + 1 \in 1 .. K - 1 /\ n + 1 \in 0 .. K - 1
    BY <1>1
  <2> QED
    BY <1>4, <1>7, <2>1
<1>8. 0 .. K - 1 \subseteq S
  <2> HIDE DEF S
  <2> QED
    BY <1>1, <1>6, <1>7, IntervalInduction
<1>9. K - 1 \in 0 .. K - 1 /\ K - 1 + 1 = K /\ K \in 1 .. K
  BY <1>1
<1>10. Items(m, p) = SeenFrom(m, r[K], P[K]) /\ P[K] \in Seq(TagItem)
  BY <1>2, <1>8, <1>9
<1> QED
  BY <1>5, <1>10 DEF K

-----------------------------------------------------------------------------
(* Calls that change items *)

\* The tags that send a walk elsewhere or end it.
Steering == {TAG_DONE, TAG_MORE, TAG_SKIP}

\* m2 is m but for items at S that send no walk elsewhere, before or after.
Alters(m, m2, S) ==
  /\ m2 \in Memories
  /\ \A a \in Addresses :
       /\ a \notin S \/ m[a].tag \in Steering => m2[a] = m[a]
       /\ m[a].tag \notin Steering => m2[a].tag \notin Steering

LEMMA ItemIsPlain ==
  ASSUME NEW m, NEW a, IsItem(m, a)
  PROVE  m[a].tag \notin Steering
BY DEF IsItem, Control, Steering, TAG_DONE, TAG_MORE, TAG_SKIP

LEMMA AltersNothing ==
  ASSUME NEW m \in Memories, NEW S
  PROVE  Alters(m, m, S)
BY DEF Alters

LEMMA AltersTwice ==
  ASSUME NEW m, NEW m2, NEW m3, NEW S, Alters(m, m2, S), Alters(m2, m3, S)
  PROVE  Alters(m, m3, S)
BY Zenon DEF Alters

LEMMA AltersMore ==
  ASSUME NEW m, NEW m2, NEW S, NEW T, Alters(m, m2, S), S \subseteq T
  PROVE  Alters(m, m2, T)
BY DEF Alters

LEMMA AltersOne ==
  ASSUME NEW m \in Memories, NEW S, NEW a \in S, m[a].tag \notin Steering,
         NEW item \in TagItem, item.tag \notin Steering,
         NEW m2, m2 = [m EXCEPT ![a] = item]
  PROVE  Alters(m, m2, S)
<1>1. m2 \in Memories
  BY DEF Memories
<1>2. \A b \in Addresses : m2[b] = IF b = a THEN item ELSE m[b]
  BY DEF Memories
<1> QED
  BY <1>1, <1>2, Zenon DEF Alters

\* A walk goes the same way afterwards.
LEMMA RouteKept ==
  ASSUME NEW m \in Memories, NEW p, NEW r, IsRoute(m, p, r), NEW m2, NEW S, Alters(m, m2, S)
  PROVE  IsRoute(m2, p, r)
<1>1. r \in [1 .. Len(r) -> Addresses] /\ Len(r) \in Nat \ {0}
  BY RouteFacts
<1>2. m2[r[Len(r)]].tag = TAG_DONE
  <2>1. r[Len(r)] \in Addresses /\ m[r[Len(r)]].tag = TAG_DONE
    BY <1>1 DEF IsRoute
  <2> QED
    BY <2>1, Zenon DEF Alters, Steering
<1>3. ASSUME NEW i \in 1 .. Len(r) - 1
      PROVE  m2[r[i]].tag # TAG_DONE /\ r[i + 1] = Behind(m2, r[i])
  <2>1. r[i] \in Addresses
    BY <1>1
  <2>2. m[r[i]].tag # TAG_DONE /\ r[i + 1] = Behind(m, r[i])
    BY DEF IsRoute
  <2>3. CASE m[r[i]].tag \in Steering
    <3>1. m2[r[i]] = m[r[i]]
      BY <2>1, <2>3 DEF Alters
    <3> QED
      BY <2>2, <3>1 DEF Behind
  <2>4. CASE m[r[i]].tag \notin Steering
    <3>1. m2[r[i]].tag \notin Steering
      BY <2>1, <2>4 DEF Alters
    <3>2. Behind(m, r[i]) = r[i] + 1
      BY <2>4 DEF Behind, Steering
    <3>3. Behind(m2, r[i]) = r[i] + 1
      BY <3>1 DEF Behind, Steering
    <3>4. m2[r[i]].tag # TAG_DONE
      BY <3>1 DEF Steering
    <3> QED
      BY <2>2, <3>2, <3>3, <3>4
  <2> QED
    BY <2>3, <2>4
<1> QED
  BY <1>2, <1>3, Zenon DEF IsRoute

Places(r) == {r[j] : j \in 1 .. Len(r)}

\* What holds of the memory of a loop whose body keeps it.
LEMMA ForEachAlters ==
  ASSUME NEW m \in Memories, NEW p, NEW r, IsRoute(m, p, r),
         NEW body \in [Memories -> [Addresses -> Memories]],
         NEW S, NEW Y \in SUBSET Memories, m \in Y,
         \A n \in Y : \A a \in Places(r) :
           Alters(m, n, S) /\ IsItem(n, a) => Alters(n, body[n][a], S) /\ body[n][a] \in Y
  PROVE  Alters(m, ForEachItem(m, p, body), S) /\ ForEachItem(m, p, body) \in Y
<1> DEFINE T == {m2 \in Y : Alters(m, m2, S)}
           X == [i \in 1 .. Len(r) |-> T]
<1>1. Len(r) \in Nat \ {0} /\ 1 \in 1 .. Len(r) /\ Len(r) \in 1 .. Len(r)
  BY RouteFacts
<1>2. X \in [1 .. Len(r) -> SUBSET Memories]
  OBVIOUS
<1>3. ASSUME NEW i \in 1 .. Len(r), NEW m2 \in X[i]
      PROVE  /\ IsRoute(m2, p, r)
             /\ i < Len(r) /\ ~ IsItem(m2, r[i]) => m2 \in X[i + 1]
             /\ IsItem(m2, r[i]) /\ i < Len(r) => body[m2][r[i]] \in X[i + 1]
  <2>1. m2 \in Y /\ Alters(m, m2, S)
    OBVIOUS
  <2>2. IsRoute(m2, p, r)
    BY <2>1, RouteKept
  <2>3. r[i] \in Places(r)
    BY RouteFacts DEF Places
  <2>4. i < Len(r) => X[i + 1] = T
    BY <1>1
  <2>5. IsItem(m2, r[i]) => body[m2][r[i]] \in T
    BY <2>1, <2>3, AltersTwice, Zenon
  <2> HIDE DEF T, X
  <2> QED
    BY <2>2, <2>4, <2>5 DEF T, X
<1>4. m \in X[1]
  BY <1>1, AltersNothing
<1>5. ForEachItem(m, p, body) \in X[Len(r)]
  <2> HIDE DEF X
  <2> QED
    BY <1>1, <1>2, <1>3, <1>4, ForEachReaches
<1> QED
  BY <1>1, <1>5

LEMMA FilterAlters ==
  ASSUME NEW m \in Memories, NEW p, NEW r, IsRoute(m, p, r), NEW array, NEW keep \in BOOLEAN
  PROVE  Alters(m, FilterTagItems(m, p, array, keep), Places(r))
<1> DEFINE left(n, i) == IF TagInArray(n[i].tag, array) = keep THEN n
                         ELSE [n EXCEPT ![i].tag = TAG_IGNORE]
           body == [n \in Memories |-> [i \in Addresses |-> left(n, i)]]
<1>1. ASSUME NEW n \in Memories, NEW a \in Addresses
      PROVE  /\ body[n][a] = left(n, a) /\ left(n, a) \in Memories
             /\ a \in Places(r) /\ IsItem(n, a) => Alters(n, left(n, a), Places(r))
  <2> DEFINE item == [n[a] EXCEPT !.tag = TAG_IGNORE]
             n2 == [n EXCEPT ![a] = item]
  <2>1. n[a] \in TagItem
    BY MemoryFacts
  <2>2. item \in TagItem /\ item.tag = TAG_IGNORE
    BY <2>1 DEF TagItem, TAG_IGNORE
  <2>3. item.tag \notin Steering
    BY <2>2 DEF Steering, TAG_DONE, TAG_IGNORE, TAG_MORE, TAG_SKIP
  <2>4. n2 \in Memories
    BY <2>2 DEF Memories
  <2>5. a \in Places(r) /\ IsItem(n, a) => Alters(n, n2, Places(r))
    <3> HIDE DEF item
    <3> QED
      BY <2>2, <2>3, ItemIsPlain, AltersOne
  <2>6. left(n, a) = n \/ left(n, a) = n2
    OBVIOUS
  <2>7. Alters(n, n, Places(r))
    BY AltersNothing
  <2>8. body[n][a] = left(n, a)
    OBVIOUS
  <2> HIDE DEF left, body, n2
  <2> QED
    BY <2>4, <2>5, <2>6, <2>7, <2>8
<1>2. body \in [Memories -> [Addresses -> Memories]]
  <2> HIDE DEF left
  <2> QED
    BY <1>1
<1>3. Places(r) \subseteq Addresses
  BY RouteFacts DEF Places
<1>4. \A n \in Memories : \A a \in Places(r) :
        IsItem(n, a) => Alters(n, body[n][a], Places(r)) /\ body[n][a] \in Memories
  <2> HIDE DEF body, left
  <2> QED
    BY <1>1, <1>3
<1>5. FilterTagItems(m, p, array, keep) = ForEachItem(m, p, body)
  BY DEF FilterTagItems
<1> HIDE DEF body
<1> QED
  BY <1>2, <1>4, <1>5, ForEachAlters

\* What a list answers is the default or one of its items.
LEMMA GetIs ==
  ASSUME NEW m \in Memories, NEW p, NEW r, IsRoute(m, p, r), NEW tag, NEW default
  PROVE  \/ GetTagData(m, tag, default, p) = default
         \/ \E j \in 1 .. Len(r) : /\ IsItem(m, r[j]) /\ m[r[j]].tag = tag
                                   /\ GetTagData(m, tag, default, p) = m[r[j]].data
<1> DEFINE a == FindTagItem(m, tag, p)
<1>1. \/ a = 0
      \/ \E j \in 1 .. Len(r) : a = r[j] /\ IsItem(m, r[j]) /\ m[r[j]].tag = tag
  <2>1. Finds(m, r, tag, a)
    BY FindIs
  <2> HIDE DEF a
  <2> QED
    BY <2>1 DEF Finds
<1>2. 0 \notin Addresses
  BY MemoryFacts
<1>3. GetTagData(m, tag, default, p) = IF a \in Addresses THEN m[a].data ELSE default
  BY Zenon DEF GetTagData
<1> HIDE DEF a
<1> QED
  BY <1>1, <1>2, <1>3

LEMMA GetTyped ==
  ASSUME NEW m \in Memories, NEW p, NEW tag, NEW default \in Nat
  PROVE  GetTagData(m, tag, default, p) \in Nat
BY MemoryFacts, Zenon DEF GetTagData

\* No change of the way r maps a tag to one that steers a walk.
Harmless(m, r) ==
  \A j \in 1 .. Len(r) : IsItem(m, r[j]) => m[r[j]].data \notin {TAG_MORE, TAG_SKIP}

LEMMA MapAlters ==
  ASSUME NEW m \in Memories, NEW p, NEW r, IsRoute(m, p, r),
         NEW q, NEW c, IsRoute(m, q, c), Harmless(m, c),
         Places(r) \cap Places(c) = {}, NEW remove \in BOOLEAN
  PROVE  Alters(m, MapTags(m, p, q, remove), Places(r))
<1> DEFINE to(n, i) == GetTagData(n, n[i].tag, IF remove THEN TAG_DONE ELSE n[i].tag, q)
           tag(n, i) == IF to(n, i) = TAG_DONE THEN TAG_IGNORE ELSE to(n, i)
           body == [n \in Memories |-> [i \in Addresses |-> [n EXCEPT ![i].tag = tag(n, i)]]]
<1>1. ASSUME NEW n \in Memories, NEW a \in Addresses
      PROVE  /\ tag(n, a) \in Nat
             /\ body[n][a] = [n EXCEPT ![a].tag = tag(n, a)]
             /\ body[n][a] \in Memories
  <2>1. n[a] \in TagItem /\ n[a].tag \in Nat
    BY MemoryFacts
  <2>2. (IF remove THEN TAG_DONE ELSE n[a].tag) \in Nat
    BY <2>1 DEF TAG_DONE
  <2>3. to(n, a) \in Nat
    BY <2>2, GetTyped
  <2>4. tag(n, a) \in Nat
    <3> HIDE DEF to
    <3> QED
      BY <2>3 DEF TAG_IGNORE
  <2>5. body[n][a] = [n EXCEPT ![a].tag = tag(n, a)]
    <3> HIDE DEF tag
    <3> QED
      OBVIOUS
  <2> HIDE DEF tag, body
  <2>6. [n EXCEPT ![a].tag = tag(n, a)] \in Memories
    BY <2>1, <2>4 DEF Memories, TagItem
  <2> QED
    BY <2>4, <2>5, <2>6
<1>2. body \in [Memories -> [Addresses -> Memories]]
  <2> DEFINE after(n, i) == [n EXCEPT ![i].tag = tag(n, i)]
  <2>1. \A n \in Memories, i \in Addresses : after(n, i) \in Memories
    <3> HIDE DEF tag
    <3> QED
      BY <1>1, Zenon
  <2> HIDE DEF after
  <2>2. body = [n \in Memories |-> [i \in Addresses |-> after(n, i)]]
    BY DEF after
  <2> HIDE DEF body
  <2> QED
    BY <2>1, <2>2
<1>3. Places(r) \subseteq Addresses /\ Places(c) \subseteq Addresses
  BY RouteFacts DEF Places
<1>4. ASSUME NEW n \in Memories, NEW a \in Places(r), Alters(m, n, Places(r)), IsItem(n, a)
      PROVE  Alters(n, body[n][a], Places(r)) /\ body[n][a] \in Memories
  <2>1. IsRoute(n, q, c)
    BY <1>4, RouteKept
  <2>2. \A j \in 1 .. Len(c) : c[j] \in Places(c) /\ n[c[j]] = m[c[j]]
    BY <1>3, <1>4 DEF Alters, Places
  <2>3. tag(n, a) \notin Steering
    <3> DEFINE default == IF remove THEN TAG_DONE ELSE n[a].tag
               t == to(n, a)
    <3>1. default \notin {TAG_MORE, TAG_SKIP}
      BY <1>4 DEF IsItem, Control, TAG_DONE, TAG_MORE, TAG_SKIP
    <3>2. t \notin {TAG_MORE, TAG_SKIP}
      <4>1. \/ t = default
            \/ \E j \in 1 .. Len(c) : IsItem(n, c[j]) /\ t = n[c[j]].data
        <5> HIDE DEF default
        <5> QED
          BY <2>1, GetIs DEF default
      <4>2. \A j \in 1 .. Len(c) : IsItem(n, c[j]) => n[c[j]].data \notin {TAG_MORE, TAG_SKIP}
        BY <2>2 DEF Harmless, IsItem
      <4> HIDE DEF t, default
      <4> QED
        BY <3>1, <4>1, <4>2
    <3> HIDE DEF to
    <3> QED
      BY <3>2 DEF Steering, TAG_DONE, TAG_IGNORE, TAG_MORE, TAG_SKIP
  <2>4. a \in Addresses
    BY <1>3
  <2>5. n[a] \in TagItem /\ tag(n, a) \in Nat
    BY <1>1, <2>4, MemoryFacts
  <2> HIDE DEF tag
  <2> DEFINE item == [n[a] EXCEPT !.tag = tag(n, a)]
  <2>6. item \in TagItem /\ item.tag = tag(n, a)
    BY <2>5 DEF TagItem
  <2>7. body[n][a] = [n EXCEPT ![a] = item] /\ body[n][a] \in Memories
    <3>1. body[n][a] = [n EXCEPT ![a].tag = tag(n, a)] /\ body[n][a] \in Memories
      BY <1>1, <2>4 DEF tag
    <3> HIDE DEF body
    <3> QED
      BY <3>1
  <2>8. n[a].tag \notin Steering
    BY <1>4, ItemIsPlain
  <2> HIDE DEF item, body
  <2> QED
    BY <2>3, <2>6, <2>7, <2>8, AltersOne
<1>5. MapTags(m, p, q, remove) = ForEachItem(m, p, body)
  BY DEF MapTags
<1> HIDE DEF body
<1> QED
  BY <1>2, <1>4, <1>5, ForEachAlters

\* What the body of FilterTagChanges makes of n at item i.
Changed(n, i, l, apply) ==
  LET orig == FindTagItem(n, n[i].tag, l)
  IN  IF orig = 0 THEN n
      ELSE IF n[i].data = n[orig].data THEN [n EXCEPT ![i].tag = TAG_IGNORE]
      ELSE [n EXCEPT ![orig].data = IF apply THEN n[i].data ELSE @]

ChangeBody(l, apply) ==
  [n \in Memories |-> [i \in Addresses |-> Changed(n, i, l, apply)]]

LEMMA ChangeTyped ==
  ASSUME NEW l, NEW apply \in BOOLEAN
  PROVE  /\ ChangeBody(l, apply) \in [Memories -> [Addresses -> Memories]]
         /\ \A n \in Memories, i \in Addresses :
              ChangeBody(l, apply)[n][i] = Changed(n, i, l, apply)
<1>1. ASSUME NEW n \in Memories, NEW i \in Addresses
      PROVE  Changed(n, i, l, apply) \in Memories
  <2> DEFINE orig == FindTagItem(n, n[i].tag, l)
             data == IF apply THEN n[i].data ELSE n[orig].data
  <2>1. \A a \in Addresses : n[a] \in TagItem
    BY MemoryFacts
  <2>2. [n EXCEPT ![i].tag = TAG_IGNORE] \in Memories
    BY <2>1 DEF Memories, TagItem, TAG_IGNORE
  <2>3. [n EXCEPT ![orig].data = data] \in Memories
    <3>1. orig \in Addresses => data \in Nat
      BY <2>1 DEF TagItem
    <3> HIDE DEF orig, data
    <3>2. \A a \in Addresses : a = orig => [n[a] EXCEPT !.data = data] \in TagItem
      BY <2>1, <3>1 DEF TagItem
    <3>3. n = [a \in Addresses |-> n[a]]
      BY DEF Memories
    <3>4. [n EXCEPT ![orig].data = data] =
            [a \in Addresses |-> IF a = orig THEN [n[a] EXCEPT !.data = data] ELSE n[a]]
      BY <3>3
    <3> QED
      BY <2>1, <3>2, <3>4 DEF Memories
  <2>4. Changed(n, i, l, apply) =
          IF orig = 0 THEN n
          ELSE IF n[i].data = n[orig].data THEN [n EXCEPT ![i].tag = TAG_IGNORE]
          ELSE [n EXCEPT ![orig].data = data]
    BY DEF Changed
  <2> HIDE DEF orig, data
  <2> QED
    BY <2>2, <2>3, <2>4
<1> QED
  BY <1>1 DEF ChangeBody

\* What a turn makes of n: i is the change, orig what it is for, on a list at S.
ChangesTo(n, n2, i, orig, S, apply) ==
  \/ orig = 0 /\ n2 = n
  \/ /\ orig \in S /\ orig \in Addresses /\ orig # 0 /\ orig # i
     /\ IsItem(n, orig) /\ n[orig].tag = n[i].tag
     /\ \/ n[i].data = n[orig].data /\ n2 = [n EXCEPT ![i] = [n[i] EXCEPT !.tag = TAG_IGNORE]]
        \/ /\ n[i].data # n[orig].data /\ apply
           /\ n2 = [n EXCEPT ![orig] = [n[orig] EXCEPT !.data = n[i].data]]
        \/ n[i].data # n[orig].data /\ ~ apply /\ n2 = n

LEMMA ChangedIs ==
  ASSUME NEW n \in Memories, NEW l, NEW r, IsRoute(n, l, r),
         NEW i \in Addresses \ Places(r), IsItem(n, i), NEW apply \in BOOLEAN
  PROVE  ChangesTo(n, Changed(n, i, l, apply), i, FindTagItem(n, n[i].tag, l), Places(r), apply)
<1> DEFINE orig == FindTagItem(n, n[i].tag, l)
           n2 == Changed(n, i, l, apply)
           gone == [n[i] EXCEPT !.tag = TAG_IGNORE]
           new == [n[orig] EXCEPT !.data = n[i].data]
<1> SUFFICES \/ orig = 0 /\ n2 = n
             \/ /\ orig \in Places(r) /\ orig \in Addresses /\ orig # 0 /\ orig # i
                /\ IsItem(n, orig) /\ n[orig].tag = n[i].tag
                /\ \/ n[i].data = n[orig].data /\ n2 = [n EXCEPT ![i] = gone]
                   \/ n[i].data # n[orig].data /\ apply /\ n2 = [n EXCEPT ![orig] = new]
                   \/ n[i].data # n[orig].data /\ ~ apply /\ n2 = n
  BY Zenon DEF ChangesTo
<1>1. \/ orig = 0
      \/ \E j \in 1 .. Len(r) : orig = r[j] /\ IsItem(n, r[j]) /\ n[r[j]].tag = n[i].tag
  <2>1. Finds(n, r, n[i].tag, orig)
    BY FindIs
  <2> HIDE DEF orig
  <2> QED
    BY <2>1 DEF Finds
<1>2. r \in [1 .. Len(r) -> Addresses] /\ 0 \notin Addresses
  BY RouteFacts, MemoryFacts
<1>3. CASE orig = 0
  BY <1>3 DEF Changed
<1>4. CASE orig # 0
  <2>1. orig \in Places(r) /\ orig \in Addresses /\ IsItem(n, orig) /\ n[orig].tag = n[i].tag
    <3> HIDE DEF orig
    <3> QED
      BY <1>1, <1>2, <1>4 DEF Places
  <2>2. orig # i
    BY <2>1
  <2>3. n[orig] \in TagItem
    BY <2>1, MemoryFacts
  <2> HIDE DEF orig
  <2>4. n2 = IF n[i].data = n[orig].data THEN [n EXCEPT ![i] = gone]
             ELSE [n EXCEPT ![orig].data = IF apply THEN n[i].data ELSE @]
    BY <1>4 DEF Changed, orig
  <2>5. CASE n[i].data = n[orig].data
    BY <1>4, <2>1, <2>2, <2>4, <2>5 DEF orig
  <2>6. CASE n[i].data # n[orig].data /\ apply
    <3>1. n2 = [n EXCEPT ![orig] = new]
      BY <2>4, <2>6
    <3> QED
      BY <1>4, <2>1, <2>2, <2>6, <3>1 DEF orig
  <2>7. CASE n[i].data # n[orig].data /\ ~ apply
    <3>1. n2 = [n EXCEPT ![orig].data = n[orig].data]
      BY <2>4, <2>7
    <3>2. [n[orig] EXCEPT !.data = n[orig].data] = n[orig]
      BY <2>3 DEF TagItem
    <3>3. n2 = n
      BY <2>1, <3>1, <3>2 DEF Memories
    <3> QED
      BY <1>4, <2>1, <2>2, <2>7, <3>3 DEF orig
  <2> QED
    BY <2>5, <2>6, <2>7
<1> QED
  BY <1>3, <1>4

\* The changes of m along c, or fewer of them.
Quieter(m, n, c) ==
  \A j \in 1 .. Len(c) : /\ n[c[j]].data = m[c[j]].data
                         /\ IsItem(n, c[j]) => IsItem(m, c[j]) /\ n[c[j]] = m[c[j]]

LEMMA FilterChangesAlters ==
  ASSUME NEW m \in Memories, NEW p, NEW c, IsRoute(m, p, c),
         NEW l, NEW r, IsRoute(m, l, r),
         Places(r) \cap Places(c) = {}, NEW apply \in BOOLEAN
  PROVE  LET m2 == FilterTagChanges(m, p, l, apply)
         IN  Alters(m, m2, Places(r) \cup Places(c)) /\ Quieter(m, m2, c)
<1> DEFINE S == Places(r) \cup Places(c)
           Y == {n \in Memories : Quieter(m, n, c)}
           body == ChangeBody(l, apply)
<1>1. Places(r) \subseteq Addresses /\ Places(c) \subseteq Addresses
  BY RouteFacts DEF Places
<1>2. ASSUME NEW n \in Y, NEW a \in Places(c), Alters(m, n, S), IsItem(n, a)
      PROVE  Alters(n, body[n][a], S) /\ body[n][a] \in Y
  <2>1. IsRoute(n, l, r)
    BY <1>2, RouteKept
  <2>2. a \in Addresses \ Places(r)
    BY <1>1
  <2> DEFINE orig == FindTagItem(n, n[a].tag, l)
             n2 == Changed(n, a, l, apply)
             gone == [n[a] EXCEPT !.tag = TAG_IGNORE]
             new == [n[orig] EXCEPT !.data = n[a].data]
  <2>3. body[n][a] = n2 /\ n2 \in Memories
    BY <2>2, ChangeTyped
  <2>4. \/ n2 = n
        \/ n2 = [n EXCEPT ![a] = gone]
        \/ orig \in Places(r) /\ IsItem(n, orig) /\ n2 = [n EXCEPT ![orig] = new]
    <3>1. ChangesTo(n, n2, a, orig, Places(r), apply)
      BY <1>2, <2>1, <2>2, ChangedIs
    <3> HIDE DEF orig, n2
    <3> QED
      BY <3>1, Zenon DEF ChangesTo, gone, new
  <2> HIDE DEF orig, n2, body
  <2>5. CASE n2 = n
    BY <2>3, <2>5, AltersNothing
  <2>6. CASE n2 = [n EXCEPT ![a] = gone]
    <3>1. n[a] \in TagItem
      BY <2>2, MemoryFacts
    <3>2. gone \in TagItem /\ gone.tag = TAG_IGNORE /\ gone.data = n[a].data
      BY <3>1 DEF TagItem, TAG_IGNORE
    <3>3. gone.tag \notin Steering /\ gone.tag \in Control
      BY <3>2 DEF Steering, Control, TAG_DONE, TAG_IGNORE, TAG_MORE, TAG_SKIP
    <3> HIDE DEF gone
    <3>4. Alters(n, n2, S)
      BY <1>2, <2>6, <3>2, <3>3, ItemIsPlain, AltersOne
    <3>5. \A b \in Addresses : n2[b] = IF b = a THEN gone ELSE n[b]
      BY <2>6 DEF Memories
    <3>6. Quieter(m, n2, c)
      <4> SUFFICES ASSUME NEW j \in 1 .. Len(c)
                   PROVE  /\ n2[c[j]].data = m[c[j]].data
                          /\ IsItem(n2, c[j]) => IsItem(m, c[j]) /\ n2[c[j]] = m[c[j]]
        BY DEF Quieter
      <4>1. c[j] \in Addresses
        BY <1>1 DEF Places
      <4>2. /\ n[c[j]].data = m[c[j]].data
            /\ IsItem(n, c[j]) => IsItem(m, c[j]) /\ n[c[j]] = m[c[j]]
        BY DEF Quieter
      <4> QED
        BY <3>2, <3>3, <3>5, <4>1, <4>2 DEF IsItem
    <3> QED
      BY <2>3, <3>4, <3>6
  <2>7. CASE orig \in Places(r) /\ IsItem(n, orig) /\ n2 = [n EXCEPT ![orig] = new]
    <3>1. n[orig] \in TagItem /\ n[a] \in TagItem
      BY <1>1, <2>2, <2>7, MemoryFacts
    <3>2. new \in TagItem /\ new.tag = n[orig].tag
      BY <3>1 DEF TagItem
    <3>3. n[orig].tag \notin Steering
      BY <2>7, ItemIsPlain
    <3> HIDE DEF new
    <3>4. Alters(n, n2, S)
      BY <2>7, <3>2, <3>3, AltersOne
    <3>5. \A b \in Addresses : b # orig => n2[b] = n[b]
      BY <2>7 DEF Memories
    <3>6. Quieter(m, n2, c)
      <4> SUFFICES ASSUME NEW j \in 1 .. Len(c)
                   PROVE  /\ n2[c[j]].data = m[c[j]].data
                          /\ IsItem(n2, c[j]) => IsItem(m, c[j]) /\ n2[c[j]] = m[c[j]]
        BY DEF Quieter
      <4>1. c[j] \in Addresses /\ c[j] # orig
        BY <1>1, <2>7 DEF Places
      <4>2. /\ n[c[j]].data = m[c[j]].data
            /\ IsItem(n, c[j]) => IsItem(m, c[j]) /\ n[c[j]] = m[c[j]]
        BY DEF Quieter
      <4> QED
        BY <3>5, <4>1, <4>2 DEF IsItem
    <3> QED
      BY <2>3, <3>4, <3>6
  <2> QED
    BY <2>4, <2>5, <2>6, <2>7
<1>3. m \in Y /\ Y \in SUBSET Memories
  BY DEF Quieter
<1>4. FilterTagChanges(m, p, l, apply) = ForEachItem(m, p, body)
  BY DEF FilterTagChanges, ChangeBody, Changed
<1>5. body \in [Memories -> [Addresses -> Memories]]
  BY ChangeTyped
<1> HIDE DEF body, Y
<1>6. Alters(m, ForEachItem(m, p, body), S) /\ ForEachItem(m, p, body) \in Y
  BY <1>2, <1>3, <1>5, ForEachAlters
<1> QED
  BY <1>4, <1>6 DEF Y

-----------------------------------------------------------------------------
(* ApplyTagChanges *)

Applying(change) ==
  [y \in [mem : Memories, at : Nat] |->
     LET a == y.at
     IN  IF a \notin Addresses THEN y
         ELSE CASE y.mem[a].tag = TAG_DONE   -> y
                [] y.mem[a].tag = TAG_IGNORE -> [y EXCEPT !.at = a + 1]
                [] y.mem[a].tag = TAG_MORE   -> [y EXCEPT !.at = y.mem[a].data]
                [] y.mem[a].tag = TAG_SKIP   ->
                     [y EXCEPT !.at = a + y.mem[a].data + 1]
                [] OTHER ->
                     [mem |-> [y.mem EXCEPT ![a].data =
                                 GetTagData(y.mem, y.mem[a].tag, @, change)],
                      at  |-> a + 1]]

\* The item x with the data that the changes at q answer for its tag.
Answered(m, x, q) == [x EXCEPT !.data = GetTagData(m, x.tag, x.data, q)]

LEMMA AnsweredTyped ==
  ASSUME NEW m \in Memories, NEW x \in TagItem, NEW q
  PROVE  Answered(m, x, q) \in TagItem /\ Answered(m, x, q).tag = x.tag
<1>1. GetTagData(m, x.tag, x.data, q) \in Nat
  BY GetTyped DEF TagItem
<1> QED
  BY <1>1 DEF Answered, TagItem

\* A turn of ApplyTagChanges at address a.
LEMMA ApplyTurn ==
  ASSUME NEW m \in Memories, NEW a \in Addresses, NEW q
  PROVE  LET y == [mem |-> m, at |-> a]
             z == Applying(q)[y]
         IN  /\ m[a].tag = TAG_DONE => z = y
             /\ m[a].tag # TAG_DONE /\ ~ IsItem(m, a) => z = [mem |-> m, at |-> Behind(m, a)]
             /\ IsItem(m, a) => z = [mem |-> [m EXCEPT ![a] = Answered(m, m[a], q)], at |-> a + 1]
             /\ z \in [mem : Memories, at : Nat]
<1> DEFINE D == [mem : Memories, at : Nat]
           y == [mem |-> m, at |-> a]
           z == Applying(q)[y]
           set == [m EXCEPT ![a].data = GetTagData(m, m[a].tag, @, q)]
           m2 == [m EXCEPT ![a] = Answered(m, m[a], q)]
<1>1. /\ Addresses \subseteq Nat /\ m[a] \in TagItem /\ m[a].tag \in Nat /\ m[a].data \in Nat
      /\ a + 1 \in Nat
  BY MemoryFacts
<1>2. y \in D /\ a \in Nat
  BY <1>1
<1>3. z = CASE m[a].tag = TAG_DONE   -> y
            [] m[a].tag = TAG_IGNORE -> [mem |-> m, at |-> a + 1]
            [] m[a].tag = TAG_MORE   -> [mem |-> m, at |-> m[a].data]
            [] m[a].tag = TAG_SKIP   -> [mem |-> m, at |-> a + m[a].data + 1]
            [] OTHER                 -> [mem |-> set, at |-> a + 1]
  <2> HIDE DEF set
  <2>1. y.mem = m /\ y.at = a
    OBVIOUS
  <2>2. \A v : [y EXCEPT !.at = v] = [mem |-> m, at |-> v]
    OBVIOUS
  <2>3. z = IF y.at \notin Addresses THEN y
            ELSE CASE y.mem[y.at].tag = TAG_DONE   -> y
                   [] y.mem[y.at].tag = TAG_IGNORE -> [y EXCEPT !.at = y.at + 1]
                   [] y.mem[y.at].tag = TAG_MORE   -> [y EXCEPT !.at = y.mem[y.at].data]
                   [] y.mem[y.at].tag = TAG_SKIP   -> [y EXCEPT !.at = y.at + y.mem[y.at].data + 1]
                   [] OTHER -> [mem |-> [y.mem EXCEPT ![y.at].data =
                                   GetTagData(y.mem, y.mem[y.at].tag, @, q)], at |-> y.at + 1]
    BY <1>2 DEF Applying
  <2> HIDE DEF y, z
  <2> QED
    BY <2>1, <2>2, <2>3 DEF set
<1>4. set = m2
  BY DEF Answered
<1>5. m2 \in Memories
  <2>1. Answered(m, m[a], q) \in TagItem
    BY <1>1, AnsweredTyped
  <2> HIDE DEF Answered
  <2> QED
    BY <2>1 DEF Memories
<1> HIDE DEF z, set, m2
<1>6. m[a].tag = TAG_DONE => z = y
  BY <1>3 DEF TAG_DONE, TAG_IGNORE, TAG_MORE, TAG_SKIP
<1>7. ASSUME m[a].tag # TAG_DONE, ~ IsItem(m, a)
      PROVE  z = [mem |-> m, at |-> Behind(m, a)] /\ Behind(m, a) \in Nat
  BY <1>1, <1>3, <1>7
    DEF Behind, IsItem, Control, TAG_DONE, TAG_IGNORE, TAG_MORE, TAG_SKIP
<1>8. ASSUME IsItem(m, a)
      PROVE  z = [mem |-> m2, at |-> a + 1]
  BY <1>1, <1>3, <1>4, <1>8 DEF IsItem, Control, TAG_DONE, TAG_IGNORE, TAG_MORE, TAG_SKIP
<1>9. z \in D
  <2>1. CASE m[a].tag = TAG_DONE
    BY <1>2, <1>6, <2>1
  <2>2. CASE m[a].tag # TAG_DONE /\ ~ IsItem(m, a)
    BY <1>7, <2>2
  <2>3. CASE IsItem(m, a)
    BY <1>1, <1>5, <1>8, <2>3
  <2>4. m[a].tag = TAG_DONE => ~ IsItem(m, a)
    BY DEF IsItem, Control, TAG_DONE, TAG_SKIP
  <2> QED
    BY <2>1, <2>2, <2>3
<1> QED
  BY <1>6, <1>7, <1>8, <1>9 DEF m2, z

LEMMA ApplyingTyped ==
  ASSUME NEW q
  PROVE  Applying(q) \in [[mem : Memories, at : Nat] -> [mem : Memories, at : Nat]]
<1> DEFINE D == [mem : Memories, at : Nat]
<1> SUFFICES ASSUME NEW y \in D PROVE Applying(q)[y] \in D
  BY DEF Applying
<1>1. y.mem \in Memories /\ y.at \in Nat /\ y = [mem |-> y.mem, at |-> y.at]
  OBVIOUS
<1>2. CASE y.at \in Addresses
  <2>1. Applying(q)[[mem |-> y.mem, at |-> y.at]] \in D
    BY <1>1, <1>2, ApplyTurn
  <2> HIDE DEF D
  <2> QED
    BY <1>1, <2>1
<1>3. CASE y.at \notin Addresses
  BY <1>3 DEF Applying
<1> QED
  BY <1>2, <1>3

\* One place of the way through a list, for ApplyTagChanges.
LEMMA ApplyAt ==
  ASSUME NEW m \in Memories, NEW p, NEW r, IsRoute(m, p, r), NEW i \in 1 .. Len(r), NEW q
  PROVE  ApplyTagChanges(m, r[i], q) =
           IF i = Len(r) THEN m
           ELSE ApplyTagChanges(IF IsItem(m, r[i])
                                THEN [m EXCEPT ![r[i]] = Answered(m, m[r[i]], q)] ELSE m,
                                r[i + 1], q)
<1> DEFINE D == [mem : Memories, at : Nat]
           next == Applying(q)
           x == [mem |-> m, at |-> r[i]]
           m2 == [m EXCEPT ![r[i]] = Answered(m, m[r[i]], q)]
<1>1. next \in [D -> D]
  BY ApplyingTyped
<1>2. \A n, a : ApplyTagChanges(n, a, q) = Loop(next, [mem |-> n, at |-> a]).mem
  BY DEF ApplyTagChanges, Applying
<1>3. r \in [1 .. Len(r) -> Addresses] /\ Len(r) \in Nat
  BY RouteFacts
<1>4. Addresses \subseteq Nat
  BY MemoryFacts
<1>5. r[i] \in Addresses /\ x \in D
  BY <1>3, <1>4
<1>6. /\ m[r[i]].tag = TAG_DONE => next[x] = x
      /\ m[r[i]].tag # TAG_DONE /\ ~ IsItem(m, r[i]) =>
           next[x] = [mem |-> m, at |-> Behind(m, r[i])]
      /\ IsItem(m, r[i]) => next[x] = [mem |-> m2, at |-> r[i] + 1]
  BY <1>5, ApplyTurn
<1>7. Loop(next, x) = IF next[x] = x THEN x ELSE Loop(next, next[x])
  BY <1>1, <1>5, LoopTurns
<1>8. i < Len(r) => /\ m[r[i]].tag # TAG_DONE /\ r[i + 1] = Behind(m, r[i])
                    /\ r[i + 1] # r[i]
  <2> SUFFICES ASSUME i < Len(r)
               PROVE  m[r[i]].tag # TAG_DONE /\ r[i + 1] = Behind(m, r[i]) /\ r[i + 1] # r[i]
    OBVIOUS
  <2>1. i \in 1 .. Len(r) - 1 /\ i + 1 \in 1 .. Len(r) /\ i + 1 # i
    BY <1>3
  <2>2. r[i + 1] # r[i]
    BY <2>1, RouteFacts
  <2> QED
    BY <2>1, <2>2 DEF IsRoute
<1>9. IsItem(m, r[i]) => Behind(m, r[i]) = r[i] + 1
  BY DEF Behind, IsItem, Control, TAG_DONE, TAG_MORE, TAG_SKIP
<1> HIDE DEF next, m2
<1>10. ASSUME i = Len(r) PROVE ApplyTagChanges(m, r[i], q) = m
  <2>1. m[r[i]].tag = TAG_DONE
    BY <1>10 DEF IsRoute
  <2>2. Loop(next, x) = x
    BY <1>6, <1>7, <2>1
  <2> QED
    BY <1>2, <2>2
<1>11. ASSUME i < Len(r), ~ IsItem(m, r[i])
       PROVE  ApplyTagChanges(m, r[i], q) = ApplyTagChanges(m, r[i + 1], q)
  <2>1. next[x] = [mem |-> m, at |-> r[i + 1]] /\ next[x] # x
    BY <1>6, <1>8, <1>11
  <2>2. Loop(next, x) = Loop(next, [mem |-> m, at |-> r[i + 1]])
    BY <1>7, <2>1
  <2> QED
    BY <1>2, <2>2
<1>12. ASSUME i < Len(r), IsItem(m, r[i])
       PROVE  ApplyTagChanges(m, r[i], q) = ApplyTagChanges(m2, r[i + 1], q)
  <2>1. next[x] = [mem |-> m2, at |-> r[i + 1]] /\ next[x] # x
    BY <1>6, <1>8, <1>9, <1>12
  <2>2. Loop(next, x) = Loop(next, [mem |-> m2, at |-> r[i + 1]])
    BY <1>7, <2>1
  <2> QED
    BY <1>2, <2>2
<1>13. i = Len(r) \/ i < Len(r)
  <2> DEFINE K == Len(r)
  <2>1. K \in Nat /\ i \in 1 .. K
    BY <1>3
  <2> HIDE DEF K
  <2>2. i = K \/ i < K
    BY <2>1
  <2> QED
    BY <2>2 DEF K
<1>14. ApplyTagChanges(m, r[i], q) =
         IF i = Len(r) THEN m
         ELSE ApplyTagChanges(IF IsItem(m, r[i]) THEN m2 ELSE m, r[i + 1], q)
  BY <1>10, <1>11, <1>12, <1>13
<1> QED
  BY <1>14 DEF m2

\* ApplyTagChanges gives each item of the list the data that the changes have
\* for its tag, and leaves everything else.
LEMMA ApplyIs ==
  ASSUME NEW m \in Memories, NEW p, NEW r, IsRoute(m, p, r),
         NEW q, NEW c, IsRoute(m, q, c), Places(r) \cap Places(c) = {}
  PROVE  LET m2 == ApplyTagChanges(m, p, q)
         IN  /\ Alters(m, m2, Places(r))
             /\ \A j \in 1 .. Len(r) :
                  m2[r[j]] = IF IsItem(m, r[j]) THEN Answered(m, m[r[j]], q) ELSE m[r[j]]
<1> DEFINE K == Len(r)
           done(j) == IF IsItem(m, r[j]) THEN Answered(m, m[r[j]], q) ELSE m[r[j]]
           Good(n, m2) == /\ Alters(m, m2, Places(r))
                          /\ \A j \in 1 .. K : m2[r[j]] = IF j <= n THEN done(j) ELSE m[r[j]]
                          /\ ApplyTagChanges(m, p, q) = ApplyTagChanges(m2, r[n + 1], q)
           S == {n \in 0 .. K - 1 : \E m2 : Good(n, m2)}
<1>1. K \in Nat \ {0} /\ K - 1 \in Nat /\ r[1] = p
  BY RouteFacts
<1>2. \A j \in 1 .. K : r[j] \in Addresses /\ r[j] \in Places(r)
  BY RouteFacts DEF Places
<1>3. \A j, k \in 1 .. K : r[j] = r[k] => j = k
  BY RouteFacts
<1>4. ASSUME NEW n \in 0 .. K - 1, NEW m2, Good(n, m2)
      PROVE  /\ m2 \in Memories /\ IsRoute(m2, p, r)
             /\ n + 1 \in 1 .. K /\ m2[r[n + 1]] = m[r[n + 1]]
             /\ IsItem(m2, r[n + 1]) <=> IsItem(m, r[n + 1])
             /\ Answered(m2, m2[r[n + 1]], q) = Answered(m, m[r[n + 1]], q)
  <2>1. m2 \in Memories /\ IsRoute(m2, p, r) /\ IsRoute(m2, q, c)
    <3>1. Alters(m, m2, Places(r))
      BY <1>4
    <3> QED
      BY <3>1, RouteKept, Zenon DEF Alters
  <2>2. n + 1 \in 1 .. K /\ ~ (n + 1 <= n)
    BY <1>1
  <2>3. m2[r[n + 1]] = m[r[n + 1]]
    BY <1>4, <2>2, Zenon
  <2>4. \A j \in 1 .. Len(c) : m2[c[j]] = m[c[j]]
    <3> SUFFICES ASSUME NEW j \in 1 .. Len(c) PROVE m2[c[j]] = m[c[j]]
      OBVIOUS
    <3>1. c[j] \in Addresses /\ c[j] \in Places(c)
      BY RouteFacts DEF Places
    <3>2. Alters(m, m2, Places(r))
      BY <1>4
    <3> QED
      BY <3>1, <3>2 DEF Alters
  <2>5. \A t, d : GetTagData(m2, t, d, q) = GetTagData(m, t, d, q)
    BY <2>1, <2>4, GetSame
  <2> QED
    BY <2>1, <2>2, <2>3, <2>5, Zenon DEF IsItem, Answered
<1> HIDE DEF K
<1>5. 0 \in S
  <2>1. 0 \in 0 .. K - 1 /\ 0 + 1 = 1 /\ \A j \in 1 .. K : ~ (j <= 0)
    BY <1>1
  <2>2. Alters(m, m, Places(r))
    BY AltersNothing
  <2>3. Good(0, m)
    BY <1>1, <2>1, <2>2
  <2> HIDE DEF Good
  <2> QED
    BY <2>1, <2>3
<1>6. ASSUME NEW n \in 0 .. K - 1 - 1, n \in S PROVE n + 1 \in S
  <2>1. n \in 0 .. K - 1 /\ n + 1 \in 0 .. K - 1 /\ n + 1 \in 1 .. K /\ n + 1 < K
    BY <1>1
  <2>2. PICK m2 : Good(n, m2)
    BY <1>6
  <2> DEFINE a == r[n + 1]
             item == Answered(m, m[a], q)
             m3 == IF IsItem(m, a) THEN [m2 EXCEPT ![a] = item] ELSE m2
  <2>3. /\ m2 \in Memories /\ IsRoute(m2, p, r) /\ m2[a] = m[a]
        /\ IsItem(m2, a) <=> IsItem(m, a)
        /\ Answered(m2, m2[a], q) = item
    <3> HIDE DEF Good
    <3> QED
      BY <1>4, <2>1, <2>2
  <2>4. a \in Addresses /\ a \in Places(r) /\ m[a] \in TagItem
    BY <1>2, <2>1, MemoryFacts
  <2>5. item \in TagItem /\ item.tag = m[a].tag
    BY <2>4, AnsweredTyped
  <2> HIDE DEF item
  <2>6. Alters(m, m3, Places(r))
    <3>1. CASE IsItem(m, a)
      <4>1. m2[a].tag \notin Steering /\ item.tag \notin Steering
        BY <2>3, <2>5, <3>1, ItemIsPlain
      <4>2. Alters(m2, m3, Places(r))
        <5> DEFINE n2 == [m2 EXCEPT ![a] = item]
        <5>1. m3 = n2
          BY <3>1
        <5> HIDE DEF n2, m3
        <5>2. Alters(m2, n2, Places(r))
          BY <2>3, <2>4, <2>5, <4>1, AltersOne DEF n2
        <5> QED
          BY <5>1, <5>2
      <4> QED
        BY <2>2, <4>2, AltersTwice
    <3>2. CASE ~ IsItem(m, a)
      BY <2>2, <3>2
    <3> QED
      BY <3>1, <3>2
  <2>7. \A j \in 1 .. K : m3[r[j]] = IF j <= n + 1 THEN done(j) ELSE m[r[j]]
    <3> SUFFICES ASSUME NEW j \in 1 .. K
                 PROVE  m3[r[j]] = IF j <= n + 1 THEN done(j) ELSE m[r[j]]
      OBVIOUS
    <3>1. m2[r[j]] = IF j <= n THEN done(j) ELSE m[r[j]]
      BY <2>2
    <3>2. CASE j = n + 1
      <4>1. done(j) = IF IsItem(m, a) THEN item ELSE m[a]
        BY <3>2 DEF item
      <4>2. m3[a] = IF IsItem(m, a) THEN item ELSE m[a]
        BY <2>3, <2>4 DEF Memories
      <4>3. j <= n + 1
        BY <3>2, <2>1
      <4> HIDE DEF m3, done
      <4> QED
        BY <3>2, <4>1, <4>2, <4>3
    <3>3. CASE j # n + 1
      <4>1. r[j] # a /\ r[j] \in Addresses
        BY <1>2, <1>3, <2>1, <3>3
      <4>2. m3[r[j]] = m2[r[j]]
        BY <2>3, <4>1 DEF Memories
      <4>3. j <= n + 1 <=> j <= n
        BY <2>1, <3>3
      <4> HIDE DEF m3, done
      <4> QED
        BY <3>1, <4>2, <4>3
    <3> QED
      BY <3>2, <3>3
  <2>8. ApplyTagChanges(m, p, q) = ApplyTagChanges(m3, r[n + 1 + 1], q)
    <3>1. ApplyTagChanges(m, p, q) = ApplyTagChanges(m2, r[n + 1], q)
      BY <2>2
    <3>2. n + 1 \in 1 .. Len(r) /\ n + 1 # Len(r)
      BY <2>1 DEF K
    <3>3. ApplyTagChanges(m2, r[n + 1], q) =
            ApplyTagChanges(IF IsItem(m2, r[n + 1])
                            THEN [m2 EXCEPT ![r[n + 1]] = Answered(m2, m2[r[n + 1]], q)] ELSE m2,
                            r[n + 1 + 1], q)
      BY <2>3, <3>2, ApplyAt
    <3>4. m3 = IF IsItem(m2, r[n + 1])
               THEN [m2 EXCEPT ![r[n + 1]] = Answered(m2, m2[r[n + 1]], q)] ELSE m2
      <4> HIDE DEF item
      <4> QED
        BY <2>3
    <3> HIDE DEF m3
    <3> QED
      BY <3>1, <3>3, <3>4, Zenon
  <2> HIDE DEF m3, done
  <2>9. Good(n + 1, m3)
    BY <2>6, <2>7, <2>8
  <2> HIDE DEF Good
  <2> QED
    BY <2>1, <2>9
<1>7. 0 .. K - 1 \subseteq S
  <2> HIDE DEF S
  <2> QED
    BY <1>1, <1>5, <1>6, IntervalInduction
<1>8. K - 1 \in 0 .. K - 1 /\ K - 1 + 1 = K /\ K \in 1 .. K
  BY <1>1
<1>9. PICK m2 : Good(K - 1, m2)
  BY <1>7, <1>8
<1>10. m2 \in Memories /\ IsRoute(m2, p, r) /\ (IsItem(m2, r[K]) <=> IsItem(m, r[K]))
       /\ m2[r[K]] = m[r[K]]
  <2> HIDE DEF Good
  <2>1. /\ m2 \in Memories /\ IsRoute(m2, p, r)
        /\ m2[r[K - 1 + 1]] = m[r[K - 1 + 1]]
        /\ IsItem(m2, r[K - 1 + 1]) <=> IsItem(m, r[K - 1 + 1])
    BY <1>4, <1>8, <1>9
  <2> QED
    BY <1>8, <2>1
<1>11. ApplyTagChanges(m2, r[K], q) = m2
  <2>1. PICK i \in 1 .. Len(r) : i = Len(r)
    BY <1>8 DEF K
  <2>2. ApplyTagChanges(m2, r[i], q) = m2
    BY <1>10, <2>1, ApplyAt
  <2> QED
    BY <2>1, <2>2 DEF K
<1>12. ApplyTagChanges(m, p, q) = m2
  BY <1>8, <1>9, <1>11
<1>13. ~ IsItem(m, r[K])
  BY DEF IsRoute, K, IsItem, Control, TAG_DONE, TAG_SKIP
<1>14. ASSUME NEW j \in 1 .. K PROVE m2[r[j]] = done(j)
  <2>1. CASE j = K
    <3>1. done(K) = m[r[K]]
      BY <1>13
    <3> HIDE DEF done
    <3> QED
      BY <1>10, <2>1, <3>1
  <2>2. CASE j # K
    <3>1. j <= K - 1
      BY <1>1, <2>2
    <3> QED
      BY <1>9, <3>1
  <2> QED
    BY <2>1, <2>2
<1> HIDE DEF done
<1>15. Alters(m, m2, Places(r))
  BY <1>9
<1> QED
  BY <1>12, <1>14, <1>15 DEF K, done

Mapped(F, s) == [i \in DOMAIN s |-> F[s[i]]]

LEMMA MappedAppend ==
  ASSUME NEW F \in [TagItem -> TagItem], NEW s \in Seq(TagItem), NEW x \in TagItem
  PROVE  Mapped(F, Append(s, x)) = Append(Mapped(F, s), F[x])
<1> DEFINE K == Len(s)
           u == Mapped(F, s)
           v == Mapped(F, Append(s, x))
           w == Append(u, F[x])
<1>1. K \in Nat /\ s \in [1 .. K -> TagItem] /\ DOMAIN s = 1 .. K
  OBVIOUS
<1>2. /\ DOMAIN Append(s, x) = 1 .. K + 1
      /\ \A i \in 1 .. K + 1 : Append(s, x)[i] = IF i = K + 1 THEN x ELSE s[i]
  <2> DEFINE t == Append(s, x)
  <2>1. t \in Seq(TagItem) /\ Len(t) = Len(s) + 1
    OBVIOUS
  <2>2. DOMAIN t = 1 .. Len(s) + 1
    BY <2>1
  <2>3. \A i \in 1 .. Len(s) : t[i] = s[i]
    OBVIOUS
  <2>4. t[Len(s) + 1] = x
    OBVIOUS
  <2>5. \A i \in 1 .. K + 1 : i = K + 1 \/ i \in 1 .. K
    <3> HIDE DEF K
    <3> QED
      BY <1>1
  <2>6. \A i \in 1 .. K : i # K + 1
    <3> HIDE DEF K
    <3> QED
      BY <1>1
  <2> HIDE DEF t
  <2> QED
    BY <2>2, <2>3, <2>4, <2>5, <2>6, Zenon DEF t
<1>3. u \in Seq(TagItem) /\ Len(u) = K
  <2>1. u \in [1 .. K -> TagItem]
    BY <1>1 DEF Mapped
  <2> QED
    BY <1>1, <2>1
<1>4. w = [i \in 1 .. K + 1 |-> IF i = K + 1 THEN F[x] ELSE u[i]]
  <2> HIDE DEF u
  <2> QED
    BY <1>3
<1>5. v = [i \in 1 .. K + 1 |-> F[Append(s, x)[i]]]
  BY <1>2 DEF Mapped
<1> HIDE DEF K, w, v
<1>6. ASSUME NEW i \in 1 .. K + 1
      PROVE  F[Append(s, x)[i]] = IF i = K + 1 THEN F[x] ELSE u[i]
  <2>1. i # K + 1 => i \in 1 .. K
    BY <1>1
  <2>2. i \in 1 .. K => u[i] = F[s[i]]
    BY <1>1 DEF Mapped
  <2> HIDE DEF u
  <2> QED
    BY <1>2, <2>1, <2>2
<1> HIDE DEF u
<1>7. v = w
  BY <1>4, <1>5, <1>6
<1> QED
  BY <1>7 DEF v, w, u

\* A list whose items are changed one by one holds what they were changed to.
LEMMA ItemsMapped ==
  ASSUME NEW m \in Memories, NEW p, NEW r, IsRoute(m, p, r),
         NEW m2 \in Memories, IsRoute(m2, p, r), NEW F \in [TagItem -> TagItem],
         \A j \in 1 .. Len(r) : /\ IsItem(m2, r[j]) <=> IsItem(m, r[j])
                                /\ IsItem(m, r[j]) => m2[r[j]] = F[m[r[j]]]
  PROVE  Items(m2, p) = Mapped(F, Items(m, p))
<1> DEFINE K == Len(r)
<1>1. PICK P : Prefixes(m, r, P)
  BY PrefixesExist
<1>2. PICK P2 : Prefixes(m2, r, P2)
  BY PrefixesExist
<1> DEFINE S == {i \in 1 .. K : P2[i] = Mapped(F, P[i])}
<1>3. K \in Nat \ {0} /\ K \in 1 .. K /\ 1 \in 1 .. K /\ r \in [1 .. K -> Addresses]
  BY RouteFacts
<1>4. 1 \in S
  <2>1. P[1] = <<>> /\ P2[1] = <<>>
    BY <1>1, <1>2 DEF Prefixes
  <2>2. Mapped(F, <<>>) = <<>>
    BY DEF Mapped
  <2> QED
    BY <1>3, <2>1, <2>2
<1>5. ASSUME NEW i \in 1 .. K - 1, i \in S PROVE i + 1 \in S
  <2>1. i \in 1 .. K /\ i + 1 \in 1 .. K
    BY <1>3
  <2>2. P[i] \in Seq(TagItem) /\ P2[i] = Mapped(F, P[i])
    BY <1>1, <1>5, <2>1 DEF Prefixes
  <2>3. m[r[i]] \in TagItem
    BY <1>3, <2>1, MemoryFacts
  <2>4. P[i + 1] = IF IsItem(m, r[i]) THEN Append(P[i], m[r[i]]) ELSE P[i]
    BY <1>1, Zenon DEF Prefixes
  <2>5. P2[i + 1] = IF IsItem(m2, r[i]) THEN Append(P2[i], m2[r[i]]) ELSE P2[i]
    BY <1>2, Zenon DEF Prefixes
  <2>6. P2[i + 1] = IF IsItem(m, r[i]) THEN Append(P2[i], F[m[r[i]]]) ELSE P2[i]
    BY <2>1, <2>5, Zenon
  <2>7. Mapped(F, Append(P[i], m[r[i]])) = Append(P2[i], F[m[r[i]]])
    BY <2>2, <2>3, MappedAppend
  <2>8. P2[i + 1] = Mapped(F, P[i + 1])
    BY <2>2, <2>4, <2>6, <2>7, Zenon
  <2> QED
    BY <2>1, <2>8
<1>6. 1 .. K \subseteq S
  <2> HIDE DEF S, K
  <2> QED
    BY <1>3, <1>4, <1>5, PlaceInduction
<1>7. P2[K] = Mapped(F, P[K])
  BY <1>3, <1>6
<1> QED
  BY <1>1, <1>2, <1>7, ItemsAre

LEMMA ItemsSame ==
  ASSUME NEW m \in Memories, NEW p, NEW r, IsRoute(m, p, r),
         NEW m2 \in Memories, IsRoute(m2, p, r),
         \A j \in 1 .. Len(r) : m2[r[j]] = m[r[j]]
  PROVE  Items(m2, p) = Items(m, p)
<1> DEFINE F == [x \in TagItem |-> x]
<1>1. F \in [TagItem -> TagItem]
  OBVIOUS
<1>2. \A j \in 1 .. Len(r) : /\ IsItem(m2, r[j]) <=> IsItem(m, r[j])
                             /\ IsItem(m, r[j]) => m2[r[j]] = F[m[r[j]]]
  BY RouteFacts, MemoryFacts DEF IsItem
<1>3. Items(m, p) \in Seq(TagItem)
  <2>1. PICK P : Prefixes(m, r, P)
    BY PrefixesExist
  <2> QED
    BY <2>1, ItemsAre
<1>4. Items(m2, p) = Mapped(F, Items(m, p))
  <2> HIDE DEF F
  <2> QED
    BY <1>1, <1>2, ItemsMapped
<1>5. ASSUME NEW s \in Seq(TagItem) PROVE Mapped(F, s) = s
  BY DEF Mapped
<1> QED
  BY <1>3, <1>4, <1>5

\* WalksAgree for any memory and any two lists that end.
LEMMA ApplyAgrees ==
  ASSUME NEW m \in Memories, NEW p, NEW r, IsRoute(m, p, r),
         NEW q, NEW c, IsRoute(m, q, c), Places(r) \cap Places(c) = {}
  PROVE  Items(ApplyTagChanges(m, p, q), p) =
           LET old == Items(m, p)
           IN  [i \in DOMAIN old |-> Answered(m, old[i], q)]
<1> DEFINE F == [x \in TagItem |-> Answered(m, x, q)]
           m2 == ApplyTagChanges(m, p, q)
<1>1. F \in [TagItem -> TagItem]
  BY AnsweredTyped
<1>2. /\ Alters(m, m2, Places(r))
      /\ \A j \in 1 .. Len(r) :
           m2[r[j]] = IF IsItem(m, r[j]) THEN Answered(m, m[r[j]], q) ELSE m[r[j]]
  BY ApplyIs
<1> HIDE DEF m2
<1>3. IsRoute(m2, p, r) /\ m2 \in Memories
  BY <1>2, RouteKept DEF Alters
<1>4. ASSUME NEW j \in 1 .. Len(r)
      PROVE  /\ IsItem(m2, r[j]) <=> IsItem(m, r[j])
             /\ IsItem(m, r[j]) => m2[r[j]] = F[m[r[j]]]
  <2>1. m[r[j]] \in TagItem
    <3>1. r[j] \in Addresses
      BY RouteFacts
    <3> QED
      BY <3>1, MemoryFacts
  <2>2. Answered(m, m[r[j]], q).tag = m[r[j]].tag
    BY <2>1, AnsweredTyped
  <2>3. F[m[r[j]]] = Answered(m, m[r[j]], q)
    BY <2>1
  <2> HIDE DEF F
  <2> QED
    BY <1>2, <2>2, <2>3, Zenon DEF IsItem
<1>5. Items(m2, p) = Mapped(F, Items(m, p))
  <2> HIDE DEF F
  <2> QED
    BY <1>1, <1>3, <1>4, ItemsMapped
<1>6. Items(m, p) \in Seq(TagItem)
  <2>1. PICK P : Prefixes(m, r, P)
    BY PrefixesExist
  <2> QED
    BY <2>1, ItemsAre
<1>7. ASSUME NEW s \in Seq(TagItem)
      PROVE  Mapped(F, s) = [i \in DOMAIN s |-> Answered(m, s[i], q)]
  BY DEF Mapped
<1> QED
  BY <1>5, <1>6, <1>7 DEF m2

-----------------------------------------------------------------------------
(* Clones *)

Refreshing ==
  [y \in [mem : Memories, to : Nat, at : Nat] |->
     LET n == NextTagItem(y.mem, y.at)
     IN  IF n.item = 0 THEN y
         ELSE [mem |-> [y.mem EXCEPT ![y.to] = y.mem[n.item]],
               to |-> y.to + 1, at |-> n.rest]]

RefreshFrom(m, a, q) == Loop(Refreshing, [mem |-> m, to |-> a, at |-> q]).mem

LEMMA RefreshingTyped ==
  Refreshing \in [[mem : Memories, to : Nat, at : Nat] -> [mem : Memories, to : Nat, at : Nat]]
<1> DEFINE D == [mem : Memories, to : Nat, at : Nat]
<1> SUFFICES ASSUME NEW y \in D PROVE Refreshing[y] \in D
  BY DEF Refreshing
<1> DEFINE n == NextTagItem(y.mem, y.at)
           m2 == [y.mem EXCEPT ![y.to] = y.mem[n.item]]
<1>1. y.mem \in Memories /\ y.at \in Nat /\ y.to \in Nat /\ y.to + 1 \in Nat
  OBVIOUS
<1>2. n.rest \in Nat /\ (n.item # 0 => n.item \in Addresses)
  BY <1>1, NextTyped
<1>3. n.item # 0 => m2 \in Memories
  <2> SUFFICES ASSUME n.item # 0 PROVE m2 \in Memories
    OBVIOUS
  <2>1. y.mem[n.item] \in TagItem
    BY <1>1, <1>2, MemoryFacts
  <2> HIDE DEF n
  <2> QED
    BY <1>1, <2>1 DEF Memories
<1>4. Refreshing[y] = IF n.item = 0 THEN y
                      ELSE [mem |-> m2, to |-> y.to + 1, at |-> n.rest]
  BY DEF Refreshing
<1> HIDE DEF n, m2
<1> QED
  BY <1>1, <1>2, <1>3, <1>4

LEMMA RefreshEnds ==
  ASSUME NEW m \in Memories, NEW p, NEW r, IsRoute(m, p, r), NEW a \in Nat
  PROVE  RefreshFrom(m, a, r[Len(r)]) = m
<1> DEFINE D == [mem : Memories, to : Nat, at : Nat]
           x == [mem |-> m, to |-> a, at |-> r[Len(r)]]
           n == NextTagItem(m, r[Len(r)])
<1>1. Refreshing \in [D -> D]
  BY RefreshingTyped
<1>2. Len(r) \in 1 .. Len(r)
  BY RouteFacts
<1>3. n = [item |-> 0, rest |-> 0] /\ r[Len(r)] \in Addresses
  BY <1>2, NextAt
<1>4. n.item = 0 /\ x \in D
  BY <1>3, MemoryFacts
<1>5. Refreshing[x] = x
  BY <1>4 DEF Refreshing
<1>6. Loop(Refreshing, x) = IF Refreshing[x] = x THEN x ELSE Loop(Refreshing, Refreshing[x])
  BY <1>1, <1>4, LoopTurns
<1>7. Loop(Refreshing, x) = x
  BY <1>5, <1>6
<1> QED
  BY <1>7 DEF RefreshFrom

\* One place of the way through a list, for RefreshTagItemClones.
LEMMA RefreshAt ==
  ASSUME NEW m \in Memories, NEW p, NEW r, IsRoute(m, p, r), NEW i \in 1 .. Len(r), NEW a \in Nat
  PROVE  RefreshFrom(m, a, r[i]) =
           IF i = Len(r) THEN m
           ELSE IF IsItem(m, r[i]) THEN RefreshFrom([m EXCEPT ![a] = m[r[i]]], a + 1, r[i + 1])
           ELSE RefreshFrom(m, a, r[i + 1])
<1> DEFINE D == [mem : Memories, to : Nat, at : Nat]
           next == Refreshing
           x == [mem |-> m, to |-> a, at |-> r[i]]
           n == NextTagItem(m, r[i])
           m2 == [m EXCEPT ![a] = m[r[i]]]
<1>1. next \in [D -> D]
  BY RefreshingTyped
<1>2. \A n2, b, q : RefreshFrom(n2, b, q) = Loop(next, [mem |-> n2, to |-> b, at |-> q]).mem
  BY DEF RefreshFrom
<1>3. r \in [1 .. Len(r) -> Addresses] /\ Len(r) \in Nat
  BY RouteFacts
<1>4. Addresses \subseteq Nat
  BY MemoryFacts
<1>5. r[i] \in Addresses /\ x \in D
  BY <1>3, <1>4
<1>6. next[x] = IF n.item = 0 THEN x
                ELSE [mem |-> [m EXCEPT ![a] = m[n.item]], to |-> a + 1, at |-> n.rest]
  BY <1>5 DEF Refreshing
<1>7. Loop(next, x) = IF next[x] = x THEN x ELSE Loop(next, next[x])
  BY <1>1, <1>5, LoopTurns
<1> HIDE DEF next
<1>8. ASSUME i = Len(r) PROVE RefreshFrom(m, a, r[i]) = m
  BY <1>8, RefreshEnds
<1>9. ASSUME i < Len(r), ~ IsItem(m, r[i])
      PROVE  RefreshFrom(m, a, r[i]) = RefreshFrom(m, a, r[i + 1])
  <2> DEFINE y == [mem |-> m, to |-> a, at |-> r[i + 1]]
  <2>a. i + 1 \in 1 .. Len(r)
    BY <1>3, <1>9
  <2>b. r[i + 1] \in Addresses
    BY <1>3, <2>a
  <2>1. i + 1 \in 1 .. Len(r) /\ r[i + 1] \in Addresses /\ y \in D
    BY <1>4, <2>a, <2>b
  <2>2. NextTagItem(m, r[i + 1]) = n
    BY <1>9, NextAt
  <2>3. next[y] = IF n.item = 0 THEN y
                  ELSE [mem |-> [m EXCEPT ![a] = m[n.item]], to |-> a + 1, at |-> n.rest]
    BY <2>1, <2>2 DEF Refreshing, next
  <2>4. CASE n.item = 0
    <3>1. Loop(next, x) = x
      BY <1>6, <1>7, <2>4
    <3>2. Loop(next, y) = IF next[y] = y THEN y ELSE Loop(next, next[y])
      BY <1>1, <2>1, LoopTurns
    <3>3. Loop(next, y) = y
      BY <2>3, <2>4, <3>2
    <3> QED
      BY <1>2, <3>1, <3>3
  <2>5. CASE n.item # 0
    <3>4. next[x] # x /\ next[x] = next[y]
      BY <1>6, <2>3, <2>5
    <3>5. Loop(next, x) = Loop(next, y)
      <4> HIDE DEF x, y, D
      <4> QED
        BY <1>1, <1>5, <2>1, <3>4, LoopMeets
    <3> QED
      BY <1>2, <3>5
  <2> QED
    BY <2>4, <2>5
<1>10. ASSUME IsItem(m, r[i])
       PROVE  RefreshFrom(m, a, r[i]) = RefreshFrom(m2, a + 1, r[i + 1]) /\ i < Len(r)
  <2>a. n = [item |-> r[i], rest |-> r[i + 1]] /\ i < Len(r)
    BY <1>10, NextAt
  <2>1. n.item = r[i] /\ n.rest = r[i + 1] /\ i < Len(r)
    BY <2>a
  <2>4. 0 \notin Addresses
    BY MemoryFacts
  <2>5. next[x] = [mem |-> m2, to |-> a + 1, at |-> r[i + 1]] /\ next[x] # x
    BY <1>5, <1>6, <2>1, <2>4
  <2> QED
    BY <1>2, <1>7, <2>1, <2>5
<1>11. i = Len(r) \/ i < Len(r)
  <2> DEFINE K == Len(r)
  <2>1. K \in Nat /\ i \in 1 .. K
    BY <1>3
  <2> HIDE DEF K
  <2>2. i = K \/ i < K
    BY <2>1
  <2> QED
    BY <2>2 DEF K
<1>12. i = Len(r) => ~ (i < Len(r))
  BY <1>3
<1> HIDE DEF m2
<1>13. RefreshFrom(m, a, r[i]) =
         IF i = Len(r) THEN m
         ELSE IF IsItem(m, r[i]) THEN RefreshFrom(m2, a + 1, r[i + 1])
         ELSE RefreshFrom(m, a, r[i + 1])
  BY <1>8, <1>9, <1>10, <1>11, <1>12
<1> QED
  BY <1>13 DEF m2

\* A walk depends on its own places alone.
LEMMA RouteSame ==
  ASSUME NEW m \in Memories, NEW p, NEW r, IsRoute(m, p, r), NEW m2,
         \A j \in 1 .. Len(r) : m2[r[j]] = m[r[j]]
  PROVE  IsRoute(m2, p, r)
<1>1. Len(r) \in Nat \ {0} /\ Len(r) \in 1 .. Len(r)
  BY RouteFacts
<1>2. \A i \in 1 .. Len(r) - 1 : i \in 1 .. Len(r)
  <2> DEFINE K == Len(r)
  <2> HIDE DEF K
  <2>1. K \in Nat => \A i \in 1 .. K - 1 : i \in 1 .. K
    OBVIOUS
  <2> QED
    BY <1>1, <2>1 DEF K
<1>3. \A i \in 1 .. Len(r) : Behind(m2, r[i]) = Behind(m, r[i])
  BY DEF Behind
<1> QED
  BY <1>1, <1>2, <1>3, Zenon DEF IsRoute

LEMMA PrefixFacts ==
  ASSUME NEW m \in Memories, NEW p, NEW r, IsRoute(m, p, r), NEW P, Prefixes(m, r, P)
  PROVE  \A i \in 1 .. Len(r) :
           /\ P[i] \in Seq(TagItem) /\ Len(P[i]) \in 0 .. i - 1
           /\ \A k \in 1 .. Len(P[i]) : P[i][k].tag \notin Control
<1> DEFINE K == Len(r)
           Good(i) == /\ P[i] \in Seq(TagItem) /\ Len(P[i]) \in 0 .. i - 1
                      /\ \A k \in 1 .. Len(P[i]) : P[i][k].tag \notin Control
           S == {i \in 1 .. K : Good(i)}
<1>1. K \in Nat \ {0} /\ K \in 1 .. K /\ 1 \in 1 .. K /\ r \in [1 .. K -> Addresses]
  BY RouteFacts
<1>2. 1 \in S
  BY <1>1 DEF Prefixes
<1>3. ASSUME NEW i \in 1 .. K - 1, i \in S PROVE i + 1 \in S
  <2>1. i \in 1 .. K /\ i + 1 \in 1 .. K
    BY <1>1
  <2>2. m[r[i]] \in TagItem
    BY <1>1, <2>1, MemoryFacts
  <2>3. P[i + 1] = IF IsItem(m, r[i]) THEN Append(P[i], m[r[i]]) ELSE P[i]
    BY Zenon DEF Prefixes
  <2>4. Good(i)
    BY <1>3
  <2> DEFINE s == P[i]
             n == Len(s)
  <2>5. s \in Seq(TagItem) /\ n \in 0 .. i - 1 /\ n \in Nat
    BY <2>4
  <2>6. CASE IsItem(m, r[i])
    <3> DEFINE t == Append(s, m[r[i]])
    <3>1. t \in Seq(TagItem) /\ Len(t) = n + 1
      BY <2>2, <2>5
    <3>2. \A k \in 1 .. n : t[k] = s[k]
      BY <2>5
    <3>3. t[n + 1] = m[r[i]]
      BY <2>5
    <3>4. P[i + 1] = t
      BY <2>3, <2>6
    <3>5. \A k \in 1 .. n : s[k].tag \notin Control
      BY <2>4
    <3> HIDE DEF t, n, s
    <3>6. \A k \in 1 .. n + 1 : k = n + 1 \/ k \in 1 .. n
      BY <2>5
    <3>7. n + 1 \in 0 .. i + 1 - 1
      BY <2>5
    <3>8. \A k \in 1 .. Len(t) : t[k].tag \notin Control
      BY <2>6, <3>1, <3>2, <3>3, <3>5, <3>6 DEF IsItem
    <3> QED
      BY <2>1, <3>1, <3>4, <3>7, <3>8
  <2>7. CASE ~ IsItem(m, r[i])
    <3>1. P[i + 1] = s
      BY <2>3, <2>7
    <3>2. n \in 0 .. i + 1 - 1
      BY <2>5
    <3> QED
      BY <2>1, <2>4, <3>1, <3>2
  <2> QED
    BY <2>6, <2>7
<1>4. 1 .. K \subseteq S
  <2> HIDE DEF S, K
  <2> QED
    BY <1>1, <1>2, <1>3, PlaceInduction
<1> QED
  BY <1>4

LEMMA ItemsTyped ==
  ASSUME NEW m \in Memories, NEW p, NEW r, IsRoute(m, p, r)
  PROVE  /\ Items(m, p) \in Seq(TagItem) /\ Len(Items(m, p)) \in 0 .. Len(r) - 1
         /\ \A k \in 1 .. Len(Items(m, p)) : Items(m, p)[k].tag \notin Control
<1>1. PICK P : Prefixes(m, r, P)
  BY PrefixesExist
<1>2. Len(r) \in 1 .. Len(r)
  BY RouteFacts
<1>3. Items(m, p) = P[Len(r)]
  BY <1>1, ItemsAre
<1> QED
  BY <1>1, <1>2, <1>3, PrefixFacts

\* m2 is m but for the items s from the address a on.
Copied(m, m2, a, s) ==
  /\ m2 \in Memories
  /\ \A b \in Addresses :
       m2[b] = IF b \in a .. a + Len(s) - 1 THEN s[b - a + 1] ELSE m[b]

LEMMA CopiedOne ==
  ASSUME NEW m, NEW m2, NEW a \in Nat, NEW s \in Seq(TagItem), Copied(m, m2, a, s),
         NEW x \in TagItem
  PROVE  Copied(m, [m2 EXCEPT ![a + Len(s)] = x], a, Append(s, x))
<1> DEFINE n == Len(s)
           t == Append(s, x)
           m3 == [m2 EXCEPT ![a + n] = x]
<1>1. m2 \in Memories /\ m3 \in Memories
  BY DEF Copied, Memories
<1>2. n \in Nat /\ Len(t) = n + 1
  OBVIOUS
<1>3. \A k \in 1 .. n : t[k] = s[k]
  OBVIOUS
<1>4. t[n + 1] = x
  OBVIOUS
<1>5. \A b \in Addresses : m3[b] = IF b = a + n THEN x ELSE m2[b]
  BY <1>1 DEF Memories
<1>6. \A b \in Addresses : m2[b] = IF b \in a .. a + n - 1 THEN s[b - a + 1] ELSE m[b]
  BY DEF Copied
<1>7. Addresses \subseteq Nat
  BY <1>1, MemoryFacts
<1> HIDE DEF n, t, m3
<1>8. ASSUME NEW b \in Addresses
      PROVE  m3[b] = IF b \in a .. a + (n + 1) - 1 THEN t[b - a + 1] ELSE m[b]
  <2>1. CASE b = a + n
    <3>1. b \in a .. a + (n + 1) - 1 /\ b - a + 1 = n + 1
      BY <1>2, <2>1
    <3> QED
      BY <1>4, <1>5, <2>1, <3>1
  <2>2. CASE b \in a .. a + n - 1
    <3>1. b \in a .. a + (n + 1) - 1 /\ b - a + 1 \in 1 .. n /\ b # a + n
      BY <1>2, <2>2
    <3> QED
      BY <1>3, <1>5, <1>6, <2>2, <3>1
  <2>3. CASE b # a + n /\ b \notin a .. a + n - 1
    <3>1. b \notin a .. a + (n + 1) - 1
      BY <1>2, <1>7, <2>3
    <3> QED
      BY <1>5, <1>6, <2>3, <3>1
  <2> QED
    BY <2>1, <2>2, <2>3
<1>9. Copied(m, m3, a, t)
  BY <1>1, <1>2, <1>8 DEF Copied
<1> QED
  BY <1>9 DEF m3, n, t

\* RefreshTagItemClones copies the items of the list one behind the other.
LEMMA RefreshIs ==
  ASSUME NEW m \in Memories, NEW p, NEW r, IsRoute(m, p, r), NEW a \in Nat,
         \A j \in 1 .. Len(r) : r[j] < a
  PROVE  Copied(m, Refresh(m, a, p), a, Items(m, p))
<1> DEFINE K == Len(r)
<1>1. PICK P : Prefixes(m, r, P)
  BY PrefixesExist
<1> DEFINE Good(i, n) == /\ Copied(m, n, a, P[i])
                         /\ Refresh(m, a, p) = RefreshFrom(n, a + Len(P[i]), r[i])
           S == {i \in 1 .. K : \E n : Good(i, n)}
<1>2. K \in Nat \ {0} /\ K \in 1 .. K /\ 1 \in 1 .. K /\ r \in [1 .. K -> Addresses] /\ r[1] = p
  BY RouteFacts
<1>3. \A i \in 1 .. K : P[i] \in Seq(TagItem) /\ Len(P[i]) \in Nat
  BY <1>1 DEF Prefixes
<1>4. Addresses \subseteq Nat
  BY MemoryFacts
<1>5. ASSUME NEW i \in 1 .. K, NEW n, Good(i, n)
      PROVE  /\ n \in Memories /\ IsRoute(n, p, r)
             /\ n[r[i]] = m[r[i]] /\ (IsItem(n, r[i]) <=> IsItem(m, r[i]))
  <2>1. Copied(m, n, a, P[i])
    BY <1>5
  <2>2. ASSUME NEW j \in 1 .. K PROVE n[r[j]] = m[r[j]]
    <3> DEFINE b == r[j]
    <3>1. b \in Addresses /\ b < a /\ b \in Nat
      BY <1>2, <1>4
    <3>2. b \notin a .. a + Len(P[i]) - 1
      BY <1>3, <3>1
    <3> HIDE DEF b
    <3>3. n[b] = m[b]
      BY <2>1, <3>1, <3>2, Zenon DEF Copied
    <3> QED
      BY <3>3 DEF b
  <2>3. IsRoute(n, p, r)
    BY <2>2, RouteSame
  <2> QED
    BY <2>1, <2>2, <2>3 DEF Copied, IsItem
<1>6. 1 \in S
  <2>1. P[1] = <<>> /\ Len(P[1]) = 0 /\ a + 0 = a
    BY <1>1 DEF Prefixes
  <2>2. Copied(m, m, a, P[1])
    <3>1. \A b \in Addresses : b \notin a .. a + 0 - 1
      BY <1>4
    <3> QED
      BY <2>1, <3>1 DEF Copied
  <2>3. Refresh(m, a, p) = RefreshFrom(m, a, p)
    BY DEF Refresh, RefreshFrom, Refreshing
  <2>4. Good(1, m)
    BY <1>2, <2>1, <2>2, <2>3
  <2> HIDE DEF Good
  <2> QED
    BY <1>2, <2>4
<1>7. ASSUME NEW i \in 1 .. K - 1, i \in S PROVE i + 1 \in S
  <2>1. i \in 1 .. K /\ i + 1 \in 1 .. K /\ i # K
    <3> HIDE DEF K
    <3> QED
      BY <1>2
  <2>2. PICK n : Good(i, n)
    BY <1>7
  <2> DEFINE s == P[i]
             x == m[r[i]]
             k == Len(s)
             n2 == [n EXCEPT ![a + k] = x]
  <2>3. n \in Memories /\ IsRoute(n, p, r) /\ n[r[i]] = x /\ (IsItem(n, r[i]) <=> IsItem(m, r[i]))
    <3> HIDE DEF Good
    <3> QED
      BY <1>5, <2>1, <2>2
  <2>4. P[i + 1] = IF IsItem(m, r[i]) THEN Append(s, x) ELSE s
    BY <1>1, Zenon DEF Prefixes
  <2>5. s \in Seq(TagItem) /\ k \in Nat /\ a + k \in Nat /\ a + k + 1 = a + (k + 1)
    BY <1>3, <2>1
  <2>6. RefreshFrom(n, a + k, r[i]) =
          IF IsItem(m, r[i]) THEN RefreshFrom(n2, a + k + 1, r[i + 1])
          ELSE RefreshFrom(n, a + k, r[i + 1])
    <3> DEFINE c == a + k
    <3>1. c \in Nat
      BY <2>5
    <3>2. RefreshFrom(n, c, r[i]) =
            IF i = K THEN n
            ELSE IF IsItem(n, r[i]) THEN RefreshFrom([n EXCEPT ![c] = n[r[i]]], c + 1, r[i + 1])
            ELSE RefreshFrom(n, c, r[i + 1])
      <4> HIDE DEF c
      <4> QED
        BY <2>1, <2>3, <3>1, RefreshAt
    <3> HIDE DEF k
    <3> QED
      BY <2>1, <2>3, <3>2
  <2>7. x \in TagItem
    BY <1>2, <2>1, MemoryFacts
  <2>8. CASE IsItem(m, r[i])
    <3>1. Copied(m, n2, a, Append(s, x))
      BY <2>2, <2>5, <2>7, CopiedOne
    <3>2. Len(Append(s, x)) = k + 1
      BY <2>5
    <3>3. Refresh(m, a, p) = RefreshFrom(n2, a + (k + 1), r[i + 1])
      BY <2>2, <2>5, <2>6, <2>8
    <3>4. P[i + 1] = Append(s, x)
      BY <2>4, <2>8
    <3> HIDE DEF n2, s, x, k
    <3>5. Good(i + 1, n2)
      BY <3>1, <3>2, <3>3, <3>4
    <3> HIDE DEF Good
    <3> QED
      BY <2>1, <3>5
  <2>9. CASE ~ IsItem(m, r[i])
    <3>1. P[i + 1] = s
      BY <2>4, <2>9
    <3>2. Refresh(m, a, p) = RefreshFrom(n, a + k, r[i + 1])
      BY <2>2, <2>6, <2>9
    <3>3. Good(i + 1, n)
      BY <2>2, <3>1, <3>2
    <3> HIDE DEF Good
    <3> QED
      BY <2>1, <3>3
  <2> QED
    BY <2>8, <2>9
<1>8. 1 .. K \subseteq S
  <2> HIDE DEF S, K
  <2> QED
    BY <1>2, <1>6, <1>7, PlaceInduction
<1>9. PICK n : Good(K, n)
  BY <1>2, <1>8
<1>10. Items(m, p) = P[K]
  BY <1>1, ItemsAre
<1>11. RefreshFrom(n, a + Len(P[K]), r[K]) = n
  <2>1. n \in Memories /\ IsRoute(n, p, r)
    <3> HIDE DEF Good
    <3> QED
      BY <1>2, <1>5, <1>9
  <2> DEFINE c == a + Len(P[K])
  <2>2. c \in Nat
    BY <1>2, <1>3
  <2>3. RefreshFrom(n, c, r[K]) = n
    <3> HIDE DEF c
    <3> QED
      BY <2>1, <2>2, RefreshEnds
  <2> QED
    BY <2>3
<1> QED
  BY <1>9, <1>10, <1>11

CloneWay(a, k) == [j \in 1 .. k |-> a + j - 1]

\* A clone with its TAG_DONE behind it is a list that holds what was copied.
LEMMA CopyIsList ==
  ASSUME NEW m, NEW m2, NEW a \in Addresses, NEW s \in Seq(TagItem), Copied(m, m2, a, s),
         \A k \in 1 .. Len(s) : s[k].tag \notin Control,
         a + Len(s) \in Addresses, m[a + Len(s)].tag = TAG_DONE
  PROVE  IsRoute(m2, a, CloneWay(a, Len(s) + 1)) /\ Items(m2, a) = s
<1> DEFINE n == Len(s)
           r == CloneWay(a, n + 1)
           P == [i \in 1 .. n + 1 |-> SubSeq(s, 1, i - 1)]
<1>1. n \in Nat /\ n + 1 \in Nat /\ n + 1 - 1 = n /\ s \in [1 .. n -> TagItem]
  OBVIOUS
<1>2. m2 \in Memories
  BY DEF Copied
<1>3. Addresses \subseteq Nat /\ a \in Nat
  BY <1>2, MemoryFacts
<1>4. \A i \in 1 .. n + 1 : a + i - 1 \in Addresses
  <2>1. MemoryEnd \in Nat
    BY TagAssumption, Zenon
  <2>2. a + n \in 1 .. MemoryEnd
    BY DEF Addresses
  <2> HIDE DEF n
  <2> QED
    BY <1>1, <1>3, <2>1, <2>2 DEF Addresses
<1> HIDE DEF n, P
<1>5. r \in [1 .. n + 1 -> Addresses] /\ \A i \in 1 .. n + 1 : r[i] = a + i - 1
  BY <1>4 DEF CloneWay
<1> HIDE DEF r
<1>6. r \in Seq(Addresses) /\ Len(r) = n + 1 /\ r # <<>>
  BY <1>1, <1>5
<1>7. r[1] = a /\ r[n + 1] = a + n
  BY <1>1, <1>3, <1>5
<1>8. \A i \in 1 .. n : m2[r[i]] = s[i] /\ s[i].tag \notin Control /\ s[i] \in TagItem
  <2> SUFFICES ASSUME NEW i \in 1 .. n PROVE m2[r[i]] = s[i]
    BY <1>1 DEF n
  <2> DEFINE b == a + i - 1
  <2>1. i \in 1 .. n + 1 /\ b \in a .. a + n - 1 /\ b - a + 1 = i
    BY <1>1, <1>3
  <2>2. r[i] = b /\ b \in Addresses
    BY <1>4, <1>5, <2>1
  <2> HIDE DEF b
  <2>3. m2[b] = s[b - a + 1]
    BY <2>1, <2>2, Zenon DEF Copied, n
  <2> QED
    BY <2>1, <2>2, <2>3
<1>9. m2[r[n + 1]].tag = TAG_DONE
  <2>1. a + n \notin a .. a + n - 1
    BY <1>1, <1>3
  <2>2. m2[a + n] = m[a + n]
    BY <2>1, Zenon DEF Copied, n
  <2> QED
    BY <1>7, <2>2 DEF n
<1>10. \A i \in 1 .. n : m2[r[i]].tag # TAG_DONE /\ r[i + 1] = Behind(m2, r[i])
  <2> SUFFICES ASSUME NEW i \in 1 .. n PROVE m2[r[i]].tag # TAG_DONE /\ r[i + 1] = Behind(m2, r[i])
    OBVIOUS
  <2>1. m2[r[i]].tag \notin Control
    BY <1>8
  <2>2. Behind(m2, r[i]) = r[i] + 1 /\ m2[r[i]].tag # TAG_DONE
    BY <2>1 DEF Behind, Control, TAG_DONE, TAG_MORE, TAG_SKIP
  <2>3. r[i + 1] = r[i] + 1
    <3>1. i \in 1 .. n + 1 /\ i + 1 \in 1 .. n + 1
      BY <1>1
    <3>2. r[i] = a + i - 1 /\ r[i + 1] = a + (i + 1) - 1
      BY <1>5, <3>1
    <3> QED
      BY <1>1, <1>3, <3>2
  <2> QED
    BY <2>2, <2>3
<1>11. \A i, j \in 1 .. n + 1 : r[i] = r[j] => i = j
  BY <1>1, <1>3, <1>5
<1>12. IsRoute(m2, a, r)
  BY <1>1, <1>6, <1>7, <1>9, <1>10, <1>11 DEF IsRoute
<1>13. Prefixes(m2, r, P)
  <2>1. P \in [1 .. n + 1 -> Seq(TagItem)]
    <3> SUFFICES ASSUME NEW i \in 1 .. n + 1 PROVE SubSeq(s, 1, i - 1) \in Seq(TagItem)
      BY DEF P
    <3>1. \A k \in 1 .. i - 1 : s[k] \in TagItem
      BY <1>1
    <3> QED
      BY <3>1, <1>1
  <2>2. P[1] = <<>>
    BY <1>1 DEF P
  <2>3. ASSUME NEW i \in 1 .. n PROVE P[i + 1] = Append(P[i], s[i])
    <3>1. i \in 1 .. n + 1 /\ i + 1 \in 1 .. n + 1 /\ i + 1 - 1 = i
      BY <1>1
    <3>2. P[i + 1] = SubSeq(s, 1, i) /\ P[i] = SubSeq(s, 1, i - 1)
      BY <3>1 DEF P
    <3>3. SubSeq(s, 1, i) = Append(SubSeq(s, 1, i - 1), s[i])
      BY <1>1
    <3> QED
      BY <3>2, <3>3
  <2>4. \A i \in 1 .. n : IsItem(m2, r[i]) /\ m2[r[i]] = s[i]
    BY <1>8 DEF IsItem
  <2>5. \A i \in 1 .. n : P[i + 1] = IF IsItem(m2, r[i]) THEN Append(P[i], m2[r[i]]) ELSE P[i]
    BY <2>3, <2>4
  <2> QED
    BY <1>1, <1>6, <2>1, <2>2, <2>5 DEF Prefixes
<1>14. P[n + 1] = s
  BY <1>1 DEF P
<1>15. Items(m2, a) = s
  BY <1>2, <1>6, <1>12, <1>13, <1>14, ItemsAre
<1> QED
  BY <1>12, <1>15 DEF r, n

-----------------------------------------------------------------------------
(* The inductive invariant *)

\* r and c are the ways through the list and through the changes in m.
ListsOK(m, r, c) ==
  /\ m \in Memories
  /\ IsRoute(m, List, r) /\ IsRoute(m, Changes, c) /\ Harmless(m, c)
  /\ Places(r) \cap Places(c) = {}
  /\ \A a \in Places(r) \cup Places(c) : a < CloneAt
  /\ CloneAt + Len(r) - 1 \in Addresses

\* The clone is one item behind the other, and after the list has been cloned
\* or the clone refreshed there is room in it for all that the list holds.
CloneOK(r) ==
  /\ fresh \in BOOLEAN
  /\ clone = 0 => ~ fresh
  /\ clone # 0 =>
       /\ clone = CloneAt
       /\ \E k \in 1 .. Len(r) :
            /\ IsRoute(tags, CloneAt, CloneWay(CloneAt, k))
            /\ fresh => cloned = Items(tags, List) /\ k = Len(cloned) + 1

TagInv == \E r, c : ListsOK(tags, r, c) /\ CloneOK(r)

LEMMA CloneAtFacts ==
  CloneAt \in Addresses /\ CloneAt \in Nat /\ CloneAt # 0
<1>1. CloneAt \in Addresses /\ MemoryEnd \in Nat
  BY TagAssumption, Zenon
<1> QED
  BY <1>1 DEF Addresses

LEMMA TagInvInit ==
  TagInit => TagInv
<1> SUFFICES ASSUME TagInit PROVE TagInv
  OBVIOUS
<1> DEFINE r == RouteFrom(tags, List)
           c == RouteFrom(tags, Changes)
<1>1. tags \in InitialTags /\ clone = 0 /\ fresh = FALSE
  BY DEF TagInit
<1>2. /\ tags \in Memories
      /\ IsRoute(tags, List, r) /\ IsRoute(tags, Changes, c)
      /\ \A i \in DOMAIN r : r[i] < CloneAt
      /\ \A j \in DOMAIN c : c[j] < CloneAt
      /\ \A i \in DOMAIN r, j \in DOMAIN c : r[i] # c[j]
      /\ \A j \in DOMAIN c :
           tags[c[j]].tag \notin Control => tags[c[j]].data \notin {TAG_MORE, TAG_SKIP}
      /\ CloneAt + Len(r) - 1 \in Addresses
  BY <1>1, TagAssumption, Zenon
<1> HIDE DEF r, c
<1>3. DOMAIN r = 1 .. Len(r) /\ DOMAIN c = 1 .. Len(c)
  BY <1>2, RouteFacts
<1>4. Places(r) \cap Places(c) = {} /\ \A a \in Places(r) \cup Places(c) : a < CloneAt
  BY <1>2, <1>3 DEF Places
<1>5. Harmless(tags, c)
  BY <1>2, <1>3 DEF Harmless, IsItem
<1>6. ListsOK(tags, r, c) /\ CloneOK(r)
  BY <1>1, <1>2, <1>4, <1>5 DEF ListsOK, CloneOK
<1> QED
  BY <1>6 DEF TagInv

LEMMA ListsAltered ==
  ASSUME NEW m, NEW r, NEW c, ListsOK(m, r, c), NEW S, NEW m2, Alters(m, m2, S),
         S \cap Places(c) = {} \/ Quieter(m, m2, c)
  PROVE  ListsOK(m2, r, c)
<1>1. m2 \in Memories /\ IsRoute(m2, List, r) /\ IsRoute(m2, Changes, c)
  <2>1. m \in Memories /\ IsRoute(m, List, r) /\ IsRoute(m, Changes, c)
    BY DEF ListsOK
  <2> QED
    BY <2>1, RouteKept DEF Alters
<1>2. Harmless(m, c)
  BY DEF ListsOK
<1>3. CASE S \cap Places(c) = {}
  <2>1. \A j \in 1 .. Len(c) : c[j] \in Addresses /\ c[j] \in Places(c)
    BY <1>1, RouteFacts DEF Places
  <2>2. \A j \in 1 .. Len(c) : m2[c[j]] = m[c[j]]
    BY <1>3, <2>1 DEF Alters
  <2>3. Harmless(m2, c)
    BY <1>2, <2>2 DEF Harmless, IsItem
  <2> QED
    BY <1>1, <2>3, Zenon DEF ListsOK
<1>4. CASE Quieter(m, m2, c)
  <2>1. Harmless(m2, c)
    BY <1>2, <1>4, Zenon DEF Harmless, Quieter
  <2> QED
    BY <1>1, <2>1, Zenon DEF ListsOK
<1> QED
  BY <1>3, <1>4

\* A call that changes the list, or the changes.
LEMMA ListStep ==
  ASSUME NEW r, NEW c, ListsOK(tags, r, c), CloneOK(r), NEW S, Alters(tags, tags', S),
         S \cap Places(c) = {} \/ Quieter(tags, tags', c), OnList(tags')
  PROVE  TagInv'
<1>1. ListsOK(tags', r, c)
  BY ListsAltered
<1>2. fresh' = FALSE /\ clone' = clone
  BY DEF OnList
<1>3. tags \in Memories
  BY DEF ListsOK
<1>4. \A k : IsRoute(tags, CloneAt, CloneWay(CloneAt, k)) => IsRoute(tags', CloneAt, CloneWay(CloneAt, k))
  BY <1>3, RouteKept
<1>5. CloneOK(r)'
  BY <1>2, <1>4 DEF CloneOK
<1> QED
  BY <1>1, <1>5 DEF TagInv

\* The clone is apart from both lists.
LEMMA CloneApart ==
  ASSUME NEW m, NEW r, NEW c, ListsOK(m, r, c), NEW k \in Nat
  PROVE  LET w == CloneWay(CloneAt, k)
         IN  Places(w) \cap Places(c) = {} /\ Places(w) \cap Places(r) = {}
<1> DEFINE w == CloneWay(CloneAt, k)
<1>1. CloneAt \in Nat
  BY CloneAtFacts
<1>2. Len(w) = k /\ \A j \in 1 .. k : w[j] = CloneAt + j - 1
  BY DEF CloneWay
<1>3. \A j \in 1 .. k : w[j] >= CloneAt /\ w[j] \in Nat
  BY <1>1, <1>2
<1>4. \A a \in Places(w) : a \in Nat /\ a >= CloneAt
  BY <1>2, <1>3 DEF Places
<1>5. \A a \in Places(r) \cup Places(c) : a < CloneAt
  BY DEF ListsOK
<1>6. \A a \in Nat : a >= CloneAt => ~ (a < CloneAt)
  BY <1>1
<1> HIDE DEF w
<1>7. Places(w) \cap Places(c) = {} /\ Places(w) \cap Places(r) = {}
  BY <1>4, <1>5, <1>6
<1> QED
  BY <1>7 DEF w

\* A call that changes the clone: k is how long that is.
LEMMA CloneStep ==
  ASSUME NEW r, NEW c, ListsOK(tags, r, c), CloneOK(r), NEW k \in 1 .. Len(r),
         IsRoute(tags, CloneAt, CloneWay(CloneAt, k)),
         fresh => cloned = Items(tags, List) /\ k = Len(cloned) + 1,
         Alters(tags, tags', Places(CloneWay(CloneAt, k))), OnClone(tags')
  PROVE  TagInv'
<1> DEFINE w == CloneWay(CloneAt, k)
<1>0. k \in Nat
  BY RouteFacts
<1>1. Places(w) \cap Places(c) = {} /\ Places(w) \cap Places(r) = {}
  BY <1>0, CloneApart
<1> HIDE DEF w
<1>2. ListsOK(tags', r, c)
  BY <1>1, ListsAltered DEF w
<1>3. UNCHANGED <<clone, fresh, cloned>>
  BY DEF OnClone
<1>4. tags \in Memories /\ IsRoute(tags, List, r)
  BY DEF ListsOK
<1>5. IsRoute(tags', CloneAt, w)
  BY <1>4, RouteKept DEF w
<1>6. Items(tags', List) = Items(tags, List)
  <2>1. \A j \in 1 .. Len(r) : r[j] \in Addresses /\ r[j] \in Places(r)
    BY <1>4, RouteFacts DEF Places
  <2>2. \A j \in 1 .. Len(r) : tags'[r[j]] = tags[r[j]]
    BY <1>1, <2>1 DEF Alters, w
  <2>3. tags' \in Memories /\ IsRoute(tags', List, r)
    BY <1>2 DEF ListsOK
  <2> QED
    BY <1>4, <2>2, <2>3, ItemsSame
<1>7. fresh' => cloned' = Items(tags', List) /\ k = Len(cloned') + 1
  BY <1>3, <1>6
<1>8. CloneOK(r)'
  BY <1>3, <1>5, <1>7 DEF CloneOK, w
<1> QED
  BY <1>2, <1>8 DEF TagInv

\* What comes of the list being copied to a place that ends where its items do.
LEMMA CloneMade ==
  ASSUME NEW m, NEW r, NEW c, ListsOK(m, r, c), NEW m2, m2 = Refresh(m, CloneAt, List),
         m[CloneAt + Len(Items(m, List))].tag = TAG_DONE
  PROVE  LET s == Items(m, List)
         IN  /\ ListsOK(m2, r, c)
             /\ Len(s) + 1 \in 1 .. Len(r)
             /\ IsRoute(m2, CloneAt, CloneWay(CloneAt, Len(s) + 1))
             /\ Items(m2, CloneAt) = s /\ Items(m2, List) = s
<1> DEFINE s == Items(m, List)
<1>1. /\ m \in Memories /\ IsRoute(m, List, r) /\ IsRoute(m, Changes, c) /\ Harmless(m, c)
      /\ \A a \in Places(r) \cup Places(c) : a < CloneAt
      /\ CloneAt + Len(r) - 1 \in Addresses
  BY DEF ListsOK
<1>2. \A j \in 1 .. Len(r) : r[j] < CloneAt /\ r[j] \in Addresses
  BY <1>1, RouteFacts DEF Places
<1>3. \A j \in 1 .. Len(c) : c[j] < CloneAt /\ c[j] \in Addresses
  BY <1>1, RouteFacts DEF Places
<1>4. CloneAt \in Addresses /\ CloneAt \in Nat /\ Addresses \subseteq Nat
  BY <1>1, CloneAtFacts, MemoryFacts
<1>5. Copied(m, m2, CloneAt, s)
  BY <1>1, <1>2, <1>4, RefreshIs
<1>6. /\ s \in Seq(TagItem) /\ Len(s) \in 0 .. Len(r) - 1 /\ Len(r) \in Nat \ {0}
      /\ \A k \in 1 .. Len(s) : s[k].tag \notin Control
  BY <1>1, ItemsTyped, RouteFacts
<1>7. m[CloneAt + Len(s)].tag = TAG_DONE
  OBVIOUS
<1> HIDE DEF s
<1>8. CloneAt + Len(s) \in Addresses
  <2> DEFINE K == Len(r)
             n == Len(s)
  <2>1. MemoryEnd \in Nat
    BY TagAssumption, Zenon
  <2>2. K \in Nat /\ n \in 0 .. K - 1 /\ CloneAt + K - 1 \in 1 .. MemoryEnd /\ CloneAt \in 1 .. MemoryEnd
    BY <1>1, <1>4, <1>6 DEF Addresses
  <2> HIDE DEF K, n
  <2>3. CloneAt + n \in 1 .. MemoryEnd
    BY <2>1, <2>2
  <2> QED
    BY <2>3 DEF Addresses, n
<1>9. IsRoute(m2, CloneAt, CloneWay(CloneAt, Len(s) + 1)) /\ Items(m2, CloneAt) = s
  BY <1>4, <1>5, <1>6, <1>7, <1>8, CopyIsList
<1>10. \A a \in Addresses : a < CloneAt => m2[a] = m[a]
  <2> SUFFICES ASSUME NEW a \in Addresses, a < CloneAt PROVE m2[a] = m[a]
    OBVIOUS
  <2>1. a \notin CloneAt .. CloneAt + Len(s) - 1
    BY <1>4, <1>6
  <2> QED
    BY <1>5, <2>1, Zenon DEF Copied
<1>11. \A j \in 1 .. Len(r) : m2[r[j]] = m[r[j]]
  BY <1>2, <1>10
<1>12. \A j \in 1 .. Len(c) : m2[c[j]] = m[c[j]]
  BY <1>3, <1>10
<1>13. m2 \in Memories /\ IsRoute(m2, List, r) /\ IsRoute(m2, Changes, c)
  BY <1>1, <1>5, <1>11, <1>12, RouteSame DEF Copied
<1>14. Harmless(m2, c)
  BY <1>1, <1>12 DEF Harmless, IsItem
<1>15. ListsOK(m2, r, c)
  BY <1>13, <1>14, Zenon DEF ListsOK
<1>16. Items(m2, List) = s
  BY <1>1, <1>11, <1>13, ItemsSame DEF s
<1>17. Len(s) + 1 \in 1 .. Len(r)
  BY <1>6
<1> QED
  BY <1>9, <1>15, <1>16, <1>17 DEF s

LEMMA CloneTagItemsKeeps ==
  TagInv /\ CloneTagItems => TagInv'
<1> SUFFICES ASSUME TagInv, CloneTagItems PROVE TagInv'
  OBVIOUS
<1>1. PICK r, c : ListsOK(tags, r, c) /\ CloneOK(r)
  BY DEF TagInv
<1> DEFINE m == [a \in DOMAIN tags |-> IF a < CloneAt THEN tags[a]
                                       ELSE [tag |-> TAG_DONE, data |-> 0]]
           s == Items(tags, List)
<1>2. /\ tags' = Refresh(m, CloneAt, List)
      /\ clone' = CloneAt /\ fresh' = TRUE /\ cloned' = s
  BY DEF CloneTagItems
<1>3. /\ tags \in Memories /\ IsRoute(tags, List, r) /\ IsRoute(tags, Changes, c) /\ Harmless(tags, c)
      /\ \A a \in Places(r) \cup Places(c) : a < CloneAt
      /\ CloneAt + Len(r) - 1 \in Addresses
  BY <1>1 DEF ListsOK
<1>4. \A j \in 1 .. Len(r) : r[j] < CloneAt /\ r[j] \in Addresses
  BY <1>3, RouteFacts DEF Places
<1>5. \A j \in 1 .. Len(c) : c[j] < CloneAt /\ c[j] \in Addresses
  BY <1>3, RouteFacts DEF Places
<1>6. DOMAIN tags = Addresses
  BY <1>3 DEF Memories
<1>7. \A a \in Addresses : m[a] = IF a < CloneAt THEN tags[a] ELSE [tag |-> TAG_DONE, data |-> 0]
  BY <1>6
<1>8. m \in Memories
  <2>1. [tag |-> TAG_DONE, data |-> 0] \in TagItem
    BY DEF TagItem, TAG_DONE
  <2>2. \A a \in Addresses : tags[a] \in TagItem
    BY <1>3, MemoryFacts
  <2> QED
    BY <1>6, <2>1, <2>2 DEF Memories
<1> HIDE DEF m
<1>9. \A j \in 1 .. Len(r) : m[r[j]] = tags[r[j]]
  BY <1>4, <1>7
<1>10. \A j \in 1 .. Len(c) : m[c[j]] = tags[c[j]]
  BY <1>5, <1>7
<1>11. ListsOK(m, r, c)
  <2>1. IsRoute(m, List, r) /\ IsRoute(m, Changes, c)
    BY <1>3, <1>9, <1>10, RouteSame
  <2>2. Harmless(m, c)
    BY <1>3, <1>10 DEF Harmless, IsItem
  <2> QED
    BY <1>1, <1>8, <2>1, <2>2, Zenon DEF ListsOK
<1>12. Items(m, List) = s
  <2>1. IsRoute(m, List, r)
    BY <1>11 DEF ListsOK
  <2> QED
    BY <1>3, <1>8, <1>9, <2>1, ItemsSame
<1>13. m[CloneAt + Len(s)].tag = TAG_DONE
  <2> DEFINE K == Len(r)
             n == Len(s)
  <2>1. MemoryEnd \in Nat
    BY TagAssumption, Zenon
  <2>2. K \in Nat \ {0} /\ n \in 0 .. K - 1
    BY <1>3, ItemsTyped, RouteFacts
  <2>3. CloneAt + K - 1 \in 1 .. MemoryEnd /\ CloneAt \in 1 .. MemoryEnd
    BY <1>3, CloneAtFacts DEF Addresses
  <2> HIDE DEF K, n
  <2>4. CloneAt + n \in 1 .. MemoryEnd /\ ~ (CloneAt + n < CloneAt)
    BY <2>1, <2>2, <2>3
  <2>5. CloneAt + n \in Addresses
    BY <2>4 DEF Addresses
  <2>6. m[CloneAt + n] = [tag |-> TAG_DONE, data |-> 0]
    BY <1>7, <2>4, <2>5
  <2> QED
    BY <2>6 DEF n
<1> HIDE DEF s
<1>14. /\ ListsOK(tags', r, c)
       /\ Len(s) + 1 \in 1 .. Len(r)
       /\ IsRoute(tags', CloneAt, CloneWay(CloneAt, Len(s) + 1))
       /\ Items(tags', List) = s
  BY <1>2, <1>11, <1>12, <1>13, CloneMade
<1>15. CloneOK(r)'
  BY <1>2, <1>14, CloneAtFacts DEF CloneOK
<1> QED
  BY <1>14, <1>15 DEF TagInv

LEMMA RefreshKeeps ==
  TagInv /\ RefreshTagItemClones => TagInv' /\ Items(tags', clone) = cloned
<1> SUFFICES ASSUME TagInv, RefreshTagItemClones
             PROVE  TagInv' /\ Items(tags', clone) = cloned
  OBVIOUS
<1>1. PICK r, c : ListsOK(tags, r, c) /\ CloneOK(r)
  BY DEF TagInv
<1> DEFINE s == Items(tags, List)
<1>2. fresh /\ clone # 0 /\ tags' = Refresh(tags, clone, List) /\ UNCHANGED <<clone, fresh, cloned>>
  BY DEF RefreshTagItemClones, OnClone
<1>3. clone = CloneAt /\ cloned = s /\ IsRoute(tags, CloneAt, CloneWay(CloneAt, Len(s) + 1))
  BY <1>1, <1>2 DEF CloneOK
<1>4. tags[CloneAt + Len(s)].tag = TAG_DONE
  <2> DEFINE w == CloneWay(CloneAt, Len(s) + 1)
             n == Len(s)
  <2>1. n \in Nat
    <3>1. tags \in Memories /\ IsRoute(tags, List, r)
      BY <1>1 DEF ListsOK
    <3>2. s \in Seq(TagItem)
      BY <3>1, ItemsTyped
    <3> QED
      BY <3>2
  <2> HIDE DEF n
  <2>2. CloneWay(CloneAt, n + 1)[n + 1] = CloneAt + n /\ Len(CloneWay(CloneAt, n + 1)) = n + 1
    BY <2>1, CloneAtFacts DEF CloneWay
  <2>3. tags[w[Len(w)]].tag = TAG_DONE
    BY <1>3, Zenon DEF IsRoute
  <2> QED
    BY <2>2, <2>3 DEF n
<1> HIDE DEF s
<1>5. /\ ListsOK(tags', r, c)
      /\ Len(s) + 1 \in 1 .. Len(r)
      /\ IsRoute(tags', CloneAt, CloneWay(CloneAt, Len(s) + 1))
      /\ Items(tags', CloneAt) = s /\ Items(tags', List) = s
  BY <1>1, <1>2, <1>3, <1>4, CloneMade DEF s
<1>6. CloneOK(r)'
  BY <1>2, <1>3, <1>5 DEF CloneOK
<1>7. TagInv'
  BY <1>5, <1>6 DEF TagInv
<1> QED
  BY <1>3, <1>5, <1>7

LEMMA TagInvNext ==
  TagInv /\ [TagNext]_tagVars => TagInv'
<1> SUFFICES ASSUME TagInv, [TagNext]_tagVars PROVE TagInv'
  OBVIOUS
<1>1. PICK r, c : ListsOK(tags, r, c) /\ CloneOK(r)
  BY DEF TagInv
<1>2. /\ tags \in Memories /\ IsRoute(tags, List, r) /\ IsRoute(tags, Changes, c) /\ Harmless(tags, c)
      /\ Places(r) \cap Places(c) = {}
  BY <1>1 DEF ListsOK
<1>3. ASSUME clone # 0
      PROVE  /\ clone = CloneAt
             /\ \E k \in 1 .. Len(r) :
                  /\ IsRoute(tags, CloneAt, CloneWay(CloneAt, k))
                  /\ fresh => cloned = Items(tags, List) /\ k = Len(cloned) + 1
                  /\ Places(CloneWay(CloneAt, k)) \cap Places(c) = {}
  <2>1. clone = CloneAt
    BY <1>1, <1>3 DEF CloneOK
  <2>2. PICK k \in 1 .. Len(r) :
          /\ IsRoute(tags, CloneAt, CloneWay(CloneAt, k))
          /\ fresh => cloned = Items(tags, List) /\ k = Len(cloned) + 1
    BY <1>1, <1>3 DEF CloneOK
  <2>3. k \in Nat
    BY <1>2, RouteFacts
  <2>4. Places(CloneWay(CloneAt, k)) \cap Places(c) = {}
    BY <1>1, <2>3, CloneApart
  <2> QED
    BY <2>1, <2>2, <2>4
<1>4. ASSUME OnList(tags'), Alters(tags, tags', Places(r)) PROVE TagInv'
  BY <1>1, <1>2, <1>4, ListStep
<1>5. ASSUME NEW b \in BOOLEAN, NEW array \in TagArrays, FilterList(array, b) PROVE TagInv'
  <2>1. tags' = FilterTagItems(tags, List, array, b) /\ OnList(tags')
    BY <1>5 DEF FilterList, OnList
  <2> QED
    BY <1>2, <1>4, <2>1, FilterAlters
<1>6. ASSUME NEW b \in BOOLEAN, NEW array \in TagArrays, FilterClone(array, b) PROVE TagInv'
  <2>1. clone # 0 /\ tags' = FilterTagItems(tags, clone, array, b) /\ OnClone(tags')
    BY <1>6 DEF FilterClone, OnClone
  <2>2. clone = CloneAt
    BY <1>3, <2>1
  <2>3. PICK k \in 1 .. Len(r) :
          /\ IsRoute(tags, CloneAt, CloneWay(CloneAt, k))
          /\ fresh => cloned = Items(tags, List) /\ k = Len(cloned) + 1
    BY <1>3, <2>1
  <2>4. Alters(tags, tags', Places(CloneWay(CloneAt, k)))
    BY <1>2, <2>1, <2>2, <2>3, FilterAlters
  <2> QED
    BY <1>1, <2>1, <2>3, <2>4, CloneStep
<1>7. ASSUME NEW b \in BOOLEAN, FilterChanges(b) PROVE TagInv'
  <2>1. tags' = FilterTagChanges(tags, Changes, List, b) /\ OnList(tags')
    BY <1>7 DEF FilterChanges, OnList
  <2>2. Alters(tags, tags', Places(r) \cup Places(c)) /\ Quieter(tags, tags', c)
    BY <1>2, <2>1, FilterChangesAlters
  <2> QED
    BY <1>1, <2>1, <2>2, ListStep
<1>8. ASSUME NEW b \in BOOLEAN, MapList(b) PROVE TagInv'
  <2>1. tags' = MapTags(tags, List, Changes, b) /\ OnList(tags')
    BY <1>8 DEF MapList, OnList
  <2> QED
    BY <1>2, <1>4, <2>1, MapAlters
<1>9. ASSUME NEW b \in BOOLEAN, MapClone(b) PROVE TagInv'
  <2>1. clone # 0 /\ tags' = MapTags(tags, clone, Changes, b) /\ OnClone(tags')
    BY <1>9 DEF MapClone, OnClone
  <2>2. clone = CloneAt
    BY <1>3, <2>1
  <2>3. PICK k \in 1 .. Len(r) :
          /\ IsRoute(tags, CloneAt, CloneWay(CloneAt, k))
          /\ fresh => cloned = Items(tags, List) /\ k = Len(cloned) + 1
          /\ Places(CloneWay(CloneAt, k)) \cap Places(c) = {}
    BY <1>3, <2>1
  <2>4. Alters(tags, tags', Places(CloneWay(CloneAt, k)))
    BY <1>2, <2>1, <2>2, <2>3, MapAlters
  <2> QED
    BY <1>1, <2>1, <2>3, <2>4, CloneStep
<1>10. CASE ApplyToList
  <2>1. tags' = ApplyTagChanges(tags, List, Changes) /\ OnList(tags')
    BY <1>10 DEF ApplyToList, OnList
  <2> QED
    BY <1>2, <1>4, <2>1, ApplyIs
<1>11. CASE ApplyToClone
  <2>1. clone # 0 /\ tags' = ApplyTagChanges(tags, clone, Changes) /\ OnClone(tags')
    BY <1>11 DEF ApplyToClone, OnClone
  <2>2. clone = CloneAt
    BY <1>3, <2>1
  <2>3. PICK k \in 1 .. Len(r) :
          /\ IsRoute(tags, CloneAt, CloneWay(CloneAt, k))
          /\ fresh => cloned = Items(tags, List) /\ k = Len(cloned) + 1
          /\ Places(CloneWay(CloneAt, k)) \cap Places(c) = {}
    BY <1>3, <2>1
  <2>4. Alters(tags, tags', Places(CloneWay(CloneAt, k)))
    BY <1>2, <2>1, <2>2, <2>3, ApplyIs
  <2> QED
    BY <1>1, <2>1, <2>3, <2>4, CloneStep
<1>12. CASE CloneTagItems
  BY <1>12, CloneTagItemsKeeps
<1>13. CASE RefreshTagItemClones
  BY <1>13, RefreshKeeps
<1>14. CASE FreeTagItems
  BY <1>1, <1>14 DEF FreeTagItems, TagInv, ListsOK, CloneOK
<1>15. CASE UNCHANGED tagVars
  BY <1>1, <1>15 DEF tagVars, TagInv, ListsOK, CloneOK
<1> QED
  BY <1>5, <1>6, <1>7, <1>8, <1>9, <1>10, <1>11, <1>12, <1>13, <1>14, <1>15 DEF TagNext

LEMMA TagInvAgrees ==
  TagInv => WalksAgree
<1> SUFFICES ASSUME TagInv PROVE WalksAgree
  OBVIOUS
<1>1. PICK r, c : ListsOK(tags, r, c)
  BY DEF TagInv
<1>2. /\ tags \in Memories /\ IsRoute(tags, List, r) /\ IsRoute(tags, Changes, c)
      /\ Places(r) \cap Places(c) = {}
  BY <1>1 DEF ListsOK
<1>3. Items(ApplyTagChanges(tags, List, Changes), List) =
        LET old == Items(tags, List)
        IN  [i \in DOMAIN old |-> Answered(tags, old[i], Changes)]
  BY <1>2, ApplyAgrees
<1> QED
  BY <1>3 DEF WalksAgree, Answered

\* Whatever the calls do to them, both lists end and stay apart, and the clone
\* is its items one behind the other, with room for all of the list as long as
\* the list is what it was when it was cloned.
THEOREM TagInvariant == TagSpec => []TagInv
<1> QED
  BY TagInvInit, TagInvNext, PTL DEF TagSpec

\* The walk of ApplyTagChanges (applytagchanges.c) and that of NextTagItem
\* (nexttagitem.c) see the same items, in every memory that the calls reach.
THEOREM TagWalksAgree == TagSpec => []WalksAgree
<1> QED
  BY TagInvariant, TagInvAgrees, PTL

\* RefreshTagItemClones makes the clone what the list was when it was cloned.
THEOREM TagRefreshRestores == TagSpec => RefreshRestores
<1>1. TagInv /\ [TagNext]_tagVars =>
        [tags' # tags /\ RefreshTagItemClones => Items(tags', clone) = cloned]_tagVars
  BY RefreshKeeps
<1> QED
  BY <1>1, TagInvariant, PTL DEF TagSpec, RefreshRestores

-----------------------------------------------------------------------------
(* FilterTagChanges *)

\* f takes what is at the places in D out of the first i members of s.
Leaves(s, D, f) ==
  f = [i \in 0 .. Len(s) |-> IF i = 0 THEN <<>>
                            ELSE IF i \in D THEN f[i - 1]
                            ELSE Append(f[i - 1], s[i])]

LeavesUpTo(s, D, f) ==
  /\ f \in [0 .. Len(s) -> Seq(TagItem)] /\ f[0] = <<>>
  /\ \A i \in 1 .. Len(s) : f[i] = IF i \in D THEN f[i - 1] ELSE Append(f[i - 1], s[i])

LEMMA WithoutIs ==
  ASSUME NEW s \in Seq(TagItem), NEW D
  PROVE  \E f : LeavesUpTo(s, D, f) /\ Without(s, D) = f[Len(s)]
<1> DEFINE K == Len(s)
           X == Seq(TagItem)
           step(i, x) == IF i \in D THEN x ELSE Append(x, s[i])
           g == [y \in (1 .. K) \X X |-> step(y[1], y[2])]
           f == CHOOSE f : Leaves(s, D, f)
<1>1. K \in Nat /\ \A i \in 1 .. K : s[i] \in TagItem
  OBVIOUS
<1>2. Without(s, D) = f[K]
  BY DEF Without, Leaves
<1> HIDE DEF K
<1>3. ASSUME NEW i \in 1 .. K, NEW x \in X
      PROVE  g[<<i, x>>] = step(i, x) /\ step(i, x) \in X
  <2>1. Append(x, s[i]) \in X
    BY <1>1
  <2>2. <<i, x>> \in (1 .. K) \X X /\ <<i, x>>[1] = i /\ <<i, x>>[2] = x
    OBVIOUS
  <2> HIDE DEF X
  <2> QED
    BY <2>1, <2>2, Zenon
<1>4. g \in [(1 .. K) \X X -> X]
  <2> SUFFICES ASSUME NEW y \in (1 .. K) \X X PROVE step(y[1], y[2]) \in X
    BY Zenon
  <2>1. y[1] \in 1 .. K /\ y[2] \in X
    OBVIOUS
  <2> HIDE DEF X, step
  <2> QED
    BY <1>3, <2>1
<1>5. <<>> \in X
  OBVIOUS
<1> HIDE DEF g, X
<1>6. PICK h : Steps(h, X, <<>>, g, K)
  BY <1>1, <1>4, <1>5, StepsExist
<1>7. h \in [0 .. K -> X] /\ h[0] = <<>> /\ \A i \in 1 .. K : h[i] = g[<<i, h[i - 1]>>]
  BY <1>6 DEF Steps
<1>8. \A i \in 1 .. K : h[i] = step(i, h[i - 1])
  <2> SUFFICES ASSUME NEW i \in 1 .. K PROVE h[i] = step(i, h[i - 1])
    OBVIOUS
  <2>1. i - 1 \in 0 .. K
    BY <1>1
  <2>2. h[i - 1] \in X
    BY <1>7, <2>1
  <2> HIDE DEF step
  <2> QED
    BY <1>3, <1>7, <2>2
<1>9. Leaves(s, D, h)
  <2>1. \A i \in 0 .. K : i # 0 => i \in 1 .. K
    BY <1>1
  <2>2. h = [i \in 0 .. K |-> h[i]]
    BY <1>7
  <2>3. \A i \in 0 .. K : h[i] = IF i = 0 THEN <<>> ELSE step(i, h[i - 1])
    BY <1>7, <1>8, <2>1
  <2> QED
    BY <2>2, <2>3, Zenon DEF Leaves, K
<1>10. Leaves(s, D, f)
  BY <1>9
<1> HIDE DEF f
<1>11. /\ f = [i \in 0 .. K |-> f[i]] /\ f[0] = <<>>
       /\ \A i \in 1 .. K : f[i] = step(i, f[i - 1])
  <2>1. f = [i \in 0 .. K |-> IF i = 0 THEN <<>> ELSE step(i, f[i - 1])]
    BY <1>10, Zenon DEF Leaves, K
  <2>2. DOMAIN f = 0 .. K
    BY <2>1, Zenon
  <2>3. 0 \in 0 .. K /\ \A i \in 1 .. K : i \in 0 .. K /\ i # 0
    BY <1>1
  <2> HIDE DEF step
  <2> QED
    BY <2>1, <2>2, <2>3
<1> DEFINE S == {i \in 0 .. K : f[i] \in X}
<1>12. 0 \in S
  BY <1>1, <1>5, <1>11
<1>13. ASSUME NEW i \in 0 .. K - 1, i \in S PROVE i + 1 \in S
  <2> DEFINE j == i + 1
  <2>1. j \in 1 .. K /\ j \in 0 .. K /\ j - 1 = i
    BY <1>1
  <2> HIDE DEF j, step
  <2>2. f[j] = step(j, f[i]) /\ f[i] \in X
    BY <1>11, <1>13, <2>1
  <2>3. f[j] \in X
    BY <1>3, <2>1, <2>2
  <2> QED
    BY <2>1, <2>3 DEF j
<1>14. 0 .. K \subseteq S
  <2> HIDE DEF S
  <2> QED
    BY <1>1, <1>12, <1>13, IntervalInduction
<1>15. f \in [0 .. K -> X]
  <2>1. \A i \in 0 .. K : f[i] \in X
    BY <1>14
  <2> QED
    BY <1>11, <2>1
<1> QED
  <2>1. LeavesUpTo(s, D, f)
    BY <1>11, <1>15, Zenon DEF K, X, LeavesUpTo
  <2> QED
    BY <1>2, <2>1 DEF K

LEMMA WithoutAppend ==
  ASSUME NEW s \in Seq(TagItem), NEW x \in TagItem, NEW D
  PROVE  /\ Without(Append(s, x), D) =
              IF Len(s) + 1 \in D THEN Without(s, D) ELSE Append(Without(s, D), x)
         /\ Without(<<>>, D) = <<>>
<1> DEFINE K == Len(s)
           t == Append(s, x)
<1>1. K \in Nat /\ t \in Seq(TagItem) /\ Len(t) = K + 1 /\ t[K + 1] = x
  OBVIOUS
<1>2. \A i \in 1 .. K : t[i] = s[i]
  OBVIOUS
<1>3. PICK f : LeavesUpTo(s, D, f) /\ Without(s, D) = f[K]
  BY WithoutIs
<1> HIDE DEF t
<1>4. PICK h : LeavesUpTo(t, D, h) /\ Without(t, D) = h[Len(t)]
  BY <1>1, WithoutIs
<1>5. PICK e : LeavesUpTo(<<>>, D, e) /\ Without(<<>>, D) = e[Len(<<>>)]
  <2>1. <<>> \in Seq(TagItem)
    OBVIOUS
  <2> QED
    BY <2>1, WithoutIs
<1>6. Without(<<>>, D) = <<>>
  BY <1>5 DEF LeavesUpTo
<1> HIDE DEF K
<1> DEFINE S == {i \in 0 .. K : h[i] = f[i]}
<1>7. 0 \in S
  BY <1>1, <1>3, <1>4 DEF LeavesUpTo
<1>8. ASSUME NEW i \in 0 .. K - 1, i \in S PROVE i + 1 \in S
  <2> DEFINE j == i + 1
  <2>1. j \in 1 .. K /\ j \in 1 .. K + 1 /\ j \in 0 .. K /\ j - 1 = i
    BY <1>1
  <2>2. h[i] = f[i] /\ t[j] = s[j]
    BY <1>2, <1>8, <2>1
  <2> HIDE DEF j
  <2>3. f[j] = IF j \in D THEN f[j - 1] ELSE Append(f[j - 1], s[j])
    BY <1>3, <2>1 DEF LeavesUpTo, K
  <2>4. h[j] = IF j \in D THEN h[j - 1] ELSE Append(h[j - 1], t[j])
    BY <1>1, <1>4, <2>1 DEF LeavesUpTo
  <2>5. h[j] = f[j]
    BY <2>1, <2>2, <2>3, <2>4, Zenon
  <2>6. j \in S
    BY <2>1, <2>5
  <2> QED
    BY <2>6 DEF j
<1>9. 0 .. K \subseteq S
  <2> HIDE DEF S
  <2> QED
    BY <1>1, <1>7, <1>8, IntervalInduction
<1>10. h[K] = f[K]
  BY <1>1, <1>9
<1>11. h[K + 1] = IF K + 1 \in D THEN h[K] ELSE Append(h[K], t[K + 1])
  <2> DEFINE j == K + 1
  <2>1. j \in 1 .. Len(t) /\ j - 1 = K
    BY <1>1
  <2> HIDE DEF j
  <2>2. h[j] = IF j \in D THEN h[j - 1] ELSE Append(h[j - 1], t[j])
    BY <1>4, <2>1 DEF LeavesUpTo
  <2> QED
    BY <2>1, <2>2 DEF j
<1>12. Without(t, D) = IF K + 1 \in D THEN Without(s, D) ELSE Append(Without(s, D), x)
  BY <1>1, <1>3, <1>4, <1>10, <1>11
<1> QED
  BY <1>6, <1>12 DEF t, K

\* Along r, m2 has the items of m but for those at the places in D.
Loses(m, m2, r, P, D) ==
  \A j \in 1 .. Len(r) : /\ IsItem(m2, r[j]) <=> IsItem(m, r[j]) /\ Len(P[j]) + 1 \notin D
                         /\ IsItem(m2, r[j]) => m2[r[j]] = m[r[j]]

\* A list of which the items at D are taken out holds the others.
LEMMA ItemsWithout ==
  ASSUME NEW m \in Memories, NEW p, NEW r, IsRoute(m, p, r),
         NEW P, Prefixes(m, r, P), NEW D, NEW m2 \in Memories, IsRoute(m2, p, r),
         Loses(m, m2, r, P, D)
  PROVE  Items(m2, p) = Without(Items(m, p), D)
<1> DEFINE K == Len(r)
<1>1. Prefixes(m, r, P)
  OBVIOUS
<1>2. PICK P2 : Prefixes(m2, r, P2)
  BY PrefixesExist
<1> DEFINE S == {i \in 1 .. K : P2[i] = Without(P[i], D)}
<1>3. K \in Nat \ {0} /\ K \in 1 .. K /\ 1 \in 1 .. K /\ r \in [1 .. K -> Addresses]
  BY RouteFacts
<1>4. 1 \in S
  <2>1. P[1] = <<>> /\ P2[1] = <<>>
    BY <1>1, <1>2 DEF Prefixes
  <2>2. m[r[1]] \in TagItem /\ <<>> \in Seq(TagItem)
    BY <1>3, MemoryFacts
  <2>3. Without(<<>>, D) = <<>>
    BY <2>2, WithoutAppend
  <2> QED
    BY <1>3, <2>1, <2>3
<1>5. ASSUME NEW i \in 1 .. K - 1, i \in S PROVE i + 1 \in S
  <2>1. i \in 1 .. K /\ i + 1 \in 1 .. K
    BY <1>3
  <2> DEFINE x == m[r[i]]
  <2>2. P[i] \in Seq(TagItem) /\ P2[i] = Without(P[i], D)
    BY <1>1, <1>5, <2>1 DEF Prefixes
  <2>3. x \in TagItem
    BY <1>3, <2>1, MemoryFacts
  <2>4. P[i + 1] = IF IsItem(m, r[i]) THEN Append(P[i], x) ELSE P[i]
    BY <1>1, Zenon DEF Prefixes
  <2>5. P2[i + 1] = IF IsItem(m2, r[i]) THEN Append(P2[i], m2[r[i]]) ELSE P2[i]
    BY <1>2, Zenon DEF Prefixes
  <2>6. P2[i + 1] = IF IsItem(m, r[i]) /\ Len(P[i]) + 1 \notin D THEN Append(P2[i], x) ELSE P2[i]
    <3>1. /\ IsItem(m2, r[i]) <=> IsItem(m, r[i]) /\ Len(P[i]) + 1 \notin D
          /\ IsItem(m2, r[i]) => m2[r[i]] = m[r[i]]
      BY <2>1, Zenon DEF Loses
    <3> QED
      BY <2>5, <3>1, Zenon
  <2>7. Without(Append(P[i], x), D) = IF Len(P[i]) + 1 \in D THEN P2[i] ELSE Append(P2[i], x)
    <3>1. Without(Append(P[i], x), D) =
            IF Len(P[i]) + 1 \in D THEN Without(P[i], D) ELSE Append(Without(P[i], D), x)
      <4> DEFINE s == P[i]
      <4>1. s \in Seq(TagItem)
        BY <2>2
      <4> HIDE DEF s, x
      <4>2. Without(Append(s, x), D) =
              IF Len(s) + 1 \in D THEN Without(s, D) ELSE Append(Without(s, D), x)
        BY <2>3, <4>1, WithoutAppend
      <4> QED
        BY <4>2 DEF s
    <3> QED
      BY <2>2, <3>1, Zenon
  <2>8. P2[i + 1] = Without(P[i + 1], D)
    BY <2>2, <2>4, <2>6, <2>7, Zenon
  <2> QED
    BY <2>1, <2>8
<1>6. 1 .. K \subseteq S
  <2> HIDE DEF S, K
  <2> QED
    BY <1>3, <1>4, <1>5, PlaceInduction
<1>7. P2[K] = Without(P[K], D)
  BY <1>3, <1>6
<1> QED
  BY <1>1, <1>2, <1>7, ItemsAre

LEMMA FilterReaches ==
  ASSUME NEW m, NEW p, NEW c, NEW l, NEW apply \in BOOLEAN, Len(c) \in Nat \ {0},
         NEW X \in [1 .. Len(c) -> SUBSET Memories], m \in X[1],
         \A i \in 1 .. Len(c) : \A n \in X[i] :
           /\ IsRoute(n, p, c)
           /\ i < Len(c) /\ ~ IsItem(n, c[i]) => n \in X[i + 1]
           /\ IsItem(n, c[i]) /\ i < Len(c) => Changed(n, c[i], l, apply) \in X[i + 1]
  PROVE  FilterTagChanges(m, p, l, apply) \in X[Len(c)]
<1> DEFINE body == ChangeBody(l, apply)
<1>1. body \in [Memories -> [Addresses -> Memories]]
  BY ChangeTyped
<1>2. FilterTagChanges(m, p, l, apply) = ForEachItem(m, p, body)
  BY DEF FilterTagChanges, ChangeBody, Changed
<1>3. \A i \in 1 .. Len(c) : \A n \in X[i] : body[n][c[i]] = Changed(n, c[i], l, apply)
  <2> SUFFICES ASSUME NEW i \in 1 .. Len(c), NEW n \in X[i]
               PROVE  body[n][c[i]] = Changed(n, c[i], l, apply)
    OBVIOUS
  <2>1. n \in Memories /\ IsRoute(n, p, c)
    OBVIOUS
  <2>2. c[i] \in Addresses
    BY <2>1, RouteFacts
  <2> QED
    BY <2>1, <2>2, ChangeTyped
<1> HIDE DEF body
<1>4. \A i \in 1 .. Len(c) : \A n \in X[i] :
        /\ IsRoute(n, p, c)
        /\ i < Len(c) /\ ~ IsItem(n, c[i]) => n \in X[i + 1]
        /\ IsItem(n, c[i]) /\ i < Len(c) => body[n][c[i]] \in X[i + 1]
  BY <1>3, Zenon
<1>5. ForEachItem(m, p, body) \in X[Len(c)]
  BY <1>1, <1>4, ForEachReaches
<1> QED
  BY <1>2, <1>5

\* What comes first stays first when a list is gone through further.
Agrees(s, t) == Len(s) <= Len(t) /\ \A k \in 1 .. Len(s) : t[k] = s[k]

\* The item at c[i] is the one behind those that come before c[i].
LEMMA PrefixPlaces ==
  ASSUME NEW m \in Memories, NEW p, NEW c, IsRoute(m, p, c), NEW P, Prefixes(m, c, P),
         NEW i \in 1 .. Len(c), NEW old, old = P[Len(c)]
  PROVE  /\ Len(P[i]) \in Nat /\ Agrees(P[i], old)
         /\ IsItem(m, c[i]) => Len(P[i]) + 1 \in 1 .. Len(old) /\ old[Len(P[i]) + 1] = m[c[i]]
<1> DEFINE K == Len(c)
<1>1. K \in Nat \ {0} /\ K \in 1 .. K /\ 1 \in 1 .. K /\ c \in [1 .. K -> Addresses]
  BY RouteFacts
<1>2. \A k \in 1 .. K : P[k] \in Seq(TagItem) /\ Len(P[k]) \in Nat
  BY DEF Prefixes
<1>3. ASSUME NEW h \in 1 .. K PROVE Agrees(P[h], P[K])
  <2> DEFINE S == {k \in 1 .. K : k >= h => Agrees(P[h], P[k])}
  <2>1. Agrees(P[h], P[h])
    BY <1>2 DEF Agrees
  <2>2. 1 \in S
    <3>1. 1 >= h => h = 1
      BY <1>1
    <3> QED
      BY <1>1, <2>1, <3>1
  <2>3. ASSUME NEW k \in 1 .. K - 1, k \in S PROVE k + 1 \in S
    <3>1. k \in 1 .. K /\ k + 1 \in 1 .. K
      BY <1>1
    <3>2. CASE k >= h
      <4>1. P[k + 1] = IF IsItem(m, c[k]) THEN Append(P[k], m[c[k]]) ELSE P[k]
        BY Zenon DEF Prefixes
      <4>2. Agrees(P[h], P[k])
        BY <2>3, <3>2
      <4>3. m[c[k]] \in TagItem
        BY <1>1, <3>1, MemoryFacts
      <4>4. P[h] \in Seq(TagItem) /\ P[k] \in Seq(TagItem)
        BY <1>2, <3>1
      <4> DEFINE x == m[c[k]]
                 s == P[h]
                 t == P[k]
      <4> HIDE DEF x, s, t
      <4>5. Agrees(s, Append(t, x))
        BY <4>2, <4>3, <4>4 DEF Agrees, x, s, t
      <4>6. Agrees(P[h], P[k + 1])
        BY <4>1, <4>2, <4>5 DEF x, s, t
      <4> QED
        BY <3>1, <4>6
    <3>3. CASE ~ (k >= h)
      <4>1. k + 1 >= h => k + 1 = h
        BY <3>1, <3>3
      <4> QED
        BY <2>1, <3>1, <4>1
    <3> QED
      BY <3>2, <3>3
  <2>4. 1 .. K \subseteq S
    <3> HIDE DEF S, K
    <3> QED
      BY <1>1, <2>2, <2>3, PlaceInduction
  <2> QED
    BY <1>1, <2>4
<1>4. Agrees(P[i], old) /\ Len(P[i]) \in Nat
  BY <1>2, <1>3
<1>5. ASSUME IsItem(m, c[i])
      PROVE  Len(P[i]) + 1 \in 1 .. Len(old) /\ old[Len(P[i]) + 1] = m[c[i]]
  <2>1. i < K
    BY <1>5, NextAt
  <2>2. i \in 1 .. K - 1 /\ i + 1 \in 1 .. K
    BY <1>1, <2>1
  <2>3. P[i + 1] = Append(P[i], m[c[i]])
    BY <1>5, <2>2, Zenon DEF Prefixes
  <2>4. Agrees(P[i + 1], old)
    BY <1>3, <2>2
  <2>5. P[i] \in Seq(TagItem) /\ m[c[i]] \in TagItem
    BY <1>1, <1>2, MemoryFacts
  <2> DEFINE s == P[i]
             x == m[c[i]]
  <2>6. Len(Append(s, x)) = Len(s) + 1 /\ Append(s, x)[Len(s) + 1] = x /\ Len(s) \in Nat
    BY <2>5
  <2>7. Agrees(Append(s, x), old) /\ Len(old) \in Nat
    BY <1>1, <1>2, <2>3, <2>4
  <2> HIDE DEF s, x
  <2>8. Len(s) + 1 \in 1 .. Len(old) /\ old[Len(s) + 1] = x
    BY <2>6, <2>7 DEF Agrees
  <2> QED
    BY <2>8 DEF s, x
<1> QED
  BY <1>4, <1>5

\* One more change counts if it is for the tag and the changes are applied.
LEMMA AnswerNext ==
  ASSUME NEW m, NEW l, NEW s, NEW n \in Nat, NEW t, NEW apply \in BOOLEAN
  PROVE  /\ Answer(m, l, s, 0, t, apply) = GetTagData(m, t, -1, l)
         /\ ~ (apply /\ FindTagItem(m, t, l) # 0) =>
              Answer(m, l, s, n, t, apply) = GetTagData(m, t, -1, l)
         /\ apply /\ FindTagItem(m, t, l) # 0 =>
              Answer(m, l, s, n + 1, t, apply) =
                IF s[n + 1].tag = t THEN s[n + 1].data ELSE Answer(m, l, s, n, t, apply)
<1> DEFINE Given(k) == {j \in 1 .. k : s[j].tag = t}
           IsLast(S, j) == \A k \in S : k <= j
           Last(k) == CHOOSE j \in Given(k) : IsLast(Given(k), j)
<1>1. \A k : Answer(m, l, s, k, t, apply) =
               IF apply /\ FindTagItem(m, t, l) # 0 /\ Given(k) # {} THEN s[Last(k)].data
               ELSE GetTagData(m, t, -1, l)
  BY Zenon DEF Answer
<1>2. Given(0) = {}
  OBVIOUS
<1>3. CASE s[n + 1].tag = t
  <2>1. n + 1 \in Given(n + 1) /\ IsLast(Given(n + 1), n + 1)
    BY <1>3
  <2>2. \A j \in Given(n + 1) : IsLast(Given(n + 1), j) => j = n + 1
    BY <2>1
  <2>3. Last(n + 1) \in Given(n + 1) /\ IsLast(Given(n + 1), Last(n + 1))
    <3> HIDE DEF Given, IsLast
    <3> QED
      BY <2>1
  <2>4. Last(n + 1) = n + 1
    <3> HIDE DEF Given, IsLast, Last
    <3> QED
      BY <2>2, <2>3
  <2> HIDE DEF Given, Last
  <2> QED
    BY <1>1, <1>2, <1>3, <2>1, <2>4
<1>4. CASE s[n + 1].tag # t
  <2>1. Given(n + 1) = Given(n)
    BY <1>4
  <2>2. Last(n + 1) = Last(n)
    <3> HIDE DEF Given
    <3> QED
      BY <2>1
  <2> HIDE DEF Given, Last
  <2> QED
    BY <1>1, <1>2, <1>4, <2>1, <2>2
<1> QED
  BY <1>3, <1>4

\* What a turn of FilterTagChanges makes of n: a is the change, orig what it is
\* for, on a list at S, and f what answers t.
TurnLeaves(n, n2, S, a, orig, t, f, apply) ==
  /\ Alters(n, n2, S \cup {a})
  /\ \A b \in Addresses : b # a => n2[b].tag = n[b].tag
  /\ \A b \in Addresses : b # a /\ (~ apply \/ b \notin S) => n2[b] = n[b]
  /\ n2[a] = IF orig # 0 /\ n[orig].data = n[a].data THEN [n[a] EXCEPT !.tag = TAG_IGNORE]
             ELSE n[a]
  /\ f # 0 => n2[f].data = IF apply /\ n[a].tag = t THEN n[a].data ELSE n[f].data

LEMMA ChangedLeaves ==
  ASSUME NEW n \in Memories, NEW l, NEW r, IsRoute(n, l, r),
         NEW a \in Addresses \ Places(r), IsItem(n, a), NEW t, NEW apply \in BOOLEAN
  PROVE  TurnLeaves(n, Changed(n, a, l, apply), Places(r), a,
                    FindTagItem(n, n[a].tag, l), t, FindTagItem(n, t, l), apply)
<1> DEFINE orig == FindTagItem(n, n[a].tag, l)
           f == FindTagItem(n, t, l)
           n2 == Changed(n, a, l, apply)
           gone == [n[a] EXCEPT !.tag = TAG_IGNORE]
           new == [n[orig] EXCEPT !.data = n[a].data]
           S == Places(r)
<1>1. \/ orig = 0 /\ n2 = n
      \/ /\ orig \in S /\ orig \in Addresses /\ orig # 0 /\ orig # a
         /\ IsItem(n, orig) /\ n[orig].tag = n[a].tag
         /\ \/ n[a].data = n[orig].data /\ n2 = [n EXCEPT ![a] = gone]
            \/ n[a].data # n[orig].data /\ apply /\ n2 = [n EXCEPT ![orig] = new]
            \/ n[a].data # n[orig].data /\ ~ apply /\ n2 = n
  <2>1. ChangesTo(n, n2, a, orig, S, apply)
    BY ChangedIs
  <2> HIDE DEF orig, n2
  <2> QED
    BY <2>1 DEF ChangesTo, gone, new
<1>2. f # 0 => f \in Addresses /\ f \in S /\ f # a /\ n[f].tag = t
  <2>1. Finds(n, r, t, f)
    BY FindIs
  <2>2. \A j \in 1 .. Len(r) : r[j] \in Addresses /\ r[j] \in S
    BY RouteFacts DEF Places
  <2> HIDE DEF f, S
  <2>3. f # 0 => f \in Addresses /\ f \in S /\ n[f].tag = t
    BY <2>1, <2>2 DEF Finds
  <2> QED
    BY <2>3 DEF S
<1>3. n[a].tag = t => orig = f
  OBVIOUS
<1>4. n[a] \in TagItem /\ gone \in TagItem /\ gone.tag \notin Steering
  <2>1. n[a] \in TagItem
    BY MemoryFacts
  <2>2. gone \in TagItem /\ gone.tag = TAG_IGNORE
    BY <2>1 DEF TagItem, TAG_IGNORE
  <2> QED
    BY <2>1, <2>2 DEF Steering, TAG_DONE, TAG_IGNORE, TAG_MORE, TAG_SKIP
<1>5. n[a].tag \notin Steering
  BY ItemIsPlain
<1>6. ASSUME orig \in Addresses, IsItem(n, orig), n[orig].tag = n[a].tag
      PROVE  /\ new \in TagItem /\ new.tag = n[orig].tag /\ new.data = n[a].data
             /\ new.tag \notin Steering
  <2>1. n[orig] \in TagItem
    BY <1>6, MemoryFacts
  <2> HIDE DEF orig
  <2>2. new \in TagItem /\ new.tag = n[orig].tag /\ new.data = n[a].data
    BY <1>4, <2>1 DEF TagItem
  <2> QED
    BY <1>5, <1>6, <2>2
<1>7. a \in Addresses /\ a \notin S
  OBVIOUS
<1> SUFFICES TurnLeaves(n, n2, S, a, orig, t, f, apply)
  OBVIOUS
<1> HIDE DEF orig, f, n2, new, S
\* The same list, or no such tag.
<1>8. ASSUME n2 = n, orig # 0 => n[a].data # n[orig].data, orig = 0 \/ ~ apply
      PROVE  TurnLeaves(n, n2, S, a, orig, t, f, apply)
  <2>1. Alters(n, n2, S \cup {a})
    BY <1>8, AltersNothing
  <2>2. n2[a] = IF orig # 0 /\ n[orig].data = n[a].data THEN gone ELSE n[a]
    BY <1>8
  <2>3. f # 0 => n2[f].data = IF apply /\ n[a].tag = t THEN n[a].data ELSE n[f].data
    BY <1>3, <1>8
  <2> QED
    BY <1>8, <2>1, <2>2, <2>3, Zenon DEF TurnLeaves, gone
<1>9. ASSUME orig # 0, n[a].data = n[orig].data, n2 = [n EXCEPT ![a] = gone]
      PROVE  TurnLeaves(n, n2, S, a, orig, t, f, apply)
  <2> HIDE DEF gone
  <2>1. Alters(n, n2, S \cup {a})
    <3>1. a \in S \cup {a}
      OBVIOUS
    <3> QED
      BY <1>4, <1>5, <1>9, <3>1, AltersOne
  <2>2. \A b \in Addresses : n2[b] = IF b = a THEN gone ELSE n[b]
    BY <1>9 DEF Memories
  <2>3. n2[a] = IF orig # 0 /\ n[orig].data = n[a].data THEN gone ELSE n[a]
    BY <1>7, <1>9, <2>2
  <2>4. f # 0 => n2[f].data = IF apply /\ n[a].tag = t THEN n[a].data ELSE n[f].data
    BY <1>2, <1>3, <1>9, <2>2
  <2>5. \A b \in Addresses : b # a => n2[b] = n[b]
    BY <2>2
  <2> QED
    BY <2>1, <2>3, <2>4, <2>5, Zenon DEF TurnLeaves, gone
<1>10. ASSUME orig \in S, orig \in Addresses, orig # 0, orig # a, IsItem(n, orig),
              n[orig].tag = n[a].tag, n[a].data # n[orig].data, apply,
              n2 = [n EXCEPT ![orig] = new]
       PROVE  TurnLeaves(n, n2, S, a, orig, t, f, apply)
  <2> HIDE DEF gone
  <2>1. new \in TagItem /\ new.tag = n[orig].tag /\ new.data = n[a].data /\ new.tag \notin Steering
    BY <1>6, <1>10
  <2>2. n[orig].tag \notin Steering
    BY <1>10, ItemIsPlain
  <2>3. Alters(n, n2, S \cup {a})
    <3>1. orig \in S \cup {a}
      BY <1>10
    <3> QED
      BY <1>10, <2>1, <2>2, <3>1, AltersOne
  <2>4. \A b \in Addresses : n2[b] = IF b = orig THEN new ELSE n[b]
    BY <1>10 DEF Memories
  <2>5. \A b \in Addresses : n2[b].tag = n[b].tag
    BY <2>1, <2>4
  <2>6. \A b \in Addresses : b \notin S => n2[b] = n[b]
    BY <1>10, <2>4
  <2>7. f # 0 => n2[f].data = IF apply /\ n[a].tag = t THEN n[a].data ELSE n[f].data
    <3>1. CASE n[a].tag = t
      BY <1>2, <1>3, <1>10, <2>1, <2>4, <3>1
    <3>2. CASE n[a].tag # t
      BY <1>2, <1>10, <2>4, <3>2
    <3> QED
      BY <3>1, <3>2
  <2>8. n2[a] = IF orig # 0 /\ n[orig].data = n[a].data THEN gone ELSE n[a]
    BY <1>7, <1>10, <2>4
  <2>9. \A b \in Addresses : b # a /\ (~ apply \/ b \notin S) => n2[b] = n[b]
    BY <1>10, <2>6
  <2> QED
    BY <2>3, <2>5, <2>7, <2>8, <2>9, Zenon DEF TurnLeaves, gone
<1> HIDE DEF gone
<1> QED
  BY <1>1, <1>8, <1>9, <1>10

\* What FilterTagChanges makes of the changes at p and the list at l.
Filtered(m, m2, p, l, apply) ==
  LET old  == Items(m, p)
      held == {i \in DOMAIN old : Answer(m, l, old, i - 1, old[i].tag, apply) = old[i].data}
  IN  /\ Items(m2, p) = Without(old, held)
      /\ \A t \in Nat : GetTagData(m2, t, -1, l) = Answer(m, l, old, Len(old), t, apply)
      /\ ~ apply => Items(m2, l) = Items(m, l)

LEMMA FilterIs ==
  ASSUME NEW m \in Memories, NEW p, NEW c, IsRoute(m, p, c),
         NEW l, NEW r, IsRoute(m, l, r), Places(r) \cap Places(c) = {},
         NEW apply \in BOOLEAN
  PROVE  Filtered(m, FilterTagChanges(m, p, l, apply), p, l, apply)
<1> DEFINE K == Len(c)
           R == Places(r)
           S == R \cup Places(c)
           old == Items(m, p)
           f(t) == FindTagItem(m, t, l)
           told(k, t) == Answer(m, l, old, k, t, apply)
           m2 == FilterTagChanges(m, p, l, apply)
           gone(a) == [m[a] EXCEPT !.tag = TAG_IGNORE]
<1>1. PICK P : Prefixes(m, c, P)
  BY PrefixesExist
<1> DEFINE goes(j) == IsItem(m, c[j]) /\ told(Len(P[j]), m[c[j]].tag) = m[c[j]].data
           Good(i, n) == /\ Alters(m, n, S)
                         /\ ~ apply => \A j \in 1 .. Len(r) : n[r[j]] = m[r[j]]
                         /\ \A j \in 1 .. Len(r) : n[r[j]].tag = m[r[j]].tag
                         /\ \A j \in 1 .. K :
                              n[c[j]] = IF j < i /\ goes(j) THEN gone(c[j]) ELSE m[c[j]]
                         /\ \A t \in Nat : f(t) # 0 => n[f(t)].data = told(Len(P[i]), t)
           X == [i \in 1 .. K |-> {n \in Memories : Good(i, n)}]
<1>2. K \in Nat \ {0} /\ 1 \in 1 .. K /\ K \in 1 .. K
  <2>1. Len(c) \in Nat \ {0} /\ 1 \in 1 .. Len(c) /\ Len(c) \in 1 .. Len(c)
    BY RouteFacts
  <2> QED
    BY <2>1
<1>3. \A j \in 1 .. K : c[j] \in Addresses /\ c[j] \in Places(c) /\ c[j] \notin R
  <2>1. c \in [1 .. Len(c) -> Addresses]
    BY RouteFacts
  <2> QED
    BY <2>1 DEF Places
<1>4. \A j, k \in 1 .. K : c[j] = c[k] => j = k
  BY RouteFacts
<1>5. \A j \in 1 .. Len(r) : r[j] \in Addresses /\ r[j] \in R /\ r[j] \notin Places(c)
  <2>1. r \in [1 .. Len(r) -> Addresses]
    BY RouteFacts
  <2> QED
    BY <2>1 DEF Places
<1>6. /\ P \in [1 .. K -> Seq(TagItem)] /\ P[1] = <<>> /\ P[K] = old
      /\ old \in Seq(TagItem) /\ Len(old) \in Nat /\ DOMAIN old = 1 .. Len(old)
  <2>1. Items(m, p) = P[Len(c)] /\ Items(m, p) \in Seq(TagItem)
    BY <1>1, ItemsAre
  <2> QED
    BY <1>1, <2>1 DEF Prefixes
<1>7. \A i \in 1 .. K - 1 : P[i + 1] = IF IsItem(m, c[i]) THEN Append(P[i], m[c[i]]) ELSE P[i]
  BY <1>1, Zenon DEF Prefixes
<1>8. \A i \in 1 .. K :
        /\ Len(P[i]) \in Nat
        /\ IsItem(m, c[i]) => Len(P[i]) + 1 \in 1 .. Len(old) /\ old[Len(P[i]) + 1] = m[c[i]]
  <2> HIDE DEF old
  <2> QED
    BY <1>1, <1>6, PrefixPlaces
<1>9. \A t : f(t) # 0 => f(t) \in Addresses /\ f(t) \in R
  <2> SUFFICES ASSUME NEW t, f(t) # 0 PROVE f(t) \in Addresses /\ f(t) \in R
    OBVIOUS
  <2>1. Finds(m, r, t, f(t))
    BY FindIs
  <2> HIDE DEF f, R
  <2> QED
    BY <1>5, <2>1 DEF Finds
<1>10. \A t, k \in Nat :
         /\ told(0, t) = GetTagData(m, t, -1, l)
         /\ ~ (apply /\ f(t) # 0) => told(k, t) = GetTagData(m, t, -1, l)
         /\ apply /\ f(t) # 0 =>
              told(k + 1, t) = IF old[k + 1].tag = t THEN old[k + 1].data ELSE told(k, t)
  <2> HIDE DEF old
  <2> QED
    BY AnswerNext
<1>11. \A t : GetTagData(m, t, -1, l) = IF f(t) # 0 THEN m[f(t)].data ELSE -1
  <2>1. \A t : f(t) \in Addresses <=> f(t) # 0
    BY <1>9, MemoryFacts
  <2> QED
    BY <2>1 DEF GetTagData
<1>12. ASSUME NEW a \in Addresses
       PROVE  /\ m[a] \in TagItem /\ m[a].tag \in Nat /\ m[a].data \in Nat
              /\ gone(a).tag = TAG_IGNORE /\ TAG_IGNORE \in Control
  <2>1. m[a] \in TagItem
    BY MemoryFacts
  <2>2. gone(a).tag = TAG_IGNORE
    BY <2>1 DEF TagItem
  <2> QED
    BY <2>1, <2>2 DEF TagItem, Control, TAG_DONE, TAG_IGNORE, TAG_SKIP
<1> HIDE DEF f, told, gone, old, R, K
\* What is as it was when the walk comes to c[i].
<1>13. ASSUME NEW i \in 1 .. K, NEW n \in Memories, Good(i, n)
       PROVE  /\ IsRoute(n, p, c) /\ IsRoute(n, l, r)
              /\ n[c[i]] = m[c[i]] /\ (IsItem(n, c[i]) <=> IsItem(m, c[i]))
              /\ \A t : FindTagItem(n, t, l) = f(t)
  <2>1. IsRoute(n, p, c) /\ IsRoute(n, l, r)
    <3>1. Alters(m, n, S)
      BY <1>13
    <3> HIDE DEF S
    <3> QED
      BY <3>1, RouteKept
  <2>2. n[c[i]] = m[c[i]]
    <3>1. ~ (i < i)
      BY <1>2
    <3> HIDE DEF goes
    <3> QED
      BY <1>13, <3>1
  <2>3. \A t : FindTagItem(n, t, l) = f(t)
    <3>1. \A j \in 1 .. Len(r) : n[r[j]].tag = m[r[j]].tag
      BY <1>13
    <3> QED
      BY <2>1, <3>1, FindSame DEF f
  <2> QED
    BY <2>1, <2>2, <2>3 DEF IsItem
<1>14. ASSUME NEW i \in 1 .. K, NEW n \in Memories, Good(i, n), i < K, ~ IsItem(n, c[i])
       PROVE  Good(i + 1, n)
  <2>1. i \in 1 .. K - 1 /\ \A j \in 1 .. K : j < i + 1 <=> j < i \/ j = i
    BY <1>2, <1>14
  <2>2. ~ IsItem(m, c[i])
    <3> HIDE DEF Good
    <3> QED
      BY <1>13, <1>14
  <2>3. P[i + 1] = P[i] /\ ~ goes(i)
    BY <1>7, <2>1, <2>2
  <2> HIDE DEF goes
  <2>4. \A j \in 1 .. K : n[c[j]] = IF j < i + 1 /\ goes(j) THEN gone(c[j]) ELSE m[c[j]]
    BY <1>14, <2>1, <2>3, Zenon
  <2> QED
    BY <1>14, <2>3, <2>4
<1>15. ASSUME NEW i \in 1 .. K, NEW n \in Memories, Good(i, n), i < K, IsItem(n, c[i])
       PROVE  /\ Changed(n, c[i], l, apply) \in Memories
              /\ Good(i + 1, Changed(n, c[i], l, apply))
  <2> DEFINE a == c[i]
             n2 == Changed(n, a, l, apply)
             u == m[a].tag
  <2>1. /\ IsRoute(n, l, r) /\ n[a] = m[a] /\ IsItem(m, a)
        /\ \A t : FindTagItem(n, t, l) = f(t)
    <3> HIDE DEF Good
    <3> QED
      BY <1>13, <1>15
  <2>2. a \in Addresses \ R /\ a \in Addresses /\ a \in Places(c)
    BY <1>3
  <2>3. i \in 1 .. K - 1 /\ i + 1 \in 1 .. K /\ \A j \in 1 .. K : j < i + 1 <=> j < i \/ j = i
    BY <1>2, <1>15
  <2>4. Len(P[i]) \in Nat /\ Len(P[i + 1]) = Len(P[i]) + 1 /\ old[Len(P[i]) + 1] = m[a]
    <3>1. P[i + 1] = Append(P[i], m[a]) /\ P[i] \in Seq(TagItem)
      BY <1>6, <1>7, <2>1, <2>3
    <3>2. Len(P[i]) \in Nat /\ old[Len(P[i]) + 1] = m[a]
      BY <1>8, <2>1
    <3>3. m[a] \in TagItem
      BY <1>12, <2>2
    <3> HIDE DEF a
    <3> QED
      BY <3>1, <3>2, <3>3
  <2>5. \A t : TurnLeaves(n, n2, R, a, f(u), t, f(t), apply)
    <3> SUFFICES ASSUME NEW t PROVE TurnLeaves(n, n2, R, a, f(u), t, f(t), apply)
      OBVIOUS
    <3>1. TurnLeaves(n, n2, Places(r), a, FindTagItem(n, n[a].tag, l), t, FindTagItem(n, t, l), apply)
      <4>1. IsItem(n, a) /\ a \in Addresses \ Places(r)
        BY <1>15, <2>2 DEF R
      <4> HIDE DEF a
      <4> QED
        BY <2>1, <4>1, ChangedLeaves
    <3> HIDE DEF n2, a
    <3>2. n[a].tag = u
      BY <2>1
    <3>3. FindTagItem(n, n[a].tag, l) = f(u) /\ FindTagItem(n, t, l) = f(t) /\ Places(r) = R
      <4> HIDE DEF u
      <4> QED
        BY <2>1, <3>2 DEF R
    <3> HIDE DEF u
    <3> QED
      BY <3>1, <3>3
  <2>6. m[a] \in TagItem /\ u \in Nat /\ m[a].data \in Nat
    BY <1>12, <2>2
  <2> HIDE DEF n2, u
  <2>7. Alters(m, n2, S) /\ n2 \in Memories
    <3>1. Alters(n, n2, R \cup {a})
      BY <2>5 DEF TurnLeaves
    <3>2. R \cup {a} \subseteq S
      BY <2>2
    <3>3. Alters(m, n, S)
      BY <1>15
    <3> HIDE DEF S, a
    <3>4. Alters(n, n2, S)
      BY <3>1, <3>2, AltersMore
    <3>5. Alters(m, n2, S)
      BY <3>3, <3>4, AltersTwice
    <3> QED
      BY <3>5 DEF Alters
  <2> HIDE DEF a, S
  <2>8. /\ \A b \in Addresses : b # a => n2[b].tag = n[b].tag
        /\ \A b \in Addresses : b # a /\ (~ apply \/ b \notin R) => n2[b] = n[b]
        /\ n2[a] = IF f(u) # 0 /\ n[f(u)].data = n[a].data THEN [n[a] EXCEPT !.tag = TAG_IGNORE]
                   ELSE n[a]
        /\ \A t : f(t) # 0 =>
             n2[f(t)].data = IF apply /\ n[a].tag = t THEN n[a].data ELSE n[f(t)].data
    BY <2>5, Zenon DEF TurnLeaves
  <2>9. \A j \in 1 .. Len(r) : r[j] \in Addresses /\ r[j] # a
    BY <1>5, <2>2
  <2>10. ~ apply => \A j \in 1 .. Len(r) : n2[r[j]] = m[r[j]]
    BY <1>15, <2>8, <2>9
  <2>11. \A j \in 1 .. Len(r) : n2[r[j]].tag = m[r[j]].tag
    BY <1>15, <2>8, <2>9
  <2>12. n2[a] = IF goes(i) THEN gone(a) ELSE m[a]
    <3>1. f(u) # 0 => n[f(u)].data = told(Len(P[i]), u)
      BY <1>15, <2>6
    <3>2. f(u) = 0 => told(Len(P[i]), u) = -1
      BY <1>10, <1>11, <2>4, <2>6
    <3>3. goes(i) <=> told(Len(P[i]), u) = m[a].data
      BY <2>1 DEF a, u
    <3>4. goes(i) <=> f(u) # 0 /\ n[f(u)].data = m[a].data
      <4> HIDE DEF goes
      <4> QED
        BY <2>6, <3>1, <3>2, <3>3
    <3> HIDE DEF goes
    <3> QED
      BY <2>1, <2>8, <3>4, Zenon DEF gone
  <2>13. \A j \in 1 .. K :
           n2[c[j]] = IF j < i + 1 /\ goes(j) THEN gone(c[j]) ELSE m[c[j]]
    <3> SUFFICES ASSUME NEW j \in 1 .. K
                 PROVE  n2[c[j]] = IF j < i + 1 /\ goes(j) THEN gone(c[j]) ELSE m[c[j]]
      OBVIOUS
    <3>1. CASE j = i
      <4>1. j < i + 1 /\ c[j] = a
        BY <2>3, <3>1 DEF a
      <4> HIDE DEF goes
      <4> QED
        BY <2>12, <3>1, <4>1
    <3>2. CASE j # i
      <4>1. c[j] # a /\ c[j] \in Addresses /\ c[j] \notin R
        BY <1>3, <1>4, <3>2 DEF a
      <4>2. n2[c[j]] = n[c[j]]
        BY <2>8, <4>1
      <4>3. j < i + 1 <=> j < i
        BY <2>3, <3>2
      <4>4. n[c[j]] = IF j < i /\ goes(j) THEN gone(c[j]) ELSE m[c[j]]
        BY <1>15
      <4> HIDE DEF goes
      <4> QED
        BY <4>2, <4>3, <4>4
    <3> QED
      BY <3>1, <3>2
  <2>14. \A t \in Nat : f(t) # 0 => n2[f(t)].data = told(Len(P[i + 1]), t)
    <3> SUFFICES ASSUME NEW t \in Nat, f(t) # 0 PROVE n2[f(t)].data = told(Len(P[i + 1]), t)
      OBVIOUS
    <3>1. n[f(t)].data = told(Len(P[i]), t)
      BY <1>15
    <3>2. n2[f(t)].data = IF apply /\ m[a].tag = t THEN m[a].data ELSE n[f(t)].data
      BY <2>1, <2>8
    <3>3. CASE apply
      <4>1. told(Len(P[i]) + 1, t) = IF m[a].tag = t THEN m[a].data ELSE told(Len(P[i]), t)
        <5> DEFINE k == Len(P[i])
        <5>1. k \in Nat /\ old[k + 1] = m[a]
          BY <2>4
        <5> HIDE DEF k
        <5>2. told(k + 1, t) = IF old[k + 1].tag = t THEN old[k + 1].data ELSE told(k, t)
          BY <1>10, <3>3, <5>1
        <5> QED
          BY <5>1, <5>2, Zenon DEF k
      <4> QED
        BY <2>4, <3>1, <3>2, <3>3, <4>1
    <3>4. CASE ~ apply
      <4>1. told(Len(P[i]) + 1, t) = told(Len(P[i]), t)
        BY <1>10, <2>4, <3>4
      <4> QED
        BY <2>4, <3>1, <3>2, <3>4, <4>1
    <3> QED
      BY <3>3, <3>4
  <2> HIDE DEF goes
  <2>15. Good(i + 1, n2)
    BY <2>7, <2>10, <2>11, <2>13, <2>14
  <2> HIDE DEF Good
  <2> QED
    BY <2>7, <2>15 DEF n2, a
<1>16. Good(1, m)
  <2>1. \A j \in 1 .. K : ~ (j < 1)
    BY <1>2
  <2>2. \A t \in Nat : f(t) # 0 => m[f(t)].data = told(Len(P[1]), t)
    <3>1. Len(P[1]) = 0 /\ 0 \in Nat
      BY <1>6
    <3> QED
      BY <1>10, <1>11, <3>1
  <2>3. Alters(m, m, S)
    BY AltersNothing
  <2> HIDE DEF goes, S
  <2> QED
    BY <2>1, <2>2, <2>3
<1> HIDE DEF Good
<1>17. \A i \in 1 .. K : \A n \in X[i] :
         /\ IsRoute(n, p, c)
         /\ i < K /\ ~ IsItem(n, c[i]) => n \in X[i + 1]
         /\ IsItem(n, c[i]) /\ i < K => Changed(n, c[i], l, apply) \in X[i + 1]
  <2> SUFFICES ASSUME NEW i \in 1 .. K, NEW n \in X[i]
               PROVE  /\ IsRoute(n, p, c)
                      /\ i < K /\ ~ IsItem(n, c[i]) => n \in X[i + 1]
                      /\ IsItem(n, c[i]) /\ i < K => Changed(n, c[i], l, apply) \in X[i + 1]
    OBVIOUS
  <2>1. n \in Memories /\ Good(i, n)
    OBVIOUS
  <2>2. IsRoute(n, p, c)
    BY <1>13, <2>1
  <2>3. ASSUME i < K, ~ IsItem(n, c[i]) PROVE Good(i + 1, n)
    BY <1>14, <2>1, <2>3
  <2>4. ASSUME i < K, IsItem(n, c[i])
        PROVE  /\ Changed(n, c[i], l, apply) \in Memories
               /\ Good(i + 1, Changed(n, c[i], l, apply))
    BY <1>15, <2>1, <2>4
  <2>5. i < K => i + 1 \in 1 .. K
    BY <1>2
  <2> QED
    BY <2>1, <2>2, <2>3, <2>4, <2>5
<1>18. X \in [1 .. K -> SUBSET Memories] /\ m \in X[1]
  BY <1>2, <1>16
<1>19. m2 \in X[K]
  <2> HIDE DEF X
  <2> QED
    BY <1>2, <1>17, <1>18, FilterReaches DEF K
<1>20. m2 \in Memories /\ Good(K, m2)
  BY <1>2, <1>19
<1> HIDE DEF m2
<1>21. IsRoute(m2, p, c) /\ IsRoute(m2, l, r) /\ \A t : FindTagItem(m2, t, l) = f(t)
  BY <1>2, <1>13, <1>20
<1>22. ~ apply => Items(m2, l) = Items(m, l)
  <2>1. ~ apply => \A j \in 1 .. Len(r) : m2[r[j]] = m[r[j]]
    BY <1>20 DEF Good
  <2> QED
    BY <1>20, <1>21, <2>1, ItemsSame
<1>23. \A t \in Nat : GetTagData(m2, t, -1, l) = told(Len(old), t)
  <2> SUFFICES ASSUME NEW t \in Nat PROVE GetTagData(m2, t, -1, l) = told(Len(old), t)
    OBVIOUS
  <2>1. f(t) \in Addresses <=> f(t) # 0
    BY <1>9, MemoryFacts
  <2>2. GetTagData(m2, t, -1, l) = IF f(t) # 0 THEN m2[f(t)].data ELSE -1
    BY <1>21, <2>1 DEF GetTagData
  <2>3. f(t) # 0 => m2[f(t)].data = told(Len(old), t)
    BY <1>6, <1>20 DEF Good
  <2>4. f(t) = 0 => told(Len(old), t) = -1
    BY <1>6, <1>10, <1>11
  <2> QED
    BY <2>2, <2>3, <2>4
<1> DEFINE held == {i \in DOMAIN old : told(i - 1, old[i].tag) = old[i].data}
<1>24. ASSUME NEW j \in 1 .. K
       PROVE  /\ IsItem(m2, c[j]) <=> IsItem(m, c[j]) /\ Len(P[j]) + 1 \notin held
              /\ IsItem(m2, c[j]) => m2[c[j]] = m[c[j]]
  <2>1. m2[c[j]] = IF j < K /\ goes(j) THEN gone(c[j]) ELSE m[c[j]]
    BY <1>20 DEF Good
  <2>2. IsItem(m, c[j]) => j < K
    BY <1>2, NextAt DEF K
  <2>3. m2[c[j]] = gone(c[j]) => ~ IsItem(m2, c[j])
    BY <1>3, <1>12 DEF IsItem
  <2>4. IsItem(m, c[j]) => (goes(j) <=> Len(P[j]) + 1 \in held)
    <3> SUFFICES ASSUME IsItem(m, c[j]) PROVE goes(j) <=> Len(P[j]) + 1 \in held
      OBVIOUS
    <3>1. Len(P[j]) \in Nat /\ Len(P[j]) + 1 \in DOMAIN old /\ old[Len(P[j]) + 1] = m[c[j]]
      BY <1>6, <1>8
    <3>2. Len(P[j]) + 1 - 1 = Len(P[j])
      BY <3>1
    <3> DEFINE k == Len(P[j]) + 1
    <3>3. k \in held <=> told(k - 1, old[k].tag) = old[k].data
      <4> HIDE DEF k
      <4> QED
        BY <3>1 DEF k
    <3> QED
      BY <3>1, <3>2, <3>3
  <2>5. goes(j) => IsItem(m, c[j])
    OBVIOUS
  <2> HIDE DEF goes, held
  <2> QED
    BY <2>1, <2>2, <2>3, <2>4, <2>5 DEF IsItem
<1>25. Items(m2, p) = Without(old, held)
  <2> HIDE DEF held
  <2>1. Loses(m, m2, c, P, held)
    BY <1>24, Zenon DEF K, Loses
  <2>2. m2 \in Memories /\ IsRoute(m2, p, c)
    BY <1>20, <1>21
  <2>3. Items(m2, p) = Without(Items(m, p), held)
    BY <1>1, <2>1, <2>2, ItemsWithout
  <2> QED
    BY <2>3 DEF old
<1> QED
  BY <1>22, <1>23, <1>25, Zenon DEF Filtered, m2, held, told, old

\* FilterTagChanges does what its documentation says (filtertagchanges.c:20-28):
\* the changes that the list holds when their turn comes go, the others stay in
\* their order, and the list is updated with apply only.
THEOREM TagFilterChanges == TagSpec => FilterTagChangesAsDocumented
<1>1. ASSUME TagInv, NEW apply \in BOOLEAN, FilterChanges(apply)
      PROVE  LET old  == Items(tags, Changes)
                 held == {i \in DOMAIN old :
                            Answer(tags, List, old, i - 1, old[i].tag, apply) = old[i].data}
             IN  /\ Items(tags', Changes) = Without(old, held)
                 /\ \A t \in Tags(tags) :
                      GetTagData(tags', t, -1, List) =
                        Answer(tags, List, old, Len(old), t, apply)
                 /\ ~ apply => Items(tags', List) = Items(tags, List)
  <2>1. PICK r, c : ListsOK(tags, r, c)
    BY <1>1 DEF TagInv
  <2> DEFINE m2 == FilterTagChanges(tags, Changes, List, apply)
  <2>2. tags' = m2
    BY <1>1 DEF FilterChanges, OnList
  <2>3. /\ tags \in Memories /\ IsRoute(tags, Changes, c) /\ IsRoute(tags, List, r)
        /\ Places(r) \cap Places(c) = {}
    BY <2>1 DEF ListsOK
  <2>4. Filtered(tags, m2, Changes, List, apply)
    BY <2>3, FilterIs
  <2> HIDE DEF m2
  <2>5. Filtered(tags, tags', Changes, List, apply)
    BY <2>2, <2>4
  <2>6. Tags(tags) \subseteq Nat
    <3>1. \A a \in DOMAIN tags : a \in Addresses
      BY <2>3 DEF Memories
    <3>2. \A a \in Addresses : tags[a].tag \in Nat
      BY <2>3, MemoryFacts
    <3> QED
      BY <3>1, <3>2 DEF Tags
  <2> QED
    BY <2>5, <2>6, Zenon DEF Filtered
<1>2. TagInv /\ [TagNext]_tagVars =>
        [\A apply \in BOOLEAN :
           tagVars' # tagVars /\ FilterChanges(apply) =>
             LET old  == Items(tags, Changes)
                 held == {i \in DOMAIN old :
                            Answer(tags, List, old, i - 1, old[i].tag, apply) = old[i].data}
             IN  /\ Items(tags', Changes) = Without(old, held)
                 /\ \A t \in Tags(tags) :
                      GetTagData(tags', t, -1, List) =
                        Answer(tags, List, old, Len(old), t, apply)
                 /\ ~ apply => Items(tags', List) = Items(tags, List)]_tagVars
  BY <1>1, Zenon
<1> QED
  BY <1>2, TagInvariant, PTL DEF TagSpec, FilterTagChangesAsDocumented
=============================================================================
