--------------------------- MODULE FlowControlProofs ---------------------------
(***************************************************************************)
(* Proofs about Backpressure, for every width of size_t and every pair of  *)
(* thresholds, and about RateLimiter, for every rate, every resolution of  *)
(* the clock and requests of any size at any distance.                     *)
(***************************************************************************)
EXTENDS Backpressure, RateLimiter, TLAPS

(* BackpressureController.                                                  *)

\* The number of values of size_t is positive.
LEMMA SizeMax == 2^Width \in Nat \ {0}
  BY ConstructorAssumption DEF ConstructorAssumption, SizeT

\* No sum of two sizes is formed: the difference that is never wraps.
LEMMA ThresholdExact ==
  ASSUME NEW b \in SizeT, NEW n \in SizeT
  PROVE  ReachesThreshold(b, n) <=> b + n >= PauseThreshold
<1> DEFINE M == 2^Width
<1>1. M \in Nat \ {0}
  BY SizeMax
<1>2. b \in 0..M - 1 /\ n \in 0..M - 1 /\ PauseThreshold \in 1..M - 1
  BY ConstructorAssumption, <1>1 DEF ConstructorAssumption, SizeT
<1>3. Wrap(PauseThreshold - b) = (PauseThreshold - b) % M
  BY DEF Wrap
<1> HIDE DEF M
<1>4. CASE b >= PauseThreshold
  BY <1>1, <1>2, <1>4 DEF ReachesThreshold
<1>5. CASE b < PauseThreshold
  <2>1. PauseThreshold - b \in 0..M - 1
    BY <1>1, <1>2, <1>5
  <2>2. Wrap(PauseThreshold - b) = PauseThreshold - b
    BY <1>1, <1>3, <2>1
  <2> QED
    BY <1>1, <1>2, <1>5, <2>2 DEF ReachesThreshold
<1> QED
  BY <1>1, <1>2, <1>4, <1>5

\* A controller asks for a pause exactly when what is buffered and what comes in
\* reach the threshold, for every width.
THEOREM PauseExact == Spec => []PauseIsExact
<1>1. Init => PauseIsExact
  BY DEF Init, PauseIsExact
<1>2. PauseIsExact /\ [Next]_vars => PauseIsExact'
  <2> SUFFICES ASSUME PauseIsExact, [Next]_vars PROVE PauseIsExact'
    OBVIOUS
  <2>1. ASSUME NEW b \in SizeT, NEW n \in SizeT, ShouldPause(b, n) PROVE PauseIsExact'
    BY <2>1, ThresholdExact DEF ShouldPause, Answer, PauseIsExact
  <2>2. ASSUME NEW b \in SizeT, ShouldResume(b) PROVE PauseIsExact'
    BY <2>2 DEF ShouldResume, Answer, PauseIsExact
  <2>3. CASE UNCHANGED controller
    BY <2>3 DEF controller, PauseIsExact
  <2> QED
    BY <2>1, <2>2, <2>3 DEF Next, Push, PushThrows, Pop, vars
<1> QED
  BY <1>1, <1>2, PTL DEF Spec

(* BoundedByteQueue.                                                        *)

\* The totals of a queue that holds what it reports: they never decrease.
Held(held) ==
  /\ held \in [0..Len(chunks) -> 0..HighWatermark]
  /\ Totals(held)
  /\ held[Len(chunks)] = size
  /\ \A i, j \in 0..Len(chunks) : i <= j => held[i] <= held[j]

QueueInv == chunks \in Seq(Nat \ {0}) /\ \E held : Held(held)

\* What is at most the high watermark does not wrap.
LEMMA WrapExact == ASSUME NEW n \in 0..HighWatermark PROVE Wrap(n) = n
<1> DEFINE M == 2^Width
<1>1. M \in Nat \ {0} /\ HighWatermark \in 1..M - 1
  BY SizeMax, ConstructorAssumption DEF ConstructorAssumption, SizeT
<1>2. Wrap(n) = n % M
  BY DEF Wrap
<1> HIDE DEF M
<1> QED
  BY <1>1, <1>2

\* A chunk that fits ends the totals with the new size.
LEMMA PushHolds ==
  ASSUME QueueInv, NEW n \in SizeT, Push(n)
  PROVE  QueueInv'
<1>1. PICK held : Held(held)
  BY DEF QueueInv
<1> DEFINE L == Len(chunks)
           M == 2^Width
<1>2. L \in Nat /\ chunks \in Seq(Nat \ {0}) /\ HighWatermark \in Nat
  BY ConstructorAssumption DEF QueueInv, ConstructorAssumption, SizeT
<1>3. /\ held \in [0..L -> 0..HighWatermark] /\ held[0] = 0 /\ held[L] = size
      /\ \A i \in 1..L : held[i] = held[i - 1] + chunks[i]
      /\ \A i, j \in 0..L : i <= j => held[i] <= held[j]
  BY <1>1 DEF Held, Totals
<1>4. n \in Nat \ {0} /\ size \in 0..HighWatermark
  BY <1>2, <1>3 DEF Push, SizeT
<1>5. size + n \in 0..HighWatermark
  <2>1. HighWatermark - size \in 0..HighWatermark
    BY <1>2, <1>4
  <2>2. n <= HighWatermark - size
    BY <2>1, WrapExact DEF Push, Fits
  <2> QED
    BY <1>2, <1>4, <2>2
<1>6. size' = size + n /\ chunks' = Append(chunks, n)
  BY <1>5, WrapExact DEF Push, Counted
<1>7. /\ chunks' \in Seq(Nat \ {0}) /\ Len(chunks') = L + 1
      /\ chunks'[L + 1] = n /\ \A i \in 1..L : chunks'[i] = chunks[i]
  BY <1>2, <1>4, <1>6
<1> HIDE DEF L
<1>0. PICK more : more = [i \in 0..L + 1 |-> IF i <= L THEN held[i] ELSE size + n]
  OBVIOUS
<1>8. more \in [0..L + 1 -> 0..HighWatermark]
  BY <1>0, <1>2, <1>3, <1>5
<1>9. more[L + 1] = size + n /\ \A i \in 0..L : more[i] = held[i]
  BY <1>0, <1>2
<1>10. more[0] = 0
  BY <1>2, <1>3, <1>9
<1>11. ASSUME NEW i \in 1..L + 1 PROVE more[i] = more[i - 1] + chunks'[i]
  <2>1. CASE i = L + 1
    BY <1>2, <1>3, <1>7, <1>9, <2>1
  <2>2. CASE i \in 1..L
    <3>1. i \in 0..L /\ i - 1 \in 0..L
      BY <1>2, <2>2
    <3>2. more[i] = held[i] /\ more[i - 1] = held[i - 1] /\ chunks'[i] = chunks[i]
      BY <1>7, <1>9, <2>2, <3>1
    <3> QED
      BY <1>3, <2>2, <3>2
  <2> QED
    BY <1>2, <2>1, <2>2
<1>12. ASSUME NEW i \in 0..L + 1, NEW j \in 0..L + 1, i <= j PROVE more[i] <= more[j]
  <2>1. CASE j = L + 1 /\ i = L + 1
    BY <1>4, <1>9, <2>1
  <2>2. CASE j = L + 1 /\ i \in 0..L
    <3>1. held[i] <= held[L] /\ held[i] \in Nat
      BY <1>2, <1>3, <2>2
    <3> QED
      BY <1>3, <1>4, <1>9, <2>2, <3>1
  <2>3. CASE j \in 0..L /\ i \in 0..L
    BY <1>3, <1>9, <1>12, <2>3
  <2> QED
    BY <1>2, <1>12, <2>1, <2>2, <2>3
<1>13. Held(more)'
  <2>1. Totals(more)'
    BY <1>7, <1>10, <1>11 DEF Totals
  <2>2. \A i, j \in 0..L + 1 : i <= j => more[i] <= more[j]
    BY <1>12
  <2> QED
    BY <1>6, <1>7, <1>8, <1>9, <2>1, <2>2 DEF Held
<1> QED
  BY <1>7, <1>13 DEF QueueInv

\* What leaves the front leaves every total.
LEMMA PopHolds ==
  ASSUME QueueInv, Pop
  PROVE  QueueInv'
<1>1. PICK held : Held(held)
  BY DEF QueueInv
<1> DEFINE L == Len(chunks)
           n == chunks[1]
<1>2. /\ L \in Nat \ {0} /\ chunks \in Seq(Nat \ {0}) /\ HighWatermark \in Nat
      /\ n \in Nat \ {0} /\ Head(chunks) = n
  BY ConstructorAssumption DEF QueueInv, ConstructorAssumption, SizeT, Pop
<1>3. /\ held \in [0..L -> 0..HighWatermark] /\ held[0] = 0 /\ held[L] = size
      /\ \A i \in 1..L : held[i] = held[i - 1] + chunks[i]
      /\ \A i, j \in 0..L : i <= j => held[i] <= held[j]
  BY <1>1 DEF Held, Totals
<1>4. /\ chunks' = Tail(chunks) /\ chunks' \in Seq(Nat \ {0}) /\ Len(chunks') = L - 1
      /\ \A i \in 1..L - 1 : chunks'[i] = chunks[i + 1]
  BY <1>2 DEF Pop
<1> HIDE DEF L, n
<1>5. held[1] = n
  <2>1. held[1] = held[0] + chunks[1]
    BY <1>2, <1>3
  <2> QED
    BY <1>2, <1>3, <2>1 DEF n
<1>6. ASSUME NEW i \in 1..L PROVE held[i] \in 0..HighWatermark /\ n <= held[i]
  BY <1>2, <1>3, <1>5
<1>7. size - n \in 0..HighWatermark
  BY <1>2, <1>3, <1>6
<1>8. size' = size - n
  BY <1>2, <1>7, WrapExact DEF Pop
<1>0. PICK less : less = [i \in 0..L - 1 |-> held[i + 1] - n]
  OBVIOUS
<1>9. less \in [0..L - 1 -> 0..HighWatermark]
  <2>1. ASSUME NEW i \in 0..L - 1 PROVE held[i + 1] - n \in 0..HighWatermark
    BY <1>2, <1>6
  <2> QED
    BY <1>0, <2>1
<1>10. \A i \in 0..L - 1 : less[i] = held[i + 1] - n
  BY <1>0
<1>11. less[0] = 0 /\ less[L - 1] = size'
  BY <1>2, <1>3, <1>5, <1>8, <1>10
<1>12. ASSUME NEW i \in 1..L - 1 PROVE less[i] = less[i - 1] + chunks'[i]
  <2>1. held[i + 1] = held[i] + chunks[i + 1] /\ chunks[i + 1] \in Nat
    BY <1>2, <1>3 DEF L
  <2>2. less[i] = held[i + 1] - n /\ less[i - 1] = held[i] - n /\ held[i] \in Nat
    BY <1>2, <1>6, <1>10
  <2> QED
    BY <1>2, <1>4, <2>1, <2>2
<1>13. ASSUME NEW i \in 0..L - 1, NEW j \in 0..L - 1, i <= j PROVE less[i] <= less[j]
  <2>1. held[i + 1] <= held[j + 1] /\ held[i + 1] \in Nat /\ held[j + 1] \in Nat
    BY <1>2, <1>3, <1>6, <1>13
  <2> QED
    BY <1>2, <1>10, <2>1
<1>14. Held(less)'
  <2>1. Totals(less)'
    BY <1>4, <1>11, <1>12 DEF Totals
  <2>2. \A i, j \in 0..L - 1 : i <= j => less[i] <= less[j]
    BY <1>13
  <2> QED
    BY <1>4, <1>9, <1>11, <2>1, <2>2 DEF Held
<1> QED
  BY <1>4, <1>14 DEF QueueInv

\* The queue holds what it reports, and never more than the high watermark.
THEOREM WatermarkKept == Spec => []HoldsAtMostWatermark
<1>1. Init => QueueInv
  <2> SUFFICES ASSUME Init PROVE QueueInv
    OBVIOUS
  <2> DEFINE none == [i \in 0..0 |-> 0]
  <2>1. chunks = <<>> /\ size = 0 /\ Len(chunks) = 0 /\ chunks \in Seq(Nat \ {0})
    BY DEF Init
  <2>2. none \in [0..0 -> 0..HighWatermark] /\ none[0] = 0
    BY ConstructorAssumption DEF ConstructorAssumption, SizeT
  <2> HIDE DEF none
  <2>3. Held(none)
    BY <2>1, <2>2 DEF Held, Totals
  <2> QED
    BY <2>1, <2>3 DEF QueueInv
<1>2. QueueInv /\ [Next]_vars => QueueInv'
  <2> SUFFICES ASSUME QueueInv, [Next]_vars PROVE QueueInv'
    OBVIOUS
  <2>1. CASE UNCHANGED <<chunks, size>>
    BY <2>1 DEF QueueInv, Held, Totals
  <2> QED
    BY <2>1, PushHolds, PopHolds
    DEF Next, ShouldPause, ShouldResume, PushThrows, queue, controller, vars
<1>3. QueueInv => HoldsAtMostWatermark
  BY DEF QueueInv, Held, HoldsAtMostWatermark
<1> QED
  BY <1>1, <1>2, <1>3, PTL DEF Spec

-----------------------------------------------------------------------------
(* RateLimiter.                                                             *)

\* Products of naturals: distribution and monotony.
LEMMA Products ==
  ASSUME NEW a \in Nat, NEW b \in Nat, NEW c \in Nat
  PROVE  /\ a * b \in Nat
         /\ a * (b + c) = a * b + a * c /\ (a + b) * c = a * c + b * c
         /\ a <= b => a * c <= b * c
<1>1. a * b \in Nat
  OBVIOUS
<1>2. a * (b + c) = a * b + a * c /\ (a + b) * c = a * c + b * c
  OBVIOUS
<1>3. ASSUME a <= b PROVE a * c <= b * c
  <2>1. PICK d \in Nat : b = a + d
    BY <1>3
  <2>2. b * c = a * c + d * c /\ d * c \in Nat /\ a * c \in Nat
    BY <2>1
  <2> QED
    BY <2>2
<1> QED
  BY <1>1, <1>2, <1>3

\* A natural lies below the multiple of a divisor that follows its quotient.
LEMMA QuotientAbove ==
  ASSUME NEW a \in Nat, NEW d \in Nat \ {0}
  PROVE  a \div d \in Nat /\ a < d * (a \div d) + d
<1>1. a \div d \in Int /\ a \div d >= 0
  OBVIOUS
<1>2. a < d * (a \div d) + d
  OBVIOUS
<1> QED
  BY <1>1, <1>2

LimiterTypeOK ==
  /\ rate_ \in Nat
  /\ tokens_ \in 0..Capacity
  /\ waited \in Nat
  /\ consume \in [bytes : Nat, granted : BOOLEAN]
  /\ told \in [bytes : Nat, ticks : Nat, since : Nat]
  /\ window \in [bytes : Nat, ticks : Nat]

\* What is left in the bucket is part of what the window may still spend.
BucketInWindow == window.bytes * TicksPerSecond + tokens_ <= Capacity + rate_ * window.ticks

\* The bucket holds too little for the request it has refused.
TooLittle == ~consume.granted => tokens_ < consume.bytes * TicksPerSecond

\* What was asked about is there, or the bucket is full, or it will be there one
\* tick after the time told at the latest: since is written on the other side.
OnItsWay ==
  \/ told.bytes * TicksPerSecond <= tokens_
  \/ tokens_ = Capacity
  \/ told.bytes * TicksPerSecond + rate_ * told.since <= tokens_ + rate_ * told.ticks + rate_

LimiterInv == LimiterTypeOK /\ BucketInWindow /\ TooLittle /\ OnItsWay

\* The capacity of a bucket is a natural.
LEMMA CapacityNat == LimiterTypeOK => Capacity \in Nat
  BY LimiterAssumption, Products DEF LimiterTypeOK, LimiterAssumption, Capacity

\* The invariant of the limiter holds at first.
LEMMA InitLimiterInv == LimiterInit => LimiterInv
<1> SUFFICES ASSUME LimiterInit PROVE LimiterInv
  OBVIOUS
<1>1. rate_ \in Nat /\ TicksPerSecond \in Nat
  BY LimiterAssumption DEF LimiterInit, LimiterAssumption
<1>2. Capacity \in Nat /\ 0 * TicksPerSecond = 0 /\ rate_ * 0 = 0
  BY <1>1, Products DEF Capacity
<1>3. tokens_ = Capacity /\ waited = 0
  BY DEF LimiterInit
<1>4. /\ consume = [bytes |-> 0, granted |-> TRUE]
      /\ told = [bytes |-> 0, ticks |-> 0, since |-> 0]
      /\ window = [bytes |-> 0, ticks |-> 0]
  BY DEF LimiterInit, NothingTold
<1>5. LimiterTypeOK
  BY <1>1, <1>2, <1>3, <1>4 DEF LimiterTypeOK
<1>6. BucketInWindow
  BY <1>2, <1>3, <1>4 DEF BucketInWindow
<1> QED
  BY <1>3, <1>4, <1>5, <1>6 DEF LimiterInv, TooLittle, OnItsWay

\* A refill gives the time waited its due and no more, and never overflows.
LEMMA RefillBounds ==
  ASSUME LimiterTypeOK
  PROVE  /\ Refilled(waited) \in 0..Capacity
         /\ tokens_ <= Refilled(waited)
         /\ Refilled(waited) <= tokens_ + rate_ * waited
         /\ Refilled(waited) = Capacity \/ Refilled(waited) = tokens_ + rate_ * waited
<1>1. rate_ * waited \in Nat
  BY Products DEF LimiterTypeOK
<1>2. Capacity \in Nat /\ tokens_ \in 0..Capacity
  BY CapacityNat DEF LimiterTypeOK
<1>3. CASE tokens_ + rate_ * waited < Capacity
  <2>1. Refilled(waited) = tokens_ + rate_ * waited
    BY <1>3 DEF Refilled
  <2> QED
    BY <1>1, <1>2, <1>3, <2>1
<1>4. CASE ~(tokens_ + rate_ * waited < Capacity)
  <2>1. Refilled(waited) = Capacity
    BY <1>4 DEF Refilled
  <2> QED
    BY <1>1, <1>2, <1>4, <2>1
<1> QED
  BY <1>3, <1>4

\* A request granted leaves the bucket and enters the window as the same amount.
LEMMA ConsumeStep ==
  ASSUME LimiterInv, NEW bytes \in 0..MaxBytes, TryConsume(bytes)
  PROVE  LimiterInv'
<1> DEFINE T == TicksPerSecond
           w == waited
           got == Refilled(w)
           granted == got >= bytes * T
<1>1. T \in Nat /\ bytes \in Nat
  BY LimiterAssumption DEF LimiterAssumption
<1>2. /\ rate_ \in Nat /\ w \in Nat /\ told \in [bytes : Nat, ticks : Nat, since : Nat]
      /\ window \in [bytes : Nat, ticks : Nat]
      /\ tokens_ \in 0..Capacity
  BY DEF LimiterInv, LimiterTypeOK
<1>3. Capacity \in Nat /\ Capacity' = Capacity /\ rate_' = rate_ /\ waited' = 0
  BY CapacityNat DEF LimiterInv, Capacity, TryConsume
<1>4. /\ got \in 0..Capacity
      /\ tokens_ <= got
      /\ got <= tokens_ + rate_ * w
      /\ got = Capacity \/ got = tokens_ + rate_ * w
  BY RefillBounds DEF LimiterInv
<1>5. /\ bytes * T \in Nat /\ rate_ * w \in Nat
      /\ window.bytes * T \in Nat /\ told.bytes * T \in Nat
      /\ rate_ * window.ticks \in Nat /\ rate_ * told.since \in Nat
      /\ rate_ * told.ticks \in Nat
  BY <1>1, <1>2, Products
<1>6. /\ (window.bytes + bytes) * T = window.bytes * T + bytes * T
      /\ rate_ * (window.ticks + w) = rate_ * window.ticks + rate_ * w
      /\ rate_ * (told.since + w) = rate_ * told.since + rate_ * w
  BY <1>1, <1>2, Products
<1>7. /\ window.bytes * T + tokens_ <= Capacity + rate_ * window.ticks
      /\ \/ told.bytes * T <= tokens_
         \/ tokens_ = Capacity
         \/ told.bytes * T + rate_ * told.since <= tokens_ + rate_ * told.ticks + rate_
  BY DEF LimiterInv, BucketInWindow, OnItsWay
<1>8. /\ tokens_' = got - (IF granted THEN bytes * T ELSE 0)
      /\ consume' = [bytes |-> bytes, granted |-> granted]
      /\ told' = IF granted THEN NothingTold ELSE [told EXCEPT !.since = @ + w]
      /\ window' = [bytes |-> window.bytes + (IF granted THEN bytes ELSE 0),
                    ticks |-> window.ticks + w]
  BY DEF TryConsume
<1> HIDE DEF T, w, got
<1>9. CASE granted
  <2>1. tokens_' = got - bytes * T /\ tokens_' \in 0..Capacity
    BY <1>3, <1>4, <1>5, <1>8, <1>9
  <2>2. /\ told' = [bytes |-> 0, ticks |-> 0, since |-> 0]
        /\ window' = [bytes |-> window.bytes + bytes, ticks |-> window.ticks + w]
        /\ consume' = [bytes |-> bytes, granted |-> TRUE]
    BY <1>8, <1>9 DEF NothingTold
  <2>3. LimiterTypeOK'
    BY <1>1, <1>2, <1>3, <2>1, <2>2 DEF LimiterTypeOK
  <2>4. BucketInWindow'
    BY <1>2, <1>3, <1>4, <1>5, <1>6, <1>7, <2>1, <2>2 DEF BucketInWindow, T
  <2>5. 0 * T = 0
    BY <1>1
  <2>6. OnItsWay'
    BY <1>3, <2>1, <2>2, <2>5 DEF OnItsWay, T
  <2> QED
    BY <2>2, <2>3, <2>4, <2>6 DEF LimiterInv, TooLittle
<1>10. CASE ~granted
  <2>1. tokens_' = got
    BY <1>4, <1>8, <1>10
  <2>2. /\ told' = [bytes |-> told.bytes, ticks |-> told.ticks, since |-> told.since + w]
        /\ window' = [bytes |-> window.bytes, ticks |-> window.ticks + w]
        /\ consume' = [bytes |-> bytes, granted |-> FALSE]
    <3>1. told' = [told EXCEPT !.since = @ + w]
      BY <1>8, <1>10
    <3>2. told' = [bytes |-> told.bytes, ticks |-> told.ticks, since |-> told.since + w]
      BY <1>2, <3>1
    <3>3. window' = [bytes |-> window.bytes, ticks |-> window.ticks + w]
      BY <1>2, <1>8, <1>10
    <3>4. granted = FALSE
      BY <1>10
    <3>5. consume' = [bytes |-> bytes, granted |-> FALSE]
      BY <1>8, <3>4
    <3> QED
      BY <3>2, <3>3, <3>5
  <2>3. LimiterTypeOK'
    BY <1>1, <1>2, <1>3, <1>4, <2>1, <2>2 DEF LimiterTypeOK
  <2>4. BucketInWindow'
    BY <1>2, <1>3, <1>4, <1>5, <1>6, <1>7, <2>1, <2>2 DEF BucketInWindow, T
  <2>5. OnItsWay'
    BY <1>2, <1>3, <1>4, <1>5, <1>6, <1>7, <2>1, <2>2 DEF OnItsWay, T
  <2>6. TooLittle'
    BY <1>3, <1>4, <1>5, <1>10, <2>1, <2>2 DEF TooLittle, T
  <2> QED
    BY <2>3, <2>4, <2>5, <2>6 DEF LimiterInv
<1> QED
  BY <1>9, <1>10

\* The quotient is cut: one tick more than it says is enough.
LEMMA WaitStep ==
  ASSUME LimiterInv, NEW bytes \in 0..MaxBytes, WaitForBytes(bytes)
  PROVE  LimiterInv'
<1> DEFINE T == TicksPerSecond
<1>1. T \in Nat /\ bytes \in Nat /\ MaxTicks \in Nat
  BY LimiterAssumption DEF LimiterAssumption
<1>2. rate_ \in Nat /\ tokens_ \in 0..Capacity /\ Capacity \in Nat
  BY CapacityNat DEF LimiterInv, LimiterTypeOK
<1>3. bytes * T \in Nat
  BY <1>1, Products
<1>4. PICK ticks \in Wait(bytes) : told' = [bytes |-> bytes, ticks |-> ticks, since |-> 0]
  BY DEF WaitForBytes
<1>5. UNCHANGED <<rate_, tokens_, waited, consume, window, Capacity>>
  BY DEF WaitForBytes, Capacity
<1>6. ticks \in Nat
      /\ (bytes * T <= tokens_ \/ rate_ = 0 \/ bytes * T <= tokens_ + rate_ * ticks + rate_)
  <2>1. CASE Needed(bytes) <= 0
    BY <1>2, <1>3, <2>1 DEF Wait, Needed
  <2>2. CASE ~(Needed(bytes) <= 0) /\ rate_ = 0
    BY <1>1, <2>2 DEF Wait
  <2>3. CASE ~(Needed(bytes) <= 0) /\ rate_ # 0
    <3>1. Needed(bytes) = bytes * T - tokens_ /\ Needed(bytes) \in Nat
      BY <1>2, <1>3, <2>3 DEF Needed
    <3>2. ticks = Needed(bytes) \div rate_
      BY <2>3 DEF Wait
    <3>3. ticks \in Nat /\ Needed(bytes) < rate_ * ticks + rate_
      BY <1>2, <2>3, <3>1, <3>2, QuotientAbove
    <3>4. rate_ * ticks \in Nat
      BY <1>2, <3>3, Products
    <3> HIDE DEF T
    <3> QED
      BY <1>2, <1>3, <3>1, <3>3, <3>4
  <2> QED
    BY <2>1, <2>2, <2>3
<1>7. LimiterTypeOK' /\ BucketInWindow' /\ TooLittle'
  BY <1>1, <1>4, <1>5, <1>6 DEF LimiterInv, LimiterTypeOK, BucketInWindow, TooLittle
<1>8. OnItsWay'
  <2>1. rate_ * 0 = 0
    BY <1>2
  <2>2. rate_ = 0 => tokens_ = Capacity
    BY <1>1, <1>2, Products DEF Capacity
  <2>3. rate_ * ticks \in Nat
    BY <1>2, <1>6, Products
  <2> HIDE DEF T
  <2>4. CASE bytes * T <= tokens_ \/ rate_ = 0
    BY <1>4, <1>5, <2>2, <2>4 DEF OnItsWay, T
  <2>5. CASE bytes * T <= tokens_ + rate_ * ticks + rate_
    BY <1>2, <1>3, <1>4, <1>5, <2>1, <2>3, <2>5 DEF OnItsWay, T
  <2> QED
    BY <1>6, <2>4, <2>5
<1> QED
  BY <1>7, <1>8 DEF LimiterInv

\* The invariant of the limiter holds in every reachable state.
LEMMA LimiterInvariance == LimiterSpec => []LimiterInv
<1>1. LimiterInv /\ [LimiterNext]_limiter => LimiterInv'
  <2> SUFFICES ASSUME LimiterInv, [LimiterNext]_limiter PROVE LimiterInv'
    OBVIOUS
  <2>1. CASE Tick
    BY <2>1
    DEF Tick, LimiterInv, LimiterTypeOK, BucketInWindow, TooLittle, OnItsWay, Capacity
  <2>2. CASE OpenWindow
    <3>1. Capacity' = Capacity /\ rate_' = rate_ /\ tokens_' = tokens_
      BY <2>2 DEF OpenWindow, Capacity
    <3>2. window' = [bytes |-> 0, ticks |-> 0] /\ UNCHANGED <<waited, consume, told>>
      BY <2>2 DEF OpenWindow
    <3>3. 0 * TicksPerSecond = 0 /\ rate_ * 0 = 0 /\ Capacity \in Nat
      BY LimiterAssumption, CapacityNat DEF LimiterAssumption, LimiterInv, LimiterTypeOK
    <3>4. BucketInWindow'
      BY <3>1, <3>2, <3>3 DEF BucketInWindow, LimiterInv, LimiterTypeOK
    <3> QED
      BY <3>1, <3>2, <3>4 DEF LimiterInv, LimiterTypeOK, TooLittle, OnItsWay
  <2>3. CASE UNCHANGED limiter
    BY <2>3
    DEF limiter, LimiterInv, LimiterTypeOK, BucketInWindow, TooLittle, OnItsWay, Capacity
  <2> QED
    BY <2>1, <2>2, <2>3, ConsumeStep, WaitStep DEF LimiterNext
<1> QED
  BY InitLimiterInv, <1>1, PTL DEF LimiterSpec

\* In no window of time more is granted than a full bucket and the rate's due.
THEOREM RateKept == LimiterSpec => []WithinRate
<1>1. LimiterInv => WithinRate
  <2> SUFFICES ASSUME LimiterInv PROVE WithinRate
    OBVIOUS
  <2>1. window.bytes * TicksPerSecond \in Nat /\ rate_ * window.ticks \in Nat
    BY LimiterAssumption, Products DEF LimiterAssumption, LimiterInv, LimiterTypeOK
  <2>2. tokens_ \in Nat /\ Capacity \in Nat
    BY CapacityNat DEF LimiterInv, LimiterTypeOK
  <2> QED
    BY <2>1, <2>2 DEF LimiterInv, BucketInWindow, WithinRate
<1> QED
  BY LimiterInvariance, <1>1, PTL

\* Whoever lets more time pass than wait_for_bytes told is not refused.
THEOREM WaitSuffices == LimiterSpec => []WaitIsEnough
<1>1. LimiterInv => WaitIsEnough
  <2> SUFFICES ASSUME LimiterInv, ~consume.granted, consume.bytes <= rate_,
                      told.bytes >= consume.bytes, told.since > told.ticks
               PROVE  FALSE
    BY DEF WaitIsEnough, LimiterInv, LimiterTypeOK
  <2> DEFINE T == TicksPerSecond
  <2>1. /\ T \in Nat /\ rate_ \in Nat /\ consume.bytes \in Nat /\ tokens_ \in Nat
        /\ told.bytes \in Nat /\ told.since \in Nat /\ told.ticks \in Nat
    BY LimiterAssumption, CapacityNat DEF LimiterAssumption, LimiterInv, LimiterTypeOK
  <2>2. tokens_ < consume.bytes * T
    BY DEF LimiterInv, TooLittle
  <2>3. consume.bytes * T <= told.bytes * T /\ consume.bytes * T <= rate_ * T
    BY <2>1, Products
  <2>4. consume.bytes * T \in Nat /\ told.bytes * T \in Nat /\ rate_ * T \in Nat
    BY <2>1, Products
  <2>5. rate_ * told.ticks + rate_ <= rate_ * told.since
    <3> DEFINE d == told.since - told.ticks - 1
    <3>1. d \in Nat /\ told.since = told.ticks + 1 + d
      BY <2>1
    <3> HIDE DEF d
    <3>2. rate_ * told.since = rate_ * told.ticks + rate_ + rate_ * d
      BY <2>1, <3>1
    <3>3. rate_ * d \in Nat /\ rate_ * told.ticks \in Nat
      BY <2>1, <3>1, Products
    <3> QED
      BY <2>1, <3>2, <3>3
  <2>6. rate_ * told.ticks \in Nat /\ rate_ * told.since \in Nat
    BY <2>1, Products
  <2>7. \/ told.bytes * T <= tokens_
        \/ tokens_ = rate_ * T
        \/ told.bytes * T + rate_ * told.since <= tokens_ + rate_ * told.ticks + rate_
    BY DEF LimiterInv, OnItsWay, Capacity
  <2> HIDE DEF T
  <2> QED
    BY <2>1, <2>2, <2>3, <2>4, <2>5, <2>6, <2>7
<1> QED
  BY LimiterInvariance, <1>1, PTL
=============================================================================
