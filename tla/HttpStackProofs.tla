-------------------------- MODULE HttpStackProofs --------------------------
(***************************************************************************)
(* The bounds of RateLimiter, for every limit, window and clock, and the   *)
(* layers of HttpStack around it, for any number of requests open at once. *)
(***************************************************************************)
EXTENDS HttpStack, FiniteSetTheorems, TLAPS

\* Quotient and rest.
LEMMA DivisionWithRest ==
  ASSUME NEW a \in Nat, NEW b \in Nat \ {0}
  PROVE  /\ a \div b \in Nat
         /\ a % b \in Nat
         /\ a % b < b
         /\ a = b * (a \div b) + (a % b)
  OBVIOUS

\* A window has at least one tick.
LEMMA PeriodIsPositive == Period \in Nat \ {0}
  BY LimiterConstants DEF Period

\* The window of an instant is a number of windows, the rest less than one.
LEMMA WindowBounds ==
  ASSUME NEW t \in Nat
  PROVE  /\ WindowOf(t) \in Nat
         /\ Period * WindowOf(t) <= t
         /\ t < Period * WindowOf(t) + Period
  BY PeriodIsPositive DEF WindowOf

\* Later instants do not fall into earlier windows.
LEMMA WindowsAreOrdered ==
  ASSUME NEW s \in Nat, NEW t \in Nat, s <= t
  PROVE  WindowOf(s) <= WindowOf(t)
<1> DEFINE a == WindowOf(s)
           b == WindowOf(t)
<1>1. a \in Nat /\ b \in Nat /\ Period * a <= s /\ t < Period * b + Period
  BY WindowBounds
<1>2. Period \in Nat \ {0}
  BY PeriodIsPositive
<1> HIDE DEF a, b
<1> SUFFICES ASSUME b < a PROVE FALSE
  BY <1>1 DEF a, b
<1>3. PICK c \in Nat : a = b + 1 + c
  <2>1. a - b - 1 \in Nat /\ a = b + 1 + (a - b - 1)
    BY <1>1
  <2> QED BY <2>1
<1>4. Period * a = Period * b + Period + Period * c
  BY <1>1, <1>2, <1>3
<1>5. Period * c >= 0 /\ Period * b \in Nat /\ Period * c \in Nat
  BY <1>1, <1>2, <1>3
<1> QED
  BY <1>1, <1>2, <1>4, <1>5

\* Two windows further on, more than a whole window has passed.
LEMMA TwoWindowsApart ==
  ASSUME NEW s \in Nat, NEW t \in Nat, WindowOf(s) + 2 <= WindowOf(t)
  PROVE  t - s > Period
<1> DEFINE a == WindowOf(s)
           b == WindowOf(t)
<1>1. a \in Nat /\ b \in Nat /\ s < Period * a + Period /\ Period * b <= t
  BY WindowBounds
<1>2. Period \in Nat \ {0}
  BY PeriodIsPositive
<1>3. a + 2 <= b
  OBVIOUS
<1> HIDE DEF a, b
<1>4. PICK c \in Nat : b = a + 2 + c
  <2>1. b - a - 2 \in Nat /\ b = a + 2 + (b - a - 2)
    BY <1>1, <1>3
  <2> QED BY <2>1
<1>5. Period * b = Period * a + Period + Period + Period * c
  BY <1>1, <1>2, <1>4
<1>6. Period * c >= 0 /\ Period * a \in Nat /\ Period * c \in Nat
  BY <1>1, <1>2, <1>4
<1> QED
  BY <1>1, <1>2, <1>5, <1>6

\* An instant in the first Period ticks of window w is in window w.
LEMMA WindowIs ==
  ASSUME NEW w \in Nat, NEW r \in Nat, r < Period
  PROVE  WindowOf(Period * w + r) = w
<1> DEFINE t == Period * w + r
           a == WindowOf(t)
<1>1. Period \in Nat \ {0}
  BY PeriodIsPositive
<1>2. Period * w \in Nat /\ t \in Nat
  BY <1>1
<1>3. a \in Nat /\ Period * a <= t /\ t < Period * a + Period
  BY <1>2, WindowBounds
<1>4. t = Period * w + r
  OBVIOUS
<1> HIDE DEF a, t
<1>5. ~(a < w)
  <2> SUFFICES ASSUME a < w PROVE FALSE
    OBVIOUS
  <2>1. PICK c \in Nat : w = a + 1 + c
    <3>1. w - a - 1 \in Nat /\ w = a + 1 + (w - a - 1)
      BY <1>3
    <3> QED BY <3>1
  <2>2. Period * w = Period * a + Period + Period * c /\ Period * c \in Nat
    BY <1>1, <1>3, <2>1
  <2>3. Period * a \in Nat
    BY <1>1, <1>3
  <2> QED BY <1>1, <1>2, <1>3, <1>4, <2>2, <2>3
<1>6. ~(w < a)
  <2> SUFFICES ASSUME w < a PROVE FALSE
    OBVIOUS
  <2>1. PICK c \in Nat : a = w + 1 + c
    <3>1. a - w - 1 \in Nat /\ a = w + 1 + (a - w - 1)
      BY <1>3
    <3> QED BY <3>1
  <2>2. Period * a = Period * w + Period + Period * c /\ Period * c \in Nat
    BY <1>1, <1>3, <2>1
  <2> QED BY <1>1, <1>2, <1>3, <1>4, <2>2
<1>7. a = w
  BY <1>3, <1>5, <1>6
<1> QED
  BY <1>7 DEF a, t

\* The rest of a window a refused caller is told to wait for, in ticks: it
\* leads into the first second of the next window.
LEMMA RetryLeadsOn ==
  ASSUME NEW t \in Nat
  PROVE  /\ RetryAfter(t) * Resolution \in Nat
         /\ WindowOf(t + RetryAfter(t) * Resolution) = WindowOf(t) + 1
         /\ t + RetryAfter(t) * Resolution >= Resolution
         /\ WindowOf(t + RetryAfter(t) * Resolution - Resolution) = WindowOf(t)
<1> DEFINE w == WindowOf(t)
           r == t % Period
           s == r \div Resolution
           f == r % Resolution
<1>1. Period \in Nat \ {0} /\ Resolution \in Nat \ {0} /\ WindowSeconds \in Nat \ {0}
      /\ Period = WindowSeconds * Resolution
  BY PeriodIsPositive, LimiterConstants DEF Period
<1>2. w \in Nat /\ r \in Nat /\ r < Period /\ t = Period * w + r
  BY <1>1, DivisionWithRest DEF WindowOf
<1>3. s \in Nat /\ f \in Nat /\ f < Resolution /\ r = Resolution * s + f
  BY <1>1, <1>2, DivisionWithRest
<1>4. RetryAfter(t) = WindowSeconds - s
  BY DEF RetryAfter
<1> HIDE DEF w, r, s, f
<1>5. s < WindowSeconds
  <2> SUFFICES ASSUME s >= WindowSeconds PROVE FALSE
    BY <1>1, <1>3
  <2>1. PICK c \in Nat : s = WindowSeconds + c
    <3>1. s - WindowSeconds \in Nat /\ s = WindowSeconds + (s - WindowSeconds)
      BY <1>1, <1>3
    <3> QED BY <3>1
  <2>2. Resolution * s = Period + Resolution * c /\ Resolution * c \in Nat
    BY <1>1, <2>1
  <2> QED BY <1>1, <1>2, <1>3, <2>2
<1>6. PICK u \in Nat : WindowSeconds = s + u + 1
  <2>1. WindowSeconds - s - 1 \in Nat /\ WindowSeconds = s + (WindowSeconds - s - 1) + 1
    BY <1>1, <1>3, <1>5
  <2> QED BY <2>1
<1>7. /\ RetryAfter(t) = u + 1
      /\ RetryAfter(t) * Resolution = u * Resolution + Resolution
      /\ u * Resolution \in Nat
  BY <1>1, <1>3, <1>4, <1>6
<1>8. Period = Resolution * s + u * Resolution + Resolution /\ Resolution * s \in Nat
  BY <1>1, <1>3, <1>6
<1>9. Period * (w + 1) = Period * w + Period /\ Period * w \in Nat
  BY <1>1, <1>2
<1>10. t + RetryAfter(t) * Resolution = Period * (w + 1) + f
  BY <1>1, <1>2, <1>3, <1>7, <1>8, <1>9
<1>11. f < Period
  BY <1>1, <1>3, <1>7, <1>8
<1>12. WindowOf(t + RetryAfter(t) * Resolution) = w + 1
  <2>1. w + 1 \in Nat
    BY <1>2
  <2> QED BY <1>3, <1>10, <1>11, <2>1, WindowIs
<1>13. t + RetryAfter(t) * Resolution - Resolution = Period * w + (r + u * Resolution)
  BY <1>1, <1>2, <1>7, <1>9
<1>14. r + u * Resolution \in Nat /\ r + u * Resolution < Period
  BY <1>1, <1>2, <1>3, <1>7, <1>8
<1>15. WindowOf(t + RetryAfter(t) * Resolution - Resolution) = w
  BY <1>2, <1>13, <1>14, WindowIs
<1> QED
  BY <1>1, <1>2, <1>7, <1>12, <1>15 DEF w
-----------------------------------------------------------------------------
(* The inductive invariant *)

\* How many of k's last admissions belong to the window of its counter.
Recent(k) == IF hits[k].count <= Limit THEN hits[k].count ELSE Limit

\* The counter's window is not in the future, the last Recent(k) admissions
\* are those of that window, and all others belong to earlier ones.
CounterInv ==
    \A k \in Keys :
        /\ hits[k].window <= WindowOf(now)
        /\ Recent(k) <= Len(admitted[k])
        /\ \A i \in 1 .. Len(admitted[k]) :
             IF i > Len(admitted[k]) - Recent(k)
             THEN WindowOf(admitted[k][i]) = hits[k].window
             ELSE WindowOf(admitted[k][i]) < hits[k].window

\* A refused caller may come back in the first second of the window after.
RetryInv ==
    \A k \in Keys : retryAt[k] # 0 =>
        /\ retryAt[k] >= Resolution
        /\ WindowOf(retryAt[k]) = hits[k].window + 1
        /\ WindowOf(retryAt[k] - Resolution) = hits[k].window

LimiterInv == TypeOK /\ CounterInv /\ WindowCap /\ RetryInv

\* The counter of the step at hand is a positive number.
LEMMA CountIsPositive ==
  ASSUME TypeOK, NEW k \in Keys
  PROVE  CountOf(k) \in Nat \ {0} /\ WindowOf(now) \in Nat
<1>1. now \in Nat /\ hits[k].count \in Nat
  BY DEF TypeOK
<1>2. WindowOf(now) \in Nat
  BY <1>1, WindowBounds
<1> QED
  BY <1>1, <1>2 DEF CountOf

\* A request that is let through keeps the invariant for its caller.
LEMMA AdmitKept ==
  ASSUME LimiterInv, NEW k \in Keys, Admit(k)
  PROVE  LimiterInv'
<1> USE LimiterConstants DEF LimiterInv
<1>1. CountOf(k) \in Nat \ {0} /\ WindowOf(now) \in Nat
  BY CountIsPositive
<1>2. TypeOK'
  BY <1>1 DEF Admit, TypeOK
<1>3. /\ now' = now
      /\ hits'[k] = [window |-> WindowOf(now), count |-> CountOf(k)]
      /\ admitted'[k] = Append(admitted[k], now)
      /\ retryAt'[k] = 0
      /\ \A h \in Keys \ {k} : /\ hits'[h] = hits[h]
                               /\ admitted'[h] = admitted[h]
                               /\ retryAt'[h] = retryAt[h]
  BY DEF Admit, TypeOK
<1> DEFINE n == Len(admitted[k])
           c == IF hits[k].window = WindowOf(now) THEN hits[k].count ELSE 0
<1>4. /\ n \in Nat /\ Len(admitted'[k]) = n + 1
      /\ admitted'[k][n + 1] = now
      /\ \A i \in 1 .. n : admitted'[k][i] = admitted[k][i] /\ admitted[k][i] \in Nat
  BY <1>3 DEF TypeOK
<1>5. /\ c \in Nat /\ CountOf(k) = c + 1 /\ c < Limit /\ c <= n
      /\ Recent(k)' = c + 1
  BY <1>1, <1>3 DEF Admit, TypeOK, CounterInv, CountOf, Recent
<1>6. \A i \in 1 .. n : /\ WindowOf(admitted[k][i]) \in Nat
                        /\ i > n - c => WindowOf(admitted[k][i]) = WindowOf(now)
                        /\ i <= n - c => WindowOf(admitted[k][i]) < WindowOf(now)
  <2> SUFFICES ASSUME NEW i \in 1 .. n
               PROVE  /\ WindowOf(admitted[k][i]) \in Nat
                      /\ i > n - c => WindowOf(admitted[k][i]) = WindowOf(now)
                      /\ i <= n - c => WindowOf(admitted[k][i]) < WindowOf(now)
    OBVIOUS
  <2>1. WindowOf(admitted[k][i]) \in Nat
    BY <1>4, WindowBounds
  <2>2. hits[k].window \in Nat /\ hits[k].count \in Nat /\ hits[k].window <= WindowOf(now)
    BY DEF TypeOK, CounterInv
  <2>3. /\ i > n - Recent(k) => WindowOf(admitted[k][i]) = hits[k].window
        /\ i <= n - Recent(k) => WindowOf(admitted[k][i]) < hits[k].window
        /\ Recent(k) \in Nat /\ Recent(k) <= n
    BY <1>4, <2>2 DEF CounterInv, Recent
  <2>4. CASE hits[k].window = WindowOf(now)
    BY <1>1, <1>4, <1>5, <2>1, <2>2, <2>3, <2>4 DEF Recent
  <2>5. CASE hits[k].window # WindowOf(now)
    BY <1>1, <1>4, <1>5, <2>1, <2>2, <2>3, <2>5
  <2> QED BY <2>4, <2>5
<1> HIDE DEF n, c
<1>7. CounterInv'
  <2> SUFFICES ASSUME NEW h \in Keys
               PROVE  /\ hits'[h].window <= WindowOf(now)
                      /\ Recent(h)' <= Len(admitted'[h])
                      /\ \A i \in 1 .. Len(admitted'[h]) :
                           IF i > Len(admitted'[h]) - Recent(h)'
                           THEN WindowOf(admitted'[h][i]) = hits'[h].window
                           ELSE WindowOf(admitted'[h][i]) < hits'[h].window
    BY <1>3 DEF CounterInv, WindowOf
  <2>1. CASE h = k
    <3>1. hits'[k].window = WindowOf(now) /\ Recent(k)' <= Len(admitted'[k])
      BY <1>3, <1>4, <1>5
    <3> SUFFICES ASSUME NEW i \in 1 .. Len(admitted'[k])
                 PROVE  IF i > Len(admitted'[k]) - Recent(k)'
                        THEN WindowOf(admitted'[k][i]) = WindowOf(now)
                        ELSE WindowOf(admitted'[k][i]) < WindowOf(now)
      BY <1>1, <2>1, <3>1
    <3> QED BY <1>4, <1>5, <1>6
  <2>2. CASE h # k
    <3>1. Recent(h)' = Recent(h)
      BY <1>3, <2>2 DEF Recent
    <3> QED BY <1>3, <2>2, <3>1 DEF CounterInv
  <2> QED BY <2>1, <2>2
<1>8. WindowCap'
  <2> SUFFICES ASSUME NEW h \in Keys, NEW i \in 1 .. Len(admitted'[h]),
                      i + Limit <= Len(admitted'[h])
               PROVE  WindowOf(admitted'[h][i]) < WindowOf(admitted'[h][i + Limit])
    BY DEF WindowCap, WindowOf
  <2>1. CASE h # k
    BY <1>3, <2>1 DEF WindowCap
  <2>2. CASE h = k
    <3>1. i \in 1 .. n /\ i + Limit <= n + 1
      BY <1>4, <2>2
    <3>2. CASE i + Limit = n + 1
      <4>1. Limit \in Nat /\ i <= n - c
        BY <1>4, <1>5, <3>1, <3>2
      <4>2. WindowOf(admitted[k][i]) < WindowOf(now) /\ admitted'[k][i] = admitted[k][i]
        BY <1>4, <1>6, <3>1, <4>1
      <4> QED BY <1>4, <2>2, <3>2, <4>2
    <3>3. CASE i + Limit <= n
      <4>1. i + Limit \in 1 .. n
        BY <1>4, <3>1, <3>3
      <4> QED BY <1>4, <2>2, <3>1, <3>3, <4>1 DEF WindowCap, n
    <3> QED BY <1>4, <3>1, <3>2, <3>3
  <2> QED BY <2>1, <2>2
<1>9. RetryInv'
  <2> SUFFICES ASSUME NEW h \in Keys, retryAt'[h] # 0
               PROVE  /\ retryAt'[h] >= Resolution
                      /\ WindowOf(retryAt'[h]) = hits'[h].window + 1
                      /\ WindowOf(retryAt'[h] - Resolution) = hits'[h].window
    BY DEF RetryInv, WindowOf
  <2>1. h # k
    BY <1>3
  <2> QED BY <1>3, <2>1 DEF RetryInv
<1> QED BY <1>2, <1>7, <1>8, <1>9

\* A request that is refused keeps it: the counter was at the limit, in the
\* same window.
LEMMA RefuseKept ==
  ASSUME LimiterInv, NEW k \in Keys, Refuse(k)
  PROVE  LimiterInv'
<1> USE LimiterConstants DEF LimiterInv
<1>1. CountOf(k) \in Nat \ {0} /\ WindowOf(now) \in Nat /\ now \in Nat
  BY CountIsPositive DEF TypeOK
<1>2. RetryAfter(now) * Resolution \in Nat
  BY <1>1, RetryLeadsOn
<1>3. TypeOK'
  BY <1>1, <1>2 DEF Refuse, TypeOK
<1>4. /\ now' = now /\ admitted' = admitted
      /\ hits'[k] = [window |-> WindowOf(now), count |-> CountOf(k)]
      /\ retryAt'[k] = now + RetryAfter(now) * Resolution
      /\ \A h \in Keys \ {k} : hits'[h] = hits[h] /\ retryAt'[h] = retryAt[h]
  BY DEF Refuse, TypeOK
<1>5. hits[k].window = WindowOf(now) /\ hits[k].count >= Limit
  BY <1>1 DEF Refuse, CountOf, TypeOK
<1>6. \A h \in Keys : Recent(h)' = Recent(h) /\ hits'[h].window = hits[h].window
  <2> SUFFICES ASSUME NEW h \in Keys
               PROVE  Recent(h)' = Recent(h) /\ hits'[h].window = hits[h].window
    OBVIOUS
  <2>1. CASE h = k
    BY <1>1, <1>4, <1>5, <2>1 DEF Refuse, Recent, TypeOK
  <2>2. CASE h # k
    BY <1>4, <2>2 DEF Recent
  <2> QED BY <2>1, <2>2
<1>7. CounterInv' /\ WindowCap'
  BY <1>4, <1>6 DEF CounterInv, WindowCap, WindowOf
<1>8. RetryInv'
  <2> SUFFICES ASSUME NEW h \in Keys, retryAt'[h] # 0
               PROVE  /\ retryAt'[h] >= Resolution
                      /\ WindowOf(retryAt'[h]) = hits'[h].window + 1
                      /\ WindowOf(retryAt'[h] - Resolution) = hits'[h].window
    BY DEF RetryInv, WindowOf
  <2>1. CASE h = k
    BY <1>1, <1>4, <2>1, RetryLeadsOn
  <2>2. CASE h # k
    BY <1>4, <2>2 DEF RetryInv
  <2> QED BY <2>1, <2>2
<1> QED BY <1>3, <1>7, <1>8

\* Time passes.
LEMMA TickKept ==
  ASSUME LimiterInv, Tick
  PROVE  LimiterInv'
<1> USE DEF LimiterInv
<1>1. TypeOK'
  BY DEF Tick, TypeOK
<1>2. /\ now \in Nat /\ now' = now + 1
      /\ UNCHANGED <<hits, admitted, retryAt>>
  BY DEF Tick, TypeOK
<1>3. /\ WindowOf(now) \in Nat /\ WindowOf(now') \in Nat
      /\ WindowOf(now) <= WindowOf(now')
  BY <1>2, WindowsAreOrdered, WindowBounds
<1>4. \A k \in Keys : hits[k].window \in Nat /\ Recent(k)' = Recent(k)
  BY <1>2 DEF TypeOK, Recent
<1>5. CounterInv'
  BY <1>2, <1>3, <1>4 DEF CounterInv, WindowOf
<1>6. WindowCap' /\ RetryInv'
  BY <1>2 DEF WindowCap, RetryInv, WindowOf
<1> QED BY <1>1, <1>5, <1>6

\* The limiter's invariant holds in every reachable state.
LEMMA LimiterInvariant == Spec => []LimiterInv
<1>1. Init => LimiterInv
  <2> SUFFICES ASSUME Init PROVE LimiterInv
    OBVIOUS
  <2>1. TypeOK
    BY DEF Init, TypeOK
  <2>2. WindowOf(now) \in Nat
    BY <2>1, WindowBounds DEF TypeOK
  <2>3. CounterInv /\ WindowCap /\ RetryInv
    BY <2>2, LimiterConstants DEF Init, CounterInv, WindowCap, RetryInv, Recent
  <2> QED BY <2>1, <2>3 DEF LimiterInv
<1>2. LimiterInv /\ [Next]_vars => LimiterInv'
  <2> SUFFICES ASSUME LimiterInv, [Next]_vars PROVE LimiterInv'
    OBVIOUS
  <2>1. CASE Tick
    BY <2>1, TickKept
  <2>2. ASSUME NEW k \in Keys, Admit(k) PROVE LimiterInv'
    BY <2>2, AdmitKept
  <2>3. ASSUME NEW k \in Keys, Refuse(k) PROVE LimiterInv'
    BY <2>3, RefuseKept
  <2>4. CASE UNCHANGED vars
    BY <2>4 DEF vars, LimiterInv, TypeOK, CounterInv, WindowCap, RetryInv, Recent, WindowOf
  <2> QED BY <2>1, <2>2, <2>3, <2>4 DEF Next
<1> QED BY <1>1, <1>2, PTL DEF Spec
-----------------------------------------------------------------------------
(* The results *)

\* No window of the clock lets more than Limit requests of a caller through,
\* whatever the limit, the window and the arrival of the requests.
THEOREM LimitHolds == Spec => []WindowCap
<1>1. LimiterInv => WindowCap
  BY DEF LimiterInv
<1> QED BY <1>1, LimiterInvariant, PTL

\* Any span as long as a window lets at most twice the limit through.
THEOREM BurstsAreBounded == Spec => []SlidingBound
<1>1. LimiterInv => SlidingBound
  <2> SUFFICES ASSUME LimiterInv, NEW k \in Keys, NEW i \in 1 .. Len(admitted[k]),
                      i + 2 * Limit <= Len(admitted[k])
               PROVE  admitted[k][i + 2 * Limit] - admitted[k][i] > Period
    BY DEF SlidingBound
  <2> DEFINE j == i + Limit
             m == i + 2 * Limit
  <2>1. /\ Limit \in Nat \ {0} /\ Len(admitted[k]) \in Nat
        /\ j \in 1 .. Len(admitted[k]) /\ j + Limit <= Len(admitted[k])
        /\ m = j + Limit /\ m \in 1 .. Len(admitted[k])
    BY LimiterConstants DEF LimiterInv, TypeOK
  <2>2. admitted[k][i] \in Nat /\ admitted[k][j] \in Nat /\ admitted[k][m] \in Nat
    BY <2>1 DEF LimiterInv, TypeOK
  <2>3. /\ WindowOf(admitted[k][i]) < WindowOf(admitted[k][j])
        /\ WindowOf(admitted[k][j]) < WindowOf(admitted[k][m])
    BY <2>1 DEF LimiterInv, WindowCap
  <2>4. WindowOf(admitted[k][i]) + 2 <= WindowOf(admitted[k][m])
    <3>1. /\ WindowOf(admitted[k][i]) \in Nat
          /\ WindowOf(admitted[k][j]) \in Nat
          /\ WindowOf(admitted[k][m]) \in Nat
      BY <2>2, WindowBounds
    <3> QED BY <2>3, <3>1
  <2> QED BY <2>2, <2>4, TwoWindowsApart
<1> QED BY <1>1, LimiterInvariant, PTL

\* Retry-After never sends a caller past the first second of the next window.
THEOREM RetryIsTight == Spec => []RetryAfterTight
<1>1. LimiterInv => RetryAfterTight
  BY DEF LimiterInv, TypeOK, RetryInv, RetryAfterTight
<1> QED BY <1>1, LimiterInvariant, PTL

\* A caller that has waited for as long as Retry-After said is let through.
THEOREM RetryIsEnough == Spec => RetryAfterSuffices
<1>1. LimiterInv /\ [Next]_vars =>
        [\A k \in Keys : Requested(k) /\ retryAt[k] # 0 /\ now >= retryAt[k]
            => LetThrough(k)]_vars
  <2> SUFFICES ASSUME LimiterInv, Next, NEW k \in Keys,
                      hits'[k] # hits[k], retryAt[k] # 0, now >= retryAt[k]
               PROVE  LetThrough(k)
    BY DEF Requested
  <2>1. ASSUME NEW h \in Keys, Refuse(h) PROVE h # k
    <3>1. /\ now \in Nat /\ retryAt[k] \in Nat
          /\ hits[k].window \in Nat
      BY DEF LimiterInv, TypeOK
    <3>2. WindowOf(retryAt[k]) <= WindowOf(now)
      BY <3>1, WindowsAreOrdered
    <3>3. WindowOf(now) \in Nat /\ hits[k].window # WindowOf(now)
      BY <3>1, <3>2, WindowBounds DEF LimiterInv, RetryInv
    <3>4. CountOf(k) <= Limit
      BY <3>3, LimiterConstants DEF CountOf
    <3> QED BY <2>1, <3>3, <3>4, LimiterConstants DEF Refuse, CountOf
  <2>2. ASSUME NEW h \in Keys, Admit(h) PROVE LetThrough(k)
    <3>1. h = k
      BY <2>2 DEF Admit, LimiterInv, TypeOK
    <3>2. /\ admitted[k] \in Seq(Nat)
          /\ admitted'[k] = Append(admitted[k], now)
          /\ now \in Nat
      BY <2>2, <3>1 DEF Admit, LimiterInv, TypeOK
    <3>3. Len(admitted'[k]) # Len(admitted[k])
      BY <3>2
    <3> QED BY <3>3 DEF LetThrough
  <2>3. ASSUME NEW h \in Keys, Refuse(h) PROVE FALSE
    BY <2>1, <2>3 DEF Refuse, LimiterInv, TypeOK
  <2>4. ~Tick
    BY DEF Tick
  <2> QED BY <2>2, <2>3, <2>4 DEF Next
<1> QED BY <1>1, LimiterInvariant, PTL DEF Spec, RetryAfterSuffices

\* No caller is refused before Limit of its own requests were let through in
\* the same window.
THEOREM RefusalsAreEarned == Spec => RefusedOnlyAtLimit
<1>1. LimiterInv /\ [Next]_vars =>
        [\A k \in Keys : Requested(k) /\ ~LetThrough(k) =>
           /\ Len(admitted[k]) >= Limit
           /\ WindowOf(admitted[k][Len(admitted[k]) - Limit + 1]) = WindowOf(now)]_vars
  <2> SUFFICES ASSUME LimiterInv, Next, NEW k \in Keys,
                      hits'[k] # hits[k], admitted'[k] = admitted[k]
               PROVE  /\ Len(admitted[k]) >= Limit
                      /\ WindowOf(admitted[k][Len(admitted[k]) - Limit + 1]) = WindowOf(now)
    BY DEF Requested, LetThrough
  <2>1. TypeOK
    BY DEF LimiterInv
  <2>2. ~Tick
    BY DEF Tick
  <2>3. ASSUME NEW h \in Keys, Admit(h) PROVE FALSE
    <3>1. h = k
      BY <2>1, <2>3 DEF Admit, TypeOK
    <3>2. /\ admitted[k] \in Seq(Nat)
          /\ admitted'[k] = Append(admitted[k], now)
          /\ now \in Nat
      BY <2>1, <2>3, <3>1 DEF Admit, TypeOK
    <3>3. Len(admitted'[k]) # Len(admitted[k])
      BY <3>2
    <3> QED BY <3>3
  <2>4. Refuse(k)
    <3>1. PICK h \in Keys : Refuse(h)
      BY <2>2, <2>3 DEF Next
    <3>2. h = k
      BY <2>1, <3>1 DEF Refuse, TypeOK
    <3> QED BY <3>1, <3>2
  <2>5. hits[k].window = WindowOf(now) /\ hits[k].count >= Limit /\ hits[k].count \in Nat
    BY <2>1, <2>4, CountIsPositive, LimiterConstants DEF Refuse, CountOf, TypeOK
  <2>6. Recent(k) = Limit /\ Limit \in Nat \ {0}
    BY <2>5, LimiterConstants DEF Recent
  <2> DEFINE n == Len(admitted[k])
  <2>7. n \in Nat /\ n >= Limit /\ n - Limit + 1 \in 1 .. n
    BY <2>1, <2>6 DEF LimiterInv, CounterInv, TypeOK
  <2>8. n - Limit + 1 > n - Recent(k)
    BY <2>6, <2>7
  <2> QED BY <2>5, <2>7, <2>8 DEF LimiterInv, CounterInv
<1> QED BY <1>1, LimiterInvariant, PTL DEF Spec, RefusedOnlyAtLimit
-----------------------------------------------------------------------------
(* The layers *)

Stages == {"idle", "received", "measured", "admitted", "endpoint", "returning", "raising",
           "recorded", "failed", "unhandled", "answered"}

Ids == Requests \cup {"trace", NULL}

Answer == [status : Statuses \cup {0}, envelope : Ids \cup {NoEnvelope}, secured : BOOLEAN,
           id : Ids]

\* Every variable of the layers has its type, the collectors' apart.
StackTypes ==
    /\ now \in Nat
    /\ request \in [Requests -> Traffic \cup {NULL}]
    /\ stage \in [Requests -> Stages]
    /\ context \in [Requests -> Ids]
    /\ started \in [Requests -> Nat]
    /\ answer \in [Requests -> Answer]

\* What a request has with it at each stage: its id in its context until the
\* layer that set it resets it, and then the parts of its answer.
IdKept(r) ==
    LET id == RequestId(r, request[r])
        Enveloped == answer[r].envelope = IF answer[r].status = 200 THEN NoEnvelope ELSE id
    IN  /\ stage[r] # "idle" => request[r] \in Traffic
        /\ stage[r] \notin {"idle", "unhandled", "answered"} => context[r] = id
        /\ stage[r] = "unhandled" => context[r] = NULL
        /\ stage[r] \in {"returning", "recorded"} =>
             answer[r].status \in Statuses \ {500} /\ Enveloped
        /\ stage[r] = "recorded" => answer[r].secured
        /\ stage[r] = "answered" =>
             IF answer[r].status = 500
             THEN ~answer[r].secured /\ answer[r].id = NULL /\ answer[r].envelope = NULL
             ELSE answer[r].secured /\ answer[r].id = id /\ Enveloped
        /\ stage[r] = "answered" => answer[r].status \in Statuses

IdsKept == \A r \in Requests : IdKept(r)

StackInv == StackTypes /\ IdsKept
-----------------------------------------------------------------------------
\* A step of the stack is the limiter's or none it sees.
LEMMA StackStep == StackTypes /\ IdsKept /\ [StackNext]_<<vars, stackVars>> => [Next]_vars
  <1> SUFFICES ASSUME StackTypes, IdsKept, StackNext, ~UNCHANGED vars PROVE Next
    BY DEF vars
  <1>1. CASE Tick
    BY <1>1 DEF Next
  <1>2. ASSUME NEW r \in Requests, Pass(r) \/ Throttle(r) PROVE Next
    <2>1. ClientKey(request[r]) \in Keys
      <3>1. request[r] \in Traffic
        BY <1>2 DEF Pass, Throttle, Goto, IdsKept, IdKept
      <3> QED BY <3>1, StackConstants DEF Message, ClientKey
    <2> QED BY <1>2, <2>1 DEF Pass, Throttle, Next
  <1> QED BY <1>1, <1>2 DEF StackNext, Receive, Measure, Authenticate, Return, Raise, Leave,
                            LeaveRaising, Respond, ResetRaising, AnswerUnhandled

\* The clock is the limiter's.
LEMMA ClockStep ==
    ASSUME now \in Nat, [Next]_vars
    PROVE  now' \in Nat
  BY DEF Next, Tick, Admit, Refuse, vars

\* Ids of requests, and what is made of them, have their types.
LEMMA IdTypes ==
    ASSUME StackTypes, NEW r \in Requests
    PROVE  /\ request[r] \in Traffic => RequestId(r, request[r]) \in Ids
           /\ \A s \in Statuses : error_body(r, s) \in Answer
           /\ Plain \in Answer
  <1>1. request[r] \in Traffic => request[r].sent \in {"trace", NULL}
    BY StackConstants DEF Message
  <1> QED BY <1>1 DEF RequestId, error_body, get_request_id, Plain, Answer, Ids, StackTypes,
                      Statuses

\* A step of one request keeps what all the others have with them.
Leaves(r) ==
    \A q \in Requests \ {r} : /\ request'[q] = request[q] /\ stage'[q] = stage[q]
                              /\ context'[q] = context[q] /\ answer'[q] = answer[q]

\* What the others have with them stays what it was.
LEMMA OthersKept ==
    ASSUME IdsKept, NEW r \in Requests, Leaves(r), IdKept(r)'
    PROVE  IdsKept'
  BY DEF IdsKept, IdKept, Leaves, RequestId

\* Every step keeps the types, and with every request what belongs to its stage.
LEMMA StackInvStep == StackInv /\ [StackNext]_<<vars, stackVars>> => StackInv'
  <1> SUFFICES ASSUME StackTypes, IdsKept, [StackNext]_<<vars, stackVars>>
               PROVE  StackTypes' /\ IdsKept'
    BY DEF StackInv
  <1>0. now' \in Nat
    BY StackStep, ClockStep DEF StackTypes
  <1> USE DEF StackTypes, Goto, Stages
  <1>1. CASE (Tick /\ UNCHANGED stackVars) \/ UNCHANGED <<vars, stackVars>>
    BY <1>0, <1>1 DEF stackVars, IdsKept, IdKept, RequestId
  <1>2. ASSUME NEW r \in Requests, NEW m \in Traffic, Receive(r, m)
        PROVE  StackTypes' /\ IdsKept'
    <2>1. RequestId(r, m) \in Ids
      BY StackConstants DEF Message, RequestId, Ids
    <2>2. StackTypes'
      BY <1>0, <1>2, <2>1 DEF Receive
    <2>3. Leaves(r) /\ IdKept(r)'
      BY <1>2 DEF Receive, IdKept, Leaves
    <2> QED BY <2>2, <2>3, OthersKept
  <1>3. ASSUME NEW r \in Requests, Measure(r) PROVE StackTypes' /\ IdsKept'
    <2>1. StackTypes'
      BY <1>0, <1>3 DEF Measure
    <2>2. Leaves(r) /\ IdKept(r)'
      BY <1>3 DEF Measure, IdsKept, IdKept, Leaves
    <2> QED BY <2>1, <2>2, OthersKept
  <1>4. ASSUME NEW r \in Requests, Pass(r) PROVE StackTypes' /\ IdsKept'
    <2>1. StackTypes'
      BY <1>0, <1>4 DEF Pass
    <2>2. Leaves(r) /\ IdKept(r)'
      BY <1>4 DEF Pass, IdsKept, IdKept, Leaves
    <2> QED BY <2>1, <2>2, OthersKept
  <1>5. ASSUME NEW r \in Requests, Throttle(r) PROVE StackTypes' /\ IdsKept'
    <2>1. StackTypes'
      BY <1>0, <1>5, IdTypes DEF Throttle, Statuses
    <2>2. Leaves(r) /\ IdKept(r)'
      BY <1>5 DEF Throttle, IdsKept, IdKept, Leaves, error_body, get_request_id, Statuses
    <2> QED BY <2>1, <2>2, OthersKept
  <1>6. ASSUME NEW r \in Requests, Authenticate(r) PROVE StackTypes' /\ IdsKept'
    <2>1. StackTypes'
      BY <1>0, <1>6, IdTypes DEF Authenticate, Statuses
    <2>2. Leaves(r) /\ IdKept(r)'
      BY <1>6 DEF Authenticate, IdsKept, IdKept, Leaves, error_body, get_request_id, Statuses
    <2> QED BY <2>1, <2>2, OthersKept
  <1>7. ASSUME NEW r \in Requests, Return(r) PROVE StackTypes' /\ IdsKept'
    <2>1. StackTypes'
      BY <1>0, <1>7, IdTypes DEF Return, Statuses
    <2>2. Leaves(r) /\ IdKept(r)'
      BY <1>7 DEF Return, IdsKept, IdKept, Leaves, error_body, get_request_id, Statuses, Plain
    <2> QED BY <2>1, <2>2, OthersKept
  <1>8. ASSUME NEW r \in Requests, Raise(r) PROVE StackTypes' /\ IdsKept'
    <2>1. StackTypes'
      BY <1>0, <1>8 DEF Raise
    <2>2. Leaves(r) /\ IdKept(r)'
      BY <1>8 DEF Raise, IdsKept, IdKept, Leaves
    <2> QED BY <2>1, <2>2, OthersKept
  <1>9. ASSUME NEW r \in Requests, Leave(r) PROVE StackTypes' /\ IdsKept'
    <2>1. StackTypes'
      BY <1>0, <1>9 DEF Leave, Answer
    <2>2. Leaves(r) /\ IdKept(r)'
      BY <1>9 DEF Leave, IdsKept, IdKept, Leaves, Answer
    <2> QED BY <2>1, <2>2, OthersKept
  <1>10. ASSUME NEW r \in Requests, LeaveRaising(r) PROVE StackTypes' /\ IdsKept'
    <2>1. StackTypes'
      BY <1>0, <1>10 DEF LeaveRaising
    <2>2. Leaves(r) /\ IdKept(r)'
      BY <1>10 DEF LeaveRaising, IdsKept, IdKept, Leaves
    <2> QED BY <2>1, <2>2, OthersKept
  <1>11. ASSUME NEW r \in Requests, Respond(r) PROVE StackTypes' /\ IdsKept'
    <2>1. RequestId(r, request[r]) \in Ids
      BY <1>11, IdTypes DEF Respond, IdsKept, IdKept
    <2>2. StackTypes'
      BY <1>0, <1>11, <2>1 DEF Respond, Answer, Ids
    <2>3. Leaves(r) /\ IdKept(r)'
      BY <1>11 DEF Respond, IdsKept, IdKept, Leaves, Answer
    <2> QED BY <2>2, <2>3, OthersKept
  <1>12. ASSUME NEW r \in Requests, ResetRaising(r) PROVE StackTypes' /\ IdsKept'
    <2>1. StackTypes'
      BY <1>0, <1>12 DEF ResetRaising, Ids
    <2>2. Leaves(r) /\ IdKept(r)'
      BY <1>12 DEF ResetRaising, IdsKept, IdKept, Leaves
    <2> QED BY <2>1, <2>2, OthersKept
  <1>13. ASSUME NEW r \in Requests, AnswerUnhandled(r) PROVE StackTypes' /\ IdsKept'
    <2>1. StackTypes'
      BY <1>0, <1>13, IdTypes DEF AnswerUnhandled, Statuses
    <2>2. Leaves(r) /\ IdKept(r)'
      BY <1>13 DEF AnswerUnhandled, IdsKept, IdKept, Leaves, error_body, get_request_id, Statuses
    <2> QED BY <2>1, <2>2, OthersKept
  <1> QED BY <1>1, <1>2, <1>3, <1>4, <1>5, <1>6, <1>7, <1>8, <1>9, <1>10, <1>11, <1>12, <1>13
          DEF StackNext

\* The types and the ids are invariant.
LEMMA StackInvariant == StackSpec => []StackInv
  <1>1. StackInit => StackInv
    <2> SUFFICES ASSUME StackInit PROVE StackTypes /\ IdsKept
      BY DEF StackInv
    <2>1. NULL \in Ids /\ Nothing \in Answer
      BY DEF Nothing, Answer, Ids
    <2>2. StackTypes
      BY <2>1 DEF StackInit, Init, StackTypes, Stages
    <2>3. IdsKept
      BY DEF StackInit, IdsKept, IdKept
    <2> QED BY <2>2, <2>3
  <1> QED BY <1>1, StackInvStep, PTL DEF StackSpec

\* Whatever is on its way at the same time, every answer carries the id of its
\* own request, in the header and in the error envelope, and the security
\* headers; an answer to an exception nobody handles carries no other's.
THEOREM AnswersAreTraceable == StackSpec => []AnswersCarryTheirId
  <1>1. StackInv => AnswersCarryTheirId
    BY DEF StackInv, IdsKept, IdKept, AnswersCarryTheirId, Answered
  <1> QED BY <1>1, StackInvariant, PTL

\* The stack implements the limiter: what is around it, its exempt paths and
\* the callers' keys take nothing away from what the limiter promises.
THEOREM StackImplementsLimiter == StackSpec => Spec
  <1>1. StackInit => Init
    BY DEF StackInit
  <1>2. StackInv /\ [StackNext]_<<vars, stackVars>> => [Next]_vars
    BY StackStep DEF StackInv
  <1> QED BY <1>1, <1>2, StackInvariant, PTL DEF StackSpec, Spec

\* In the whole stack, no window lets more than Limit requests of a caller through.
THEOREM StackLimitHolds == StackSpec => []WindowCap
  BY StackImplementsLimiter, LimitHolds, PTL

\* In the whole stack, a refusal means that Limit requests of that very caller
\* were let through in that window.
THEOREM StackRefusalsAreEarned == StackSpec => RefusedOnlyAtLimit
  BY StackImplementsLimiter, RefusalsAreEarned, PTL

\* In the whole stack, who waits for as long as a 429 says is let through.
THEOREM StackRetryIsEnough == StackSpec => RetryAfterSuffices
  BY StackImplementsLimiter, RetryIsEnough, PTL
-----------------------------------------------------------------------------
InFlight == {r \in Requests : stage[r] \in Within}
Through == {r \in Requests : stage[r] \notin Within \cup {"idle", "received"}}

\* The requests that are through with status s.
Ended(s) == {r \in Through : IF stage[r] \in {"failed", "unhandled"} THEN s = 500
                                                                    ELSE s = answer[r].status}

CollectorTypes ==
    /\ inFlight \in Nat
    /\ counted \in [Statuses -> Nat]
    /\ errors \in Nat
    /\ durations \in [buckets : [Buckets -> Nat], count : Nat]

\* There are finitely many requests on either side of MetricsMiddleware, and
\* the collectors are their numbers.
MetricsInv ==
    /\ CollectorTypes
    /\ IsFiniteSet(InFlight) /\ inFlight = Cardinality(InFlight)
    /\ IsFiniteSet(Through) /\ durations.count = Cardinality(Through)
    /\ \A s \in Statuses : counted[s] = Cardinality(Ended(s))
    /\ errors = counted[500]
    /\ \A b, c \in Buckets : b <= c => durations.buckets[b] <= durations.buckets[c]
    /\ \A b \in Buckets : durations.buckets[b] <= durations.count

\* A step that takes no request past MetricsMiddleware, in or out.
Stays == InFlight' = InFlight /\ Through' = Through /\ \A s \in Statuses : Ended(s)' = Ended(s)

\* Such a step leaves the collectors right if it leaves them alone.
LEMMA MetricsKept == MetricsInv /\ Stays /\ UNCHANGED metricVars => MetricsInv'
  BY DEF MetricsInv, Stays, metricVars, CollectorTypes

\* One request more.
LEMMA OneMore ==
    ASSUME NEW S, NEW T, NEW x, IsFiniteSet(S), x \notin S, T = S \cup {x}
    PROVE  IsFiniteSet(T) /\ Cardinality(T) = Cardinality(S) + 1 /\ Cardinality(S) \in Nat
  BY FS_AddElement, FS_CardinalityType

\* One request less.
LEMMA OneLess ==
    ASSUME NEW S, NEW T, NEW x, IsFiniteSet(S), x \in S, T = S \ {x}
    PROVE  IsFiniteSet(T) /\ Cardinality(T) = Cardinality(S) - 1 /\ Cardinality(S) \in Nat
  BY FS_RemoveElement, FS_CardinalityType

\* Counting a request on its way out, by whatever status and duration, keeps
\* the collectors in agreement.
LEMMA RecordKept ==
    ASSUME StackTypes, StackTypes', MetricsInv, NEW r \in Requests, NEW status \in Statuses,
           Record(r, status), r \in InFlight, r \notin Through,
           InFlight' = InFlight \ {r}, Through' = Through \cup {r},
           Ended(status)' = Ended(status) \cup {r},
           \A s \in Statuses \ {status} : Ended(s)' = Ended(s)
    PROVE  MetricsInv'
  <1> USE DEF MetricsInv, CollectorTypes
  <1> DEFINE t == now - started[r]
  <1>1. /\ IsFiniteSet(InFlight') /\ Cardinality(InFlight') = Cardinality(InFlight) - 1
        /\ inFlight' = inFlight - 1
    BY OneLess DEF Record
  <1>2. IsFiniteSet(Through') /\ Cardinality(Through') = Cardinality(Through) + 1
    BY OneMore
  <1>3. durations' = [buckets |-> [b \in Buckets |-> durations.buckets[b] + IF t <= b THEN 1 ELSE 0],
                      count |-> durations.count + 1]
    BY DEF Record, observe
  <1>4. t \in Int
    BY DEF StackTypes
  <1>5. counted' = [counted EXCEPT ![status] = @ + 1]
    BY DEF Record
  <1>6. \A s \in Statuses : IsFiniteSet(Ended(s))
    BY FS_Subset DEF Ended
  <1>7. Cardinality(Ended(status)') = Cardinality(Ended(status)) + 1
    <2>1. r \notin Ended(status)
      BY DEF Ended
    <2> QED BY <1>6, <2>1, OneMore
  <1>8. \A s \in Statuses : counted'[s] = Cardinality(Ended(s)')
    BY <1>5, <1>7
  <1>9. inFlight' \in Nat
    BY <1>1, FS_CardinalityType
  <1>10. errors' = counted'[500] /\ errors' \in Nat /\ counted' \in [Statuses -> Nat]
    BY <1>5 DEF Record, Statuses
  <1> HIDE DEF t
  <1>11. durations' \in [buckets : [Buckets -> Nat], count : Nat]
    BY <1>3
  <1>12. \A b, c \in Buckets : b <= c => durations'.buckets[b] <= durations'.buckets[c]
    <2> SUFFICES ASSUME NEW b \in Buckets, NEW c \in Buckets, b <= c
                 PROVE  durations'.buckets[b] <= durations'.buckets[c]
      OBVIOUS
    <2>1. b \in Nat /\ c \in Nat
      BY StackConstants
    <2>2. t <= b => t <= c
      BY <1>4, <2>1
    <2> QED BY <1>3, <2>2
  <1>13. \A b \in Buckets : durations'.buckets[b] <= durations'.count
    BY <1>3
  <1> QED BY <1>1, <1>2, <1>3, <1>8, <1>9, <1>10, <1>11, <1>12, <1>13

\* Every step keeps the collectors in agreement with the requests.
LEMMA MetricsStep ==
    StackInv /\ StackInv' /\ MetricsInv /\ [StackNext]_<<vars, stackVars>> => MetricsInv'
  <1> SUFFICES ASSUME StackTypes, StackTypes', IdsKept, MetricsInv,
                      [StackNext]_<<vars, stackVars>>
               PROVE  MetricsInv'
    BY DEF StackInv
  <1> USE DEF StackTypes, Goto, InFlight, Through, Within
  <1>1. CASE (Tick /\ UNCHANGED stackVars) \/ UNCHANGED <<vars, stackVars>>
    BY <1>1, MetricsKept DEF stackVars, Stays, Ended
  <1>2. ASSUME NEW r \in Requests,
               \/ \E m \in Traffic : Receive(r, m)
               \/ Pass(r) \/ Throttle(r) \/ Authenticate(r) \/ Return(r) \/ Raise(r)
        PROVE  MetricsInv'
    <2>1. /\ UNCHANGED metricVars
          /\ \A q \in Requests \ {r} : stage'[q] = stage[q] /\ answer'[q] = answer[q]
      BY <1>2 DEF Receive, Pass, Throttle, Authenticate, Return, Raise
    <2>2. \/ stage[r] = "idle" /\ stage'[r] = "received"
          \/ stage[r] \in Within /\ stage'[r] \in Within
      BY <1>2 DEF Receive, Pass, Throttle, Authenticate, Return, Raise
    <2>3. Stays
      BY <2>1, <2>2 DEF Stays, Ended
    <2> QED BY <2>1, <2>3, MetricsKept
  <1>3. ASSUME NEW r \in Requests, Measure(r) PROVE MetricsInv'
    <2>1. r \notin InFlight /\ InFlight' = InFlight \cup {r}
      BY <1>3 DEF Measure
    <2>2. Through' = Through /\ \A s \in Statuses : Ended(s)' = Ended(s)
      BY <1>3 DEF Measure, Ended
    <2>3. inFlight' = inFlight + 1 /\ UNCHANGED <<counted, errors, durations>>
      BY <1>3 DEF Measure
    <2> HIDE DEF InFlight, Through
    <2>4. IsFiniteSet(InFlight') /\ Cardinality(InFlight') = Cardinality(InFlight) + 1
      BY <2>1, OneMore DEF MetricsInv
    <2> QED BY <2>2, <2>3, <2>4 DEF MetricsInv, CollectorTypes
  <1>4. ASSUME NEW r \in Requests, Leave(r) PROVE MetricsInv'
    <2>1. answer[r].status \in Statuses /\ answer'[r].status = answer[r].status
      BY <1>4 DEF Leave, IdsKept, IdKept, Answer
    <2>2. /\ r \in InFlight /\ r \notin Through
          /\ InFlight' = InFlight \ {r} /\ Through' = Through \cup {r}
      BY <1>4 DEF Leave
    <2>3. \A q \in Requests \ {r} : stage'[q] = stage[q] /\ answer'[q] = answer[q]
      BY <1>4 DEF Leave
    <2>4. stage'[r] = "recorded"
      BY <1>4 DEF Leave
    <2>5. /\ Ended(answer[r].status)' = Ended(answer[r].status) \cup {r}
          /\ \A s \in Statuses \ {answer[r].status} : Ended(s)' = Ended(s)
      BY <2>1, <2>2, <2>3, <2>4 DEF Ended
    <2> QED BY <1>4, <2>1, <2>2, <2>5, RecordKept DEF Leave
  <1>5. ASSUME NEW r \in Requests, LeaveRaising(r) PROVE MetricsInv'
    <2>1. 500 \in Statuses
      BY DEF Statuses
    <2>2. /\ r \in InFlight /\ r \notin Through
          /\ InFlight' = InFlight \ {r} /\ Through' = Through \cup {r}
      BY <1>5 DEF LeaveRaising
    <2>3. \A q \in Requests \ {r} : stage'[q] = stage[q] /\ answer'[q] = answer[q]
      BY <1>5 DEF LeaveRaising
    <2>4. stage'[r] = "failed"
      BY <1>5 DEF LeaveRaising
    <2>5. /\ Ended(500)' = Ended(500) \cup {r}
          /\ \A s \in Statuses \ {500} : Ended(s)' = Ended(s)
      BY <2>1, <2>2, <2>3, <2>4 DEF Ended
    <2> QED BY <1>5, <2>1, <2>2, <2>5, RecordKept DEF LeaveRaising
  <1>6. ASSUME NEW r \in Requests, Respond(r) \/ ResetRaising(r) \/ AnswerUnhandled(r)
        PROVE  MetricsInv'
    <2>1. /\ UNCHANGED metricVars
          /\ \A q \in Requests \ {r} : stage'[q] = stage[q] /\ answer'[q] = answer[q]
      BY <1>6 DEF Respond, ResetRaising, AnswerUnhandled
    <2>2. \/ /\ stage[r] = "recorded" /\ stage'[r] = "answered"
             /\ answer'[r].status = answer[r].status
          \/ stage[r] = "failed" /\ stage'[r] = "unhandled"
          \/ stage[r] = "unhandled" /\ stage'[r] = "answered" /\ answer'[r].status = 500
      BY <1>6 DEF Respond, ResetRaising, AnswerUnhandled, error_body, Answer
    <2>3. Stays
      BY <2>1, <2>2 DEF Stays, Ended
    <2> QED BY <2>1, <2>3, MetricsKept
  <1> QED BY <1>1, <1>2, <1>3, <1>4, <1>5, <1>6 DEF StackNext

\* At every scrape the collectors agree with each other and with the requests,
\* for any number of requests open at once and whatever buckets there are.
THEOREM CollectorsAgree == StackSpec => []MetricsAddUp
  <1>1. StackInit => MetricsInv
    <2> SUFFICES ASSUME StackInit PROVE MetricsInv
      OBVIOUS
    <2>1. InFlight = {} /\ Through = {} /\ \A s \in Statuses : Ended(s) = {}
      BY DEF StackInit, InFlight, Through, Ended, Within
    <2>2. CollectorTypes /\ \A s \in Statuses : counted[s] = 0
      BY DEF StackInit, CollectorTypes
    <2>3. IsFiniteSet({}) /\ Cardinality({}) = 0
      BY FS_EmptySet
    <2>4. inFlight = 0 /\ errors = 0 /\ durations.count = 0
          /\ \A b \in Buckets : durations.buckets[b] = 0
      BY DEF StackInit
    <2>5. 500 \in Statuses
      BY DEF Statuses
    <2> QED BY <2>1, <2>2, <2>3, <2>4, <2>5 DEF MetricsInv
  <1>2. MetricsInv => MetricsAddUp
    BY DEF MetricsInv, MetricsAddUp, InFlight, Through, Ended
  <1> QED BY <1>1, <1>2, MetricsStep, StackInvariant, PTL DEF StackSpec
-----------------------------------------------------------------------------
\* Before the limiter and its endpoint have answered, a request has no status.
NoStatusYet ==
    \A r \in Requests : stage[r] \notin {"returning", "recorded", "answered"}
                          => answer[r].status = 0

\* The requests let in are those the limiter has a record of.
LetInCounted ==
    \A k \in Keys : IsFiniteSet(LetIn(k)) /\ Cardinality(LetIn(k)) = Len(admitted[k])

\* A request that was refused had Limit others of its key let in before it.
RefusedInTurn ==
    \A r \in Requests : answer[r].status = 429 =>
        /\ request[r] \in Traffic /\ request[r].path # "exempt"
        /\ Len(admitted[ClientKey(request[r])]) >= Limit

ThrottleInv == NoStatusYet /\ LetInCounted /\ RefusedInTurn

\* A message of the traffic has one of the keys.
LEMMA KeyOfMessage ==
    ASSUME NEW m \in Traffic
    PROVE  ClientKey(m) \in Keys
  BY StackConstants DEF Message, ClientKey

\* A step of r that the limiter does not see, that neither lets r in nor takes
\* it out, and that gives it no 429, keeps the invariant.
LEMMA UnseenByLimiter ==
    ASSUME StackTypes, ThrottleInv, NoStatusYet', UNCHANGED vars, NEW r \in Requests, Leaves(r),
           \A k \in Keys : r \in LetIn(k)' <=> r \in LetIn(k),
           answer'[r].status = 429 => answer[r].status = 429 /\ request'[r] = request[r]
    PROVE  ThrottleInv'
  <1> USE DEF ThrottleInv, vars
  <1>1. \A k \in Keys : LetIn(k)' = LetIn(k)
    BY DEF Leaves, LetIn, ClientKey
  <1>2. LetInCounted'
    BY <1>1 DEF LetInCounted
  <1>3. RefusedInTurn'
    BY DEF RefusedInTurn, Leaves, ClientKey
  <1> QED BY <1>2, <1>3

\* A request that is let in is one more of its key, for the limiter as well.
LEMMA LetInStep ==
    ASSUME StackTypes, IdsKept, LimiterInv, ThrottleInv, NEW r \in Requests,
           Pass(r), ~Exempt(request[r])
    PROVE  ThrottleInv'
  <1> USE DEF StackTypes, Goto
  <1>0. request[r] \in Traffic /\ stage[r] = "measured" /\ stage'[r] = "admitted"
    BY DEF Pass, IdsKept, IdKept
  <1> PICK h \in Keys : h = ClientKey(request[r])
    BY <1>0, KeyOfMessage
  <1>1. h \in Keys
    OBVIOUS
  <1>2. /\ UNCHANGED <<request, answer>>
        /\ \A q \in Requests \ {r} : stage'[q] = stage[q]
    BY DEF Pass
  <1>3. answer[r].status = 0
    BY <1>0 DEF ThrottleInv, NoStatusYet
  <1>4. Admit(h)
    BY DEF Pass
  <1>5. /\ admitted \in [Keys -> Seq(Nat)] /\ now \in Nat
        /\ admitted' = [admitted EXCEPT ![h] = Append(@, now)]
    BY <1>4 DEF LimiterInv, TypeOK, Admit
  <1>6. /\ Len(admitted'[h]) = Len(admitted[h]) + 1
        /\ \A k \in Keys \ {h} : admitted'[k] = admitted[k]
        /\ \A k \in Keys : Len(admitted[k]) \in Nat /\ Len(admitted'[k]) \in Nat
    BY <1>1, <1>5
  <1>7. NoStatusYet'
    BY <1>0, <1>2, <1>3 DEF ThrottleInv, NoStatusYet
  <1>8. LetIn(h)' = LetIn(h) \cup {r} /\ r \notin LetIn(h)
    BY <1>0, <1>2, <1>3 DEF LetIn, Exempt
  <1>9. \A k \in Keys \ {h} : LetIn(k)' = LetIn(k)
    BY <1>0, <1>2 DEF LetIn
  <1>10. LetInCounted'
    <2> SUFFICES ASSUME NEW k \in Keys
                 PROVE  IsFiniteSet(LetIn(k)') /\ Cardinality(LetIn(k)') = Len(admitted'[k])
      BY DEF LetInCounted
    <2>1. CASE k = h
      <3>1. IsFiniteSet(LetIn(h)) /\ Cardinality(LetIn(h)) = Len(admitted[h])
        BY <1>1 DEF ThrottleInv, LetInCounted
      <3>2. /\ IsFiniteSet(LetIn(h)')
            /\ Cardinality(LetIn(h)') = Cardinality(LetIn(h)) + 1
        BY <1>8, <3>1, OneMore
      <3> QED BY <1>6, <2>1, <3>1, <3>2
    <2>2. CASE k # h
      BY <1>6, <1>9, <2>2 DEF ThrottleInv, LetInCounted
    <2> QED BY <2>1, <2>2
  <1>11. RefusedInTurn'
    <2> SUFFICES ASSUME NEW q \in Requests, answer[q].status = 429
                 PROVE  /\ request[q] \in Traffic /\ request[q].path # "exempt"
                        /\ Len(admitted'[ClientKey(request[q])]) >= Limit
      BY <1>2 DEF RefusedInTurn, ClientKey
    <2>1. /\ request[q] \in Traffic /\ request[q].path # "exempt"
          /\ Len(admitted[ClientKey(request[q])]) >= Limit
      BY DEF ThrottleInv, RefusedInTurn
    <2>2. PICK g \in Keys : g = ClientKey(request[q])
      BY <2>1, KeyOfMessage
    <2>3. Len(admitted'[g]) >= Len(admitted[g]) /\ Len(admitted'[g]) \in Nat
      <3>1. CASE g = h
        BY <1>6, <3>1
      <3>2. CASE g # h
        BY <1>6, <3>2
      <3> QED BY <3>1, <3>2
    <2>4. Len(admitted[g]) \in Nat /\ Limit \in Nat
      BY <1>6, LimiterConstants
    <2>5. Len(admitted'[g]) >= Limit
      BY <2>1, <2>2, <2>3, <2>4
    <2> QED BY <2>1, <2>2, <2>5
  <1> QED BY <1>7, <1>10, <1>11 DEF ThrottleInv

\* A request that is refused finds as many of its key let in as the limit.
LEMMA RefusedStep ==
    ASSUME StackTypes, IdsKept, LimiterInv, ThrottleInv, NEW r \in Requests, Throttle(r)
    PROVE  ThrottleInv'
  <1> DEFINE h == ClientKey(request[r])
  <1> USE DEF StackTypes, Goto
  <1>1. /\ request[r] \in Traffic /\ h \in Keys
        /\ stage[r] = "measured" /\ stage'[r] = "returning"
    BY KeyOfMessage DEF Throttle, IdsKept, IdKept
  <1>2. /\ request' = request /\ admitted' = admitted /\ Refuse(h)
        /\ \A q \in Requests \ {r} : stage'[q] = stage[q] /\ answer'[q] = answer[q]
        /\ request[r].path # "exempt" /\ answer'[r].status = 429
    BY DEF Throttle, Refuse, Exempt, error_body, Answer
  <1>3. Len(admitted[h]) >= Limit
    <2>1. hits[h].count >= Limit /\ hits[h].count \in Nat
      BY <1>1, <1>2, CountIsPositive, LimiterConstants DEF Refuse, CountOf, TypeOK, LimiterInv
    <2>2. Recent(h) = Limit
      BY <2>1, LimiterConstants DEF Recent
    <2> QED BY <1>1, <2>2 DEF LimiterInv, CounterInv
  <1>4. NoStatusYet'
    BY <1>1, <1>2 DEF ThrottleInv, NoStatusYet
  <1>5. LetInCounted'
    <2>1. \A k \in Keys : LetIn(k)' = LetIn(k)
      BY <1>1, <1>2 DEF LetIn
    <2> QED BY <1>2, <2>1 DEF ThrottleInv, LetInCounted
  <1>6. RefusedInTurn'
    BY <1>1, <1>2, <1>3 DEF ThrottleInv, RefusedInTurn, ClientKey
  <1> QED BY <1>4, <1>5, <1>6 DEF ThrottleInv

\* Every step of the stack keeps the requests and the limiter in agreement.
LEMMA ThrottleStep ==
    StackInv /\ LimiterInv /\ ThrottleInv /\ [StackNext]_<<vars, stackVars>> => ThrottleInv'
  <1> SUFFICES ASSUME StackTypes, IdsKept, LimiterInv, ThrottleInv,
                      [StackNext]_<<vars, stackVars>>
               PROVE  ThrottleInv'
    BY DEF StackInv
  <1> USE DEF StackTypes, Goto
  <1>1. CASE (Tick /\ UNCHANGED stackVars) \/ UNCHANGED <<vars, stackVars>>
    <2>1. UNCHANGED <<admitted, request, stage, answer>>
      BY <1>1 DEF Tick, vars, stackVars
    <2>2. \A k \in Keys : LetIn(k)' = LetIn(k)
      BY <2>1 DEF LetIn
    <2>3. LetInCounted'
      BY <2>1, <2>2 DEF ThrottleInv, LetInCounted
    <2>4. NoStatusYet' /\ RefusedInTurn'
      BY <2>1 DEF ThrottleInv, NoStatusYet, RefusedInTurn, ClientKey
    <2> QED BY <2>3, <2>4 DEF ThrottleInv
  <1>2. ASSUME NEW r \in Requests, NEW m \in Traffic, Receive(r, m) PROVE ThrottleInv'
    <2>1. Leaves(r) /\ NoStatusYet' /\ answer'[r].status = 0
      BY <1>2 DEF Receive, Leaves, ThrottleInv, NoStatusYet
    <2>2. \A k \in Keys : r \notin LetIn(k) /\ r \notin LetIn(k)'
      BY <1>2 DEF Receive, LetIn
    <2> QED BY <1>2, <2>1, <2>2, UnseenByLimiter DEF Receive
  <1>3. ASSUME NEW r \in Requests, Measure(r) PROVE ThrottleInv'
    <2>1. Leaves(r) /\ NoStatusYet' /\ UNCHANGED answer
      BY <1>3 DEF Measure, Leaves, ThrottleInv, NoStatusYet
    <2>2. \A k \in Keys : r \notin LetIn(k) /\ r \notin LetIn(k)'
      BY <1>3 DEF Measure, LetIn
    <2> QED BY <1>3, <2>1, <2>2, UnseenByLimiter DEF Measure
  <1>4. ASSUME NEW r \in Requests, Pass(r), Exempt(request[r]) PROVE ThrottleInv'
    <2>1. Leaves(r) /\ NoStatusYet' /\ UNCHANGED <<vars, answer, request>>
      BY <1>4 DEF Pass, Leaves, ThrottleInv, NoStatusYet
    <2>2. \A k \in Keys : r \notin LetIn(k) /\ r \notin LetIn(k)'
      BY <1>4, <2>1 DEF Exempt, LetIn
    <2> QED BY <2>1, <2>2, UnseenByLimiter
  <1>5. ASSUME NEW r \in Requests,
               Authenticate(r) \/ Return(r) \/ Raise(r) \/ Leave(r) \/ LeaveRaising(r)
               \/ Respond(r) \/ ResetRaising(r) \/ AnswerUnhandled(r)
        PROVE  ThrottleInv'
    <2> DEFINE Past == {"admitted", "endpoint", "returning", "raising", "recorded", "failed",
                        "unhandled", "answered"}
    <2>1. /\ Leaves(r) /\ UNCHANGED <<vars, request>>
          /\ stage[r] \in Past /\ stage'[r] \in Past
      BY <1>5 DEF Authenticate, Return, Raise, Leave, LeaveRaising, Respond, ResetRaising,
                  AnswerUnhandled, Leaves
    <2>2. /\ answer'[r].status = 429 <=> answer[r].status = 429
          /\ stage'[r] \notin {"returning", "recorded", "answered"} => answer'[r].status = 0
      <3>1. CASE Leave(r) \/ Respond(r)
        BY <3>1 DEF Leave, Respond, Answer
      <3>2. CASE Raise(r) \/ LeaveRaising(r) \/ ResetRaising(r)
        BY <3>2 DEF Raise, LeaveRaising, ResetRaising, ThrottleInv, NoStatusYet
      <3>3. CASE Authenticate(r) \/ Return(r) \/ AnswerUnhandled(r)
        <4>1. answer[r].status = 0
          BY <3>3 DEF Authenticate, Return, AnswerUnhandled, ThrottleInv, NoStatusYet
        <4> QED BY <3>3, <4>1 DEF Authenticate, Return, AnswerUnhandled, error_body, Plain
      <3> QED BY <1>5, <3>1, <3>2, <3>3
    <2>3. NoStatusYet'
      BY <2>1, <2>2 DEF ThrottleInv, NoStatusYet, Leaves
    <2>4. \A k \in Keys : r \in LetIn(k)' <=> r \in LetIn(k)
      BY <2>1, <2>2 DEF LetIn
    <2> QED BY <2>1, <2>2, <2>3, <2>4, UnseenByLimiter
  <1> QED BY <1>1, <1>2, <1>3, <1>4, <1>5, LetInStep, RefusedStep DEF StackNext

\* Whatever probes are mixed with it, a request is refused only after Limit other
\* requests of its key that are no probes: the limiter's own record, in which a
\* probe leaves nothing, has one entry for each request that went past it.
THEOREM ThrottlingIsEarned == StackSpec => []ThrottledByOwnTraffic
  <1>1. StackInit => ThrottleInv
    <2> SUFFICES ASSUME StackInit PROVE ThrottleInv
      OBVIOUS
    <2>1. \A k \in Keys : LetIn(k) = {} /\ admitted[k] = <<>>
      BY DEF StackInit, Init, LetIn
    <2>2. NoStatusYet /\ RefusedInTurn
      BY DEF StackInit, Nothing, NoStatusYet, RefusedInTurn
    <2>3. LetInCounted
      <3>1. IsFiniteSet({}) /\ Cardinality({}) = 0
        BY FS_EmptySet
      <3>2. Len(<<>>) = 0
        OBVIOUS
      <3>3. ASSUME NEW k \in Keys
            PROVE  IsFiniteSet(LetIn(k)) /\ Cardinality(LetIn(k)) = Len(admitted[k])
        <4>1. LetIn(k) = {} /\ admitted[k] = <<>>
          BY <2>1
        <4> HIDE DEF LetIn
        <4> QED BY <3>1, <3>2, <4>1
      <3> QED BY <3>3 DEF LetInCounted
    <2> QED BY <2>2, <2>3 DEF ThrottleInv
  <1>2. StackInv /\ ThrottleInv => ThrottledByOwnTraffic
    BY KeyOfMessage DEF ThrottleInv, LetInCounted, RefusedInTurn, ThrottledByOwnTraffic
  <1>3. StackSpec => []LimiterInv
    BY StackImplementsLimiter, LimiterInvariant, PTL
  <1> QED BY <1>1, <1>2, <1>3, ThrottleStep, StackInvariant, PTL DEF StackSpec
=============================================================================
