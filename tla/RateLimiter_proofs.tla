------------------------- MODULE RateLimiter_proofs -------------------------
(***************************************************************************)
(* Proofs about RateLimiter, for any number of callers and permits and any *)
(* responses.                                                              *)
(***************************************************************************)
EXTENDS RateLimiter, FiniteSetTheorems, TLAPS

Sched == [rate: Nat, until: Nat, dailyUntil: Nat, quotaRate: Nat,
          quotaReset: Nat, changed: BOOLEAN]

Floor == Smaller(MinRate, MaxBackoff)

\* The configured interval, which nothing checks, may be above the bound.
Ceiling == Larger(MinRate, MaxBackoff)

\* While the daily pause lasts it is the pause in force.
DailyOK(s) == /\ s.dailyUntil <= s.until
              /\ now < s.dailyUntil => s.dailyUntil = s.until

\* What every change of the schedule keeps: a pause is never shortened, and a
\* change that moves an admission is announced.
Evolves(s, t) ==
  /\ t \in Sched
  /\ t.until >= s.until
  /\ s.changed => t.changed
  /\ ~t.changed => t.rate = s.rate /\ t.until = s.until
  /\ DailyOK(s) => DailyOK(t)
  /\ s.rate >= Floor => t.rate >= Floor
  /\ s.rate <= Ceiling => t.rate <= Ceiling

---------------------------------------------------------------------------
(* The schedule                                                            *)

\* Changes compose.
LEMMA EvolvesTransitive ==
  ASSUME NEW s \in Sched, NEW t, NEW u, Evolves(s, t), Evolves(t, u)
  PROVE  Evolves(s, u)
  BY DEF Evolves, Sched

\* Doing nothing is an evolution.
LEMMA EvolvesReflexive ==
  ASSUME NEW s \in Sched
  PROVE  Evolves(s, s)
  BY DEF Evolves, Sched

\* Clamping gives a value of the range.
LEMMA ClampType ==
  ASSUME NEW rate \in Nat
  PROVE  /\ Clamp(rate) \in Nat /\ Floor \in Nat /\ Ceiling \in Nat
         /\ Clamp(rate) >= Floor /\ Clamp(rate) <= Ceiling
  BY LimitsAssumption DEF Clamp, Smaller, Larger, Floor, Ceiling

\* A new interval leaves the pauses alone.
LEMMA SetRateEvolves ==
  ASSUME NEW s \in Sched, NEW rate \in Nat, now \in Nat
  PROVE  Evolves(s, SetRate(s, rate)) /\ SetRate(s, rate).until = s.until
<1>1. /\ Clamp(rate) \in Nat /\ Floor \in Nat /\ Ceiling \in Nat
      /\ Clamp(rate) >= Floor /\ Clamp(rate) <= Ceiling
  BY ClampType
<1>2. CASE Clamp(rate) = s.rate
  BY <1>2, EvolvesReflexive DEF SetRate
<1>3. CASE Clamp(rate) # s.rate
  <2> DEFINE t == [s EXCEPT !.rate = Clamp(rate), !.changed = TRUE]
  <2>1. SetRate(s, rate) = t
    BY <1>3 DEF SetRate
  <2>2. t \in Sched
    BY <1>1 DEF Sched
  <2>3. /\ t.rate = Clamp(rate) /\ t.changed = TRUE
        /\ t.until = s.until /\ t.dailyUntil = s.dailyUntil
    BY DEF Sched
  <2>4. s.until \in Nat /\ s.dailyUntil \in Nat
    BY DEF Sched
  <2> HIDE DEF t
  <2> QED BY <1>1, <2>1, <2>2, <2>3, <2>4 DEF Evolves, DailyOK
<1> QED BY <1>2, <1>3

\* A later pause keeps the daily pause in step.
LEMMA SetBackoffEvolves ==
  ASSUME NEW s \in Sched, NEW time \in Nat, now \in Nat, time > s.until
  PROVE  Evolves(s, SetBackoffUntil(s, time)) /\ SetBackoffUntil(s, time).until = time
<1> DEFINE daily == IF now < s.dailyUntil /\ time > s.dailyUntil
                      THEN time ELSE s.dailyUntil
           t == [s EXCEPT !.until = time, !.changed = TRUE, !.dailyUntil = daily]
<1>1. /\ s.until \in Nat /\ s.dailyUntil \in Nat /\ s.rate \in Nat
      /\ daily \in Nat
  BY DEF Sched
<1>2. SetBackoffUntil(s, time) = t
  BY <1>1 DEF SetBackoffUntil
<1>3. t \in Sched
  BY <1>1 DEF Sched
<1>4. t.until = time /\ t.changed = TRUE /\ t.dailyUntil = daily /\ t.rate = s.rate
  BY DEF Sched
<1> HIDE DEF t
<1>5. DailyOK(s) => DailyOK(t)
  BY <1>1, <1>4 DEF DailyOK
<1> QED BY <1>1, <1>2, <1>3, <1>4, <1>5 DEF Evolves

\* A pause only moves the schedule on.
LEMMA ApplyPauseEvolves ==
  ASSUME NEW s \in Sched, NEW delay \in Nat, NEW max \in Nat, now \in Nat
  PROVE  /\ Evolves(s, ApplyPause(s, delay, max))
         /\ delay > 0 => ApplyPause(s, delay, max).until >= now + Smaller(delay, max)
<1> DEFINE time == now + Smaller(delay, max)
<1>1. time \in Nat
  BY DEF Smaller
<1>2. CASE delay > 0 /\ time > s.until
  BY <1>1, <1>2, SetBackoffEvolves DEF ApplyPause
<1>3. CASE ~(delay > 0 /\ time > s.until)
  BY <1>1, <1>3, EvolvesReflexive DEF ApplyPause, Sched
<1> QED BY <1>2, <1>3
---------------------------------------------------------------------------
(* Headers                                                                 *)

\* A quota read from an answer is well typed.
LEMMA QuotaType ==
  ASSUME NEW a \in AnswerType, now \in Nat
  PROVE  QuotaRate(a) \in Nat /\ QuotaReset(a) \in Nat
<1>1. \A n \in Nat : n \div a.left \in Nat
  BY DEF AnswerType
<1>2. Smaller(a.dailyReset, MaxDailyWait) \in Nat
  BY LimitsAssumption DEF Smaller, AnswerType
<1> QED BY <1>1, <1>2, LimitsAssumption DEF QuotaRate, QuotaReset, Larger, AnswerType

\* The daily bucket; the pause it asks for is installed.
LEMMA ApplyDailyEvolves ==
  ASSUME NEW s \in Sched, NEW a \in AnswerType, now \in Nat
  PROVE  /\ Evolves(s, ApplyDaily(s, a))
         /\ DailyExhausted(a) =>
              ApplyDaily(s, a).until >= now + Smaller(a.dailyReset, MaxDailyWait)
<1> DEFINE fresh == [s EXCEPT !.quotaRate = IF a.daily = "low" THEN QuotaRate(a)
                                                               ELSE MinRate,
                              !.quotaReset = QuotaReset(a)]
           held == ApplyPause(fresh, a.dailyReset, MaxDailyWait)
<1>0. fresh \in Sched
  BY QuotaType, LimitsAssumption DEF Sched
<1>1. fresh \in Sched /\ Evolves(s, fresh)
  <2>1. /\ fresh.until = s.until /\ fresh.dailyUntil = s.dailyUntil
        /\ fresh.rate = s.rate /\ fresh.changed = s.changed
    BY DEF Sched
  <2>2. s.until \in Nat
    BY DEF Sched
  <2> HIDE DEF fresh
  <2> QED BY <1>0, <2>1, <2>2 DEF Evolves, DailyOK
<1>2. CASE a.daily = "none"
  BY <1>2, EvolvesReflexive DEF ApplyDaily, DailyExhausted
<1>3. CASE a.daily # "none" /\ ~DailyExhausted(a)
  BY <1>1, <1>3 DEF ApplyDaily
<1>4. CASE a.daily # "none" /\ DailyExhausted(a)
  <2>1. a.dailyReset \in Nat /\ a.dailyReset > 0 /\ MaxDailyWait \in Nat
    BY <1>4, LimitsAssumption DEF DailyExhausted, AnswerType
  <2> HIDE DEF fresh
  <2>2. /\ Evolves(fresh, held)
        /\ held.until >= now + Smaller(a.dailyReset, MaxDailyWait)
    BY <1>1, <2>1, ApplyPauseEvolves
  <2>3. ApplyDaily(s, a) = [held EXCEPT !.dailyUntil = Larger(@, held.until)]
    BY <1>4 DEF ApplyDaily, ApplyDailyResetWait, fresh
  <2> HIDE DEF held
  <2>4. Evolves(held, ApplyDaily(s, a)) /\ ApplyDaily(s, a).until = held.until
    BY <2>2, <2>3 DEF Evolves, Sched, DailyOK, Larger
  <2>5. Evolves(s, ApplyDaily(s, a))
    BY <1>1, <2>2, <2>4, EvolvesTransitive DEF Evolves
  <2> QED BY <2>2, <2>4, <2>5
<1> QED BY <1>2, <1>3, <1>4

\* The window bucket asks for at least the time to its reset.
LEMMA ApplyWindowEvolves ==
  ASSUME NEW s \in Sched, NEW a \in AnswerType, now \in Nat
  PROVE  /\ Evolves(s, ApplyWindow(s, a))
         /\ WindowExhausted(a) =>
              ApplyWindow(s, a).until >= now + Smaller(a.windowReset, MaxBackoff)
<1>1. a.windowReset \in Nat /\ MaxBackoff \in Nat
  BY LimitsAssumption DEF AnswerType
<1>2. Padded(a.windowReset) \in Nat /\ Padded(a.windowReset) >= a.windowReset
  BY <1>1 DEF Padded
<1>3. Smaller(Padded(a.windowReset), MaxBackoff) >= Smaller(a.windowReset, MaxBackoff)
  BY <1>1, <1>2 DEF Smaller
<1>4. CASE a.window \in {"exhausted", "low"} /\ a.windowReset > 0
  <2> DEFINE t == ApplyPause(s, Padded(a.windowReset), MaxBackoff)
  <2>1. ApplyWindow(s, a) = t
    BY <1>4 DEF ApplyWindow, ApplyRetryAfter
  <2>2. Padded(a.windowReset) > 0
    BY <1>1, <1>2, <1>4
  <2>3. /\ Evolves(s, t)
        /\ t.until >= now + Smaller(Padded(a.windowReset), MaxBackoff)
    BY <1>1, <1>2, <2>2, ApplyPauseEvolves
  <2>4. /\ Smaller(Padded(a.windowReset), MaxBackoff) \in Nat
        /\ Smaller(a.windowReset, MaxBackoff) \in Nat
    BY <1>1, <1>2 DEF Smaller
  <2>5. t.until \in Nat
    BY <2>3 DEF Evolves, Sched
  <2> HIDE DEF t
  <2> QED BY <1>3, <2>1, <2>3, <2>4, <2>5
<1>5. CASE ~(a.window \in {"exhausted", "low"} /\ a.windowReset > 0)
  BY <1>5, EvolvesReflexive DEF ApplyWindow, WindowExhausted
<1> QED BY <1>4, <1>5

\* The standard headers only move the schedule on.
LEMMA ApplyIETFEvolves ==
  ASSUME NEW s \in Sched, NEW a \in AnswerType, now \in Nat
  PROVE  /\ Evolves(s, ApplyIETF(s, a))
         /\ DailyExhausted(a) =>
              ApplyIETF(s, a).until >= now + Smaller(a.dailyReset, MaxDailyWait)
         /\ WindowExhausted(a) =>
              ApplyIETF(s, a).until >= now + Smaller(a.windowReset, MaxBackoff)
<1> DEFINE d == ApplyDaily(s, a)
           w == ApplyWindow(d, a)
           rate == Larger(IF a.daily = "low" THEN QuotaRate(a) ELSE MinRate,
                          IF a.window = "none" THEN 0
                                               ELSE Smaller(a.interval, MaxBackoff))
           t == SetRate(w, rate)
<1>1. /\ Evolves(s, d) /\ d \in Sched
      /\ DailyExhausted(a) => d.until >= now + Smaller(a.dailyReset, MaxDailyWait)
  BY ApplyDailyEvolves DEF Evolves
<1>2. /\ Evolves(d, w) /\ w \in Sched
      /\ WindowExhausted(a) => w.until >= now + Smaller(a.windowReset, MaxBackoff)
  <2> HIDE DEF d
  <2> QED BY <1>1, ApplyWindowEvolves DEF Evolves
<1>3. rate \in Nat
  BY QuotaType, LimitsAssumption DEF Larger, Smaller, AnswerType
<1>4. /\ Evolves(w, t) /\ t.until = w.until
  <2> HIDE DEF w, rate
  <2> QED BY <1>2, <1>3, SetRateEvolves
<1>5. Evolves(s, w)
  <2> HIDE DEF d, w
  <2> QED BY <1>1, <1>2, EvolvesTransitive
<1>6. Evolves(s, t)
  <2> HIDE DEF w, t
  <2> QED BY <1>4, <1>5, EvolvesTransitive
<1>7. ApplyIETF(s, a) = t
  BY DEF ApplyIETF
<1>8. /\ w.until >= d.until /\ w.until \in Nat /\ d.until \in Nat
      /\ Smaller(a.dailyReset, MaxDailyWait) \in Nat
  <2>1. Smaller(a.dailyReset, MaxDailyWait) \in Nat
    BY LimitsAssumption DEF Smaller, AnswerType
  <2> HIDE DEF w, d
  <2> QED BY <1>1, <1>2, <2>1 DEF Evolves, Sched
<1> HIDE DEF d, w, t
<1> QED BY <1>1, <1>2, <1>4, <1>6, <1>7, <1>8

\* The older headers only move the schedule on.
LEMMA ApplyLegacyEvolves ==
  ASSUME NEW s \in Sched, NEW a \in AnswerType, now \in Nat
  PROVE  Evolves(s, ApplyLegacy(s, a))
<1> DEFINE held == IF LegacyExhausted(a) THEN ApplyRetryAfter(s, a.legacyReset)
                                         ELSE s
           rate == CASE a.legacy = "low" /\ a.legacyReset > 0 ->
                          Larger(MinRate, a.legacyReset \div a.left)
                     [] a.legacy \in {"low", "exhausted"} /\ a.legacyReset = 0 ->
                          2 * MinRate
                     [] OTHER -> MinRate
<1>1. CASE a.legacy = "none"
  BY <1>1, EvolvesReflexive DEF ApplyLegacy
<1>2. CASE a.legacy # "none"
  <2>1. a.legacyReset \in Nat /\ MaxBackoff \in Nat
    BY LimitsAssumption DEF AnswerType
  <2>2. Evolves(s, held)
    BY <2>1, ApplyPauseEvolves, EvolvesReflexive DEF ApplyRetryAfter
  <2>3. held \in Sched
    BY <2>2 DEF Evolves
  <2>4. rate \in Nat
    <3>1. a.legacyReset \div a.left \in Nat
      BY DEF AnswerType
    <3> QED BY <3>1, LimitsAssumption DEF Larger
  <2>5. ApplyLegacy(s, a) = SetRate(held, rate)
    BY <1>2 DEF ApplyLegacy
  <2> HIDE DEF held, rate
  <2>6. Evolves(held, SetRate(held, rate))
    BY <2>3, <2>4, SetRateEvolves
  <2> QED BY <2>2, <2>5, <2>6, EvolvesTransitive
<1> QED BY <1>1, <1>2

\* Back-offs are well typed.
LEMMA BackoffsType ==
  ASSUME NEW s \in Sched, NEW b \in Backoffs(s)
  PROVE  b \in Nat
<1>1. PICK f \in BackoffFactors : b = Clamp(s.rate * f)
  BY DEF Backoffs
<1>2. s.rate \in Nat /\ f \in Nat
  BY LimitsAssumption DEF Sched
<1>3. s.rate * f \in Nat
  BY <1>2
<1> QED BY <1>1, <1>3, ClampType

\* An exponential back-off only moves the schedule on.
LEMMA ExponentialEvolves ==
  ASSUME NEW s \in Sched, NEW b \in Nat, now \in Nat
  PROVE  Evolves(s, ApplyExponentialBackoff(s, b))
<1> DEFINE t == SetRate(s, b)
<1>1. Evolves(s, t) /\ t \in Sched /\ t.until = s.until
  BY SetRateEvolves DEF Evolves
<1>2. CASE now + b > s.until
  <2>1. Evolves(t, SetBackoffUntil(t, now + b))
    <3> HIDE DEF t
    <3> QED BY <1>1, <1>2, SetBackoffEvolves
  <2>2. ApplyExponentialBackoff(s, b) = SetBackoffUntil(t, now + b)
    BY <1>2 DEF ApplyExponentialBackoff
  <2> HIDE DEF t
  <2> QED BY <1>1, <2>1, <2>2, EvolvesTransitive
<1>3. CASE ~(now + b > s.until)
  BY <1>1, <1>3 DEF ApplyExponentialBackoff
<1> QED BY <1>2, <1>3

\* The delay asked for by an answer is well typed.
LEMMA AskedType ==
  ASSUME NEW a \in AnswerType
  PROVE  Asked(a) \in Nat
  BY LimitsAssumption DEF Asked, Smaller, AnswerType

\* Whatever the headers say, the schedule evolves, and a pause the server asked
\* for is in force.
LEMMA AfterHeadersEvolves ==
  ASSUME NEW s \in Sched, NEW a \in AnswerType, now \in Nat,
         NEW t \in AfterHeaders(s, a)
  PROVE  Evolves(s, t) /\ (Asked(a) > 0 => t.until >= now + Asked(a))
<1>1. CASE a.limited /\ DailyExhausted(a)
  <2>1. t = ApplyIETF(s, a)
    BY <1>1 DEF AfterHeaders
  <2>2. Asked(a) = Smaller(a.dailyReset, MaxDailyWait)
    BY <1>1 DEF Asked
  <2> QED BY <1>1, <2>1, <2>2, ApplyIETFEvolves
<1>2. CASE ~(a.limited /\ DailyExhausted(a)) /\ a.retryAfter > 0
  <2>1. t = ApplyRetryAfter(s, a.retryAfter)
    BY <1>2 DEF AfterHeaders
  <2>2. Asked(a) = Smaller(a.retryAfter, MaxBackoff)
    BY <1>2 DEF Asked
  <2>3. a.retryAfter \in Nat /\ MaxBackoff \in Nat
    BY LimitsAssumption DEF AnswerType
  <2> QED BY <1>2, <2>1, <2>2, <2>3, ApplyPauseEvolves DEF ApplyRetryAfter
<1>3. CASE /\ ~(a.limited /\ DailyExhausted(a)) /\ ~(a.retryAfter > 0)
           /\ a.limited
  <2>1. CASE WindowExhausted(a)
    <3>1. t = ApplyIETF(s, a)
      BY <1>3, <2>1 DEF AfterHeaders
    <3>2. Asked(a) = Smaller(a.windowReset, MaxBackoff)
      BY <1>3, <2>1 DEF Asked
    <3> QED BY <2>1, <3>1, <3>2, ApplyIETFEvolves
  <2>2. CASE ~WindowExhausted(a)
    <3>1. Asked(a) = 0
      BY <1>3, <2>2 DEF Asked
    <3>2. CASE LegacyExhausted(a)
      <4>1. t = ApplyLegacy(s, a)
        BY <1>3, <2>2, <3>2 DEF AfterHeaders
      <4> QED BY <3>1, <4>1, ApplyLegacyEvolves
    <3>3. CASE ~LegacyExhausted(a)
      <4>1. PICK b \in Backoffs(s) : t = ApplyExponentialBackoff(s, b)
        BY <1>3, <2>2, <3>3 DEF AfterHeaders
      <4> QED BY <3>1, <4>1, BackoffsType, ExponentialEvolves
    <3> QED BY <3>2, <3>3
  <2> QED BY <2>1, <2>2
<1>4. CASE /\ ~a.limited /\ ~(a.retryAfter > 0)
  <2>1. a.retryAfter = 0
    BY <1>4 DEF AnswerType
  <2>2. CASE a.daily # "none" \/ a.window # "none"
    <3>1. t = ApplyIETF(s, a)
      BY <1>4, <2>2 DEF AfterHeaders
    <3>2. \/ DailyExhausted(a) /\ Asked(a) = Smaller(a.dailyReset, MaxDailyWait)
          \/ WindowExhausted(a) /\ Asked(a) = Smaller(a.windowReset, MaxBackoff)
          \/ Asked(a) = 0
      BY <2>1 DEF Asked
    <3> QED BY <3>1, <3>2, ApplyIETFEvolves
  <2>3. CASE ~(a.daily # "none" \/ a.window # "none")
    <3>1. t = ApplyLegacy(s, a)
      BY <1>4, <2>3 DEF AfterHeaders
    <3>2. Asked(a) = 0
      BY <1>4, <2>3 DEF Asked, DailyExhausted, WindowExhausted
    <3> QED BY <3>1, <3>2, ApplyLegacyEvolves
  <2> QED BY <2>2, <2>3
<1> QED BY <1>1, <1>2, <1>3, <1>4

---------------------------------------------------------------------------
(* Permits                                                                 *)

Waiting == {"idle", "queued"}

\* The holders of slots are finitely many.
LEMMA HoldersFinite ==
  IsFiniteSet(Holders) /\ Cardinality(Holders) \in Nat
<1>1. Holders \subseteq Callers /\ IsFiniteSet(Callers)
  BY LimitsAssumption DEF Holders
<1> QED BY <1>1, FS_Subset, FS_CardinalityType

\* A new holder counts as one more.
LEMMA HolderAdded ==
  ASSUME TypeOK, NEW c \in Callers, state[c] \in Waiting,
         NEW q \in Places \ Waiting, Move(c, q)
  PROVE  Cardinality(Holders') = Cardinality(Holders) + 1
<1>1. Holders' = Holders \cup {c} /\ c \notin Holders
  BY DEF Holders, Move, TypeOK, Waiting
<1> QED BY <1>1, HoldersFinite, FS_AddElement

\* A holder that leaves counts as one less.
LEMMA HolderRemoved ==
  ASSUME TypeOK, NEW c \in Callers, state[c] \notin Waiting, Move(c, "idle")
  PROVE  Cardinality(Holders') = Cardinality(Holders) - 1 /\ Cardinality(Holders) > 0
<1>1. Holders' = Holders \ {c} /\ c \in Holders
  BY DEF Holders, Move, TypeOK, Waiting
<1>2. Cardinality(Holders') = Cardinality(Holders) - 1
  BY <1>1, HoldersFinite, FS_RemoveElement
<1>3. Cardinality(Holders) # 0
  BY <1>1, HoldersFinite, FS_EmptySet
<1> QED BY <1>2, <1>3, HoldersFinite

\* The others do not change the count.
LEMMA HoldersKept ==
  ASSUME TypeOK, NEW c \in Callers, NEW q \in Places, Move(c, q),
         state[c] \in Waiting <=> q \in Waiting
  PROVE  Holders' = Holders
BY DEF Holders, Move, TypeOK, Waiting

\* What ends a request gives back the permit it held.
LEMMA PermitReturned ==
  ASSUME TypeOK, PermitsBalance, NEW c \in Callers, state[c] \notin Waiting,
         Release, Move(c, "idle")
  PROVE  PermitsBalance' /\ permits' \in 0..MaxConcurrent
<1>1. Cardinality(Holders') = Cardinality(Holders) - 1 /\ Cardinality(Holders) > 0
  BY HolderRemoved
<1> QED BY <1>1, HoldersFinite, LimitsAssumption DEF PermitsBalance, Release, TypeOK
---------------------------------------------------------------------------
(* The inductive invariant                                                 *)

Timely ==
  /\ last <= now
  /\ sched.rate >= Floor /\ sched.rate <= Ceiling
  /\ DailyOK(sched)
  /\ asked <= Larger(sched.until, now)
  /\ NoOversleep

Inductive == TypeOK /\ PermitsBalance /\ Timely

\* The floor of a rate is well typed.
LEMMA FloorType ==
  /\ Floor \in Nat /\ Floor <= MinRate
  /\ Ceiling \in Nat /\ MinRate <= Ceiling
  BY LimitsAssumption DEF Floor, Ceiling, Larger, Smaller

\* The schedule is well typed.
LEMMA SchedType == TypeOK => sched \in Sched
  BY DEF TypeOK, Schedules, Sched

\* The next slot is at some time.
LEMMA ReadyAtType == TypeOK => ReadyAt \in Nat
  BY DEF TypeOK, Schedules, ReadyAt, Larger

\* The invariant holds at first.
LEMMA InitInductive == Init => Inductive
<1> SUFFICES ASSUME Init PROVE Inductive
  OBVIOUS
<1>1. TypeOK
  BY LimitsAssumption DEF Init, TypeOK, Schedules, Places
<1>2. PermitsBalance
  <2>1. Holders = {}
    BY DEF Init, Holders
  <2> QED BY <2>1, FS_EmptySet, LimitsAssumption DEF Init, PermitsBalance
<1>3. Timely
  <2>1. sched.rate = MinRate /\ sched.until = 0 /\ sched.dailyUntil = 0
    BY DEF Init
  <2>2. NoOversleep
    BY DEF Init, NoOversleep
  <2> QED BY <2>1, <2>2, FloorType, LimitsAssumption DEF Init, Timely, DailyOK, Larger
<1> QED BY <1>1, <1>2, <1>3 DEF Inductive

\* A response leaves a schedule of its type.
LEMMA ApplyHeadersType ==
  ASSUME TypeOK, NEW c \in Callers, ApplyHeaders(c)
  PROVE  /\ answer[c] \in AnswerType
         /\ \E s \in AfterHeaders(sched, answer[c]) :
              /\ Evolves(sched, s)
              /\ Asked(answer[c]) > 0 => s.until >= now + Asked(answer[c])
              /\ sched' = [s EXCEPT !.changed = FALSE]
              /\ woken' = IF s.changed THEN woken \cup Asleep ELSE woken
<1>1. answer[c] \in AnswerType
  BY AnswersAssumption DEF ApplyHeaders, TypeOK
<1>2. sched \in Sched /\ now \in Nat
  BY SchedType DEF TypeOK
<1>3. PICK s \in AfterHeaders(sched, answer[c]) :
        /\ sched' = [s EXCEPT !.changed = FALSE]
        /\ woken' = IF s.changed THEN woken \cup Asleep ELSE woken
  BY DEF ApplyHeaders
<1>4. /\ Evolves(sched, s)
      /\ Asked(answer[c]) > 0 => s.until >= now + Asked(answer[c])
  BY <1>1, <1>2, AfterHeadersEvolves
<1> QED BY <1>1, <1>3, <1>4

\* Every step keeps the types.
LEMMA NextType ==
  ASSUME TypeOK, PermitsBalance, [Next]_vars
  PROVE  TypeOK' /\ PermitsBalance'
<1>1. ASSUME NEW c \in Callers, Request(c)
      PROVE  TypeOK' /\ PermitsBalance'
  <2>1. Holders' = Holders
    BY <1>1, HoldersKept DEF Request, Waiting, Places
  <2> QED BY <1>1, <2>1, LimitsAssumption DEF TypeOK, Request, Move, Places, PermitsBalance
<1>2. ASSUME NEW c \in Callers, GiveUp(c)
      PROVE  TypeOK' /\ PermitsBalance'
  <2>1. Holders' = Holders
    BY <1>2, HoldersKept DEF GiveUp, Waiting, Places
  <2> QED BY <1>2, <2>1 DEF TypeOK, GiveUp, Move, Places, PermitsBalance
<1>3. ASSUME NEW c \in Callers, CancelWait(c)
      PROVE  TypeOK' /\ PermitsBalance'
  <2>1. PermitsBalance' /\ permits' \in 0..MaxConcurrent
    BY <1>3, PermitReturned DEF CancelWait, Return, Waiting
  <2> QED BY <1>3, <2>1 DEF TypeOK, CancelWait, StopTimer, Return, Move, Places
<1>4. ASSUME NEW c \in Callers, TakePermit(c)
      PROVE  TypeOK' /\ PermitsBalance'
  <2>1. Cardinality(Holders') = Cardinality(Holders) + 1
    BY <1>4, HolderAdded DEF TakePermit, Waiting, Places
  <2>2. PermitsBalance'
    BY <1>4, <2>1, HoldersFinite, LimitsAssumption DEF TakePermit, PermitsBalance, TypeOK
  <2> QED BY <1>4, <2>2, LimitsAssumption DEF TypeOK, TakePermit, Move, Places
<1>5. ASSUME NEW c \in Callers, Admit(c)
      PROVE  TypeOK' /\ PermitsBalance'
  <2>1. Holders' = Holders
    BY <1>5, HoldersKept DEF Admit, Waiting, Places
  <2> QED BY <1>5, <2>1 DEF TypeOK, Admit, Move, Places, PermitsBalance
<1>6. ASSUME NEW c \in Callers, Sleep(c)
      PROVE  TypeOK' /\ PermitsBalance'
  <2>1. Holders' = Holders
    BY <1>6, HoldersKept DEF Sleep, Waiting, Places
  <2> QED BY <1>6, <2>1, ReadyAtType DEF TypeOK, Sleep, Move, Places, PermitsBalance
<1>7. ASSUME NEW c \in Callers, WakeUp(c)
      PROVE  TypeOK' /\ PermitsBalance'
  <2>1. Holders' = Holders
    BY <1>7, HoldersKept DEF WakeUp, Waiting, Places
  <2> QED BY <1>7, <2>1 DEF TypeOK, WakeUp, StopTimer, Move, Places, PermitsBalance
<1>8. ASSUME NEW c \in Callers, Fail(c)
      PROVE  TypeOK' /\ PermitsBalance'
  <2>1. PermitsBalance' /\ permits' \in 0..MaxConcurrent
    BY <1>8, PermitReturned DEF Fail, Return, Waiting
  <2> QED BY <1>8, <2>1 DEF TypeOK, Fail, Return, Move, Places
<1>9. ASSUME NEW c \in Callers, NEW a \in Answers, Respond(c, a)
      PROVE  TypeOK' /\ PermitsBalance'
  <2>1. Holders' = Holders
    BY <1>9, HoldersKept DEF Respond, Waiting, Places
  <2> QED BY <1>9, <2>1 DEF TypeOK, Respond, Move, Places, PermitsBalance
<1>10. ASSUME NEW c \in Callers, ApplyHeaders(c)
       PROVE  TypeOK' /\ PermitsBalance'
  <2>1. Holders' = Holders
    BY <1>10, HoldersKept DEF ApplyHeaders, Waiting, Places
  <2>2. sched' \in Schedules /\ woken' \subseteq Callers
    <3>1. PICK s : /\ Evolves(sched, s)
                   /\ sched' = [s EXCEPT !.changed = FALSE]
                   /\ woken' = IF s.changed THEN woken \cup Asleep ELSE woken
      BY <1>10, ApplyHeadersType
    <3>2. s \in Sched
      BY <3>1 DEF Evolves
    <3> QED BY <3>1, <3>2 DEF Sched, Schedules, TypeOK, Asleep
  <2>3. asked' \in Nat
    <3>1. answer[c] \in AnswerType
      BY <1>10, ApplyHeadersType
    <3>2. Asked(answer[c]) \in Nat
      BY <3>1, AskedType
    <3> QED BY <1>10, <3>2 DEF ApplyHeaders, TypeOK, Larger
  <2>4. /\ answer' \in [Callers -> Answers \cup {NoAnswer}]
        /\ state' \in [Callers -> Places]
        /\ \A d \in Callers : state'[d] = "answered" => answer'[d] \in Answers
    BY <1>10 DEF ApplyHeaders, TypeOK, Move, Places
  <2> QED BY <1>10, <2>1, <2>2, <2>3, <2>4 DEF TypeOK, ApplyHeaders, PermitsBalance
<1>11. ASSUME NEW c \in Callers, Done(c)
       PROVE  TypeOK' /\ PermitsBalance'
  <2>1. PermitsBalance' /\ permits' \in 0..MaxConcurrent
    BY <1>11, PermitReturned DEF Done, Return, Waiting
  <2> QED BY <1>11, <2>1 DEF TypeOK, Done, Return, Move, Places
<1>12. CASE Tick
  BY <1>12 DEF Tick, TypeOK, PermitsBalance, Holders
<1>13. CASE UNCHANGED vars
  BY <1>13 DEF vars, TypeOK, PermitsBalance, Holders
<1> QED BY <1>1, <1>2, <1>3, <1>4, <1>5, <1>6, <1>7, <1>8, <1>9, <1>10, <1>11,
           <1>12, <1>13 DEF Next, Progress

\* Unless headers are applied or a request is admitted, only the callers' own
\* places change, and nobody falls asleep past the time it may go.
LEMMA QuietStep ==
  ASSUME Inductive, UNCHANGED <<now, last, sched, asked>>,
         \A d \in Callers : state'[d] = "asleep" =>
           \/ d \in woken'
           \/ wake'[d] <= ReadyAt
           \/ state[d] = "asleep" /\ wake'[d] = wake[d] /\ (d \in woken => d \in woken')
  PROVE  Timely'
<1>1. ReadyAt' = ReadyAt
  BY DEF ReadyAt
<1>2. NoOversleep'
  BY <1>1 DEF Inductive, Timely, NoOversleep
<1> QED BY <1>2 DEF Inductive, Timely, DailyOK

\* Every step keeps the order of times.
LEMMA NextTimely ==
  ASSUME Inductive, [Next]_vars
  PROVE  Timely'
<1> USE DEF Inductive
<1>1. ASSUME NEW c \in Callers, Request(c)
      PROVE  Timely'
  BY <1>1, QuietStep DEF Request, Move, TypeOK
<1>2. ASSUME NEW c \in Callers, GiveUp(c)
      PROVE  Timely'
  BY <1>2, QuietStep DEF GiveUp, Move, TypeOK
<1>3. ASSUME NEW c \in Callers, CancelWait(c)
      PROVE  Timely'
  BY <1>3, QuietStep DEF CancelWait, StopTimer, Return, Move, TypeOK
<1>4. ASSUME NEW c \in Callers, TakePermit(c)
      PROVE  Timely'
  BY <1>4, QuietStep DEF TakePermit, Move, TypeOK
<1>5. ASSUME NEW c \in Callers, Admit(c)
      PROVE  Timely'
  <2>1. now \in Nat /\ last \in Nat /\ last <= now /\ sched \in Sched
    BY SchedType DEF TypeOK, Timely
  <2>2. ReadyAt' >= ReadyAt /\ ReadyAt \in Nat /\ ReadyAt' \in Nat
    BY <1>5, <2>1 DEF Admit, ReadyAt, Larger, Sched
  <2>3. NoOversleep'
    BY <1>5, <2>2 DEF Admit, Move, TypeOK, Timely, NoOversleep
  <2> QED BY <1>5, <2>1, <2>3 DEF Admit, Timely, DailyOK
<1>6. ASSUME NEW c \in Callers, Sleep(c)
      PROVE  Timely'
  BY <1>6, QuietStep, ReadyAtType DEF Sleep, Move, TypeOK
<1>7. ASSUME NEW c \in Callers, WakeUp(c)
      PROVE  Timely'
  BY <1>7, QuietStep DEF WakeUp, StopTimer, Move, TypeOK
<1>8. ASSUME NEW c \in Callers, Fail(c)
      PROVE  Timely'
  BY <1>8, QuietStep DEF Fail, Return, Move, TypeOK
<1>9. ASSUME NEW c \in Callers, NEW a \in Answers, Respond(c, a)
      PROVE  Timely'
  BY <1>9, QuietStep DEF Respond, Move, TypeOK
<1>10. ASSUME NEW c \in Callers, ApplyHeaders(c)
       PROVE  Timely'
  <2>1. PICK s : /\ Evolves(sched, s)
                 /\ Asked(answer[c]) > 0 => s.until >= now + Asked(answer[c])
                 /\ sched' = [s EXCEPT !.changed = FALSE]
                 /\ woken' = IF s.changed THEN woken \cup Asleep ELSE woken
    BY <1>10, ApplyHeadersType
  <2>2. /\ s.until \in Nat /\ s.rate \in Nat /\ s.dailyUntil \in Nat
        /\ sched.until \in Nat /\ now \in Nat /\ asked \in Nat
        /\ sched'.until = s.until /\ sched'.rate = s.rate
        /\ sched'.dailyUntil = s.dailyUntil
        /\ UNCHANGED <<now, last, wake>>
    BY <1>10, <2>1 DEF Evolves, Sched, TypeOK, Schedules, ApplyHeaders
  <2>3. sched'.rate >= Floor /\ sched'.rate <= Ceiling
    BY <2>1, <2>2 DEF Timely, Evolves
  <2>4. DailyOK(sched)'
    BY <2>1, <2>2 DEF Timely, Evolves, DailyOK
  <2>5. asked' <= Larger(sched'.until, now')
    <3>1. Asked(answer[c]) \in Nat
      BY <1>10, ApplyHeadersType, AskedType
    <3>2. asked' = Larger(asked, now + Asked(answer[c])) /\ s.until >= sched.until
      BY <1>10, <2>1 DEF ApplyHeaders, Evolves
    <3>3. asked <= Larger(sched.until, now)
      BY DEF Timely
    <3> QED BY <2>1, <2>2, <3>1, <3>2, <3>3 DEF Larger
  <2>6. NoOversleep'
    <3>1. \A d \in Callers : state'[d] = "asleep" => state[d] = "asleep"
      BY <1>10 DEF ApplyHeaders, Move, TypeOK
    <3>2. CASE s.changed
      BY <2>1, <3>1, <3>2 DEF NoOversleep, Asleep
    <3>3. CASE ~s.changed
      <4>1. ReadyAt' = ReadyAt
        BY <2>1, <2>2, <3>3 DEF Evolves, ReadyAt
      <4> QED BY <2>1, <2>2, <3>1, <3>3, <4>1 DEF NoOversleep, Timely
    <3> QED BY <3>2, <3>3
  <2> QED BY <2>2, <2>3, <2>4, <2>5, <2>6 DEF Timely
<1>11. ASSUME NEW c \in Callers, Done(c)
       PROVE  Timely'
  BY <1>11, QuietStep DEF Done, Return, Move, TypeOK
<1>12. CASE Tick
  <2>1. NoOversleep'
    BY <1>12 DEF Tick, NoOversleep, ReadyAt, Timely
  <2> QED BY <1>12, <2>1 DEF Tick, Timely, DailyOK, TypeOK, Schedules, Larger
<1>13. CASE UNCHANGED vars
  BY <1>13, QuietStep DEF vars
<1> QED BY <1>1, <1>2, <1>3, <1>4, <1>5, <1>6, <1>7, <1>8, <1>9, <1>10, <1>11,
           <1>12, <1>13 DEF Next, Progress

\* The inductive invariant.
LEMMA InductiveHolds == Spec => []Inductive
<1>1. Init => Inductive
  BY InitInductive
<1>2. Inductive /\ [Next]_vars => Inductive'
  BY NextType, NextTimely DEF Inductive
<1> QED BY <1>1, <1>2, PTL DEF Spec
---------------------------------------------------------------------------
(* Theorems                                                                *)

\* Every variable has its type, in particular there are never more permits than
\* MaxConcurrentRequests.
THEOREM TypeCorrect == Spec => []TypeOK
BY InductiveHolds, PTL DEF Inductive

\* Canceled, failed or answered, a request gives its permit back exactly once,
\* for any number of callers and permits.
THEOREM PermitsKept == Spec => []PermitsBalance
BY InductiveHolds, PTL DEF Inductive

\* No change of the schedule is lost between a caller's look at it and its wait.
THEOREM NoLostWakeUp == Spec => []NoOversleep
BY InductiveHolds, PTL DEF Inductive, Timely

\* While DailyQuotaPaused reports a pause, the time it names is when requests go.
THEOREM DailyPauseExact == Spec => []DailyPauseHolds
<1>1. Inductive => DailyPauseHolds
  BY DEF Inductive, Timely, DailyOK, DailyPauseHolds
<1> QED BY <1>1, InductiveHolds, PTL

\* Only a ready caller is sent, and only after the interval and the pause.
LEMMA SentWhenReady ==
  ASSUME Inductive, [Next]_vars, NEW c \in Callers, Sends(c)
  PROVE  now >= last + sched.rate /\ now >= sched.until
<1>1. PICK d \in Callers : Admit(d)
  BY DEF Inductive, TypeOK, Sends, Next, Progress, Tick, Request, GiveUp, CancelWait,
         TakePermit, Sleep, WakeUp, Fail, Respond, ApplyHeaders, Done, Move, Return,
         vars
<1> QED BY <1>1 DEF Admit, ReadyAt, Larger, Inductive, TypeOK, Schedules

\* However many callers wait and whatever the responses say, admissions keep the
\* configured interval (CHANGELOG.md:71).
THEOREM AdmissionsKeepInterval == Spec => AdmissionsPaced
<1>1. Inductive /\ [Next]_vars =>
        [\A c \in Callers : Sends(c) => now >= last + Smaller(MinRate, MaxBackoff)]_vars
  <2> SUFFICES ASSUME Inductive, [Next]_vars, NEW c \in Callers, Sends(c)
               PROVE  now >= last + Smaller(MinRate, MaxBackoff)
    OBVIOUS
  <2>1. now >= last + sched.rate /\ sched.rate >= Floor
    BY SentWhenReady DEF Inductive, Timely
  <2> QED BY <2>1, FloorType DEF Floor, Inductive, TypeOK, Schedules
<1> QED BY <1>1, InductiveHolds, PTL DEF Spec, AdmissionsPaced

\* A pause a server asked for holds every later request: no late or healthy
\* response of another request shortens it.
THEOREM PausesHold == Spec => PausesKept
<1>1. Inductive /\ [Next]_vars =>
        [\A c \in Callers : Sends(c) => now >= asked]_vars
  <2> SUFFICES ASSUME Inductive, [Next]_vars, NEW c \in Callers, Sends(c)
               PROVE  now >= asked
    OBVIOUS
  <2>1. now >= sched.until /\ asked <= Larger(sched.until, now)
    BY SentWhenReady DEF Inductive, Timely
  <2> QED BY <2>1 DEF Larger, Inductive, TypeOK, Schedules
<1> QED BY <1>1, InductiveHolds, PTL DEF Spec, PausesKept

\* A backoff multiplies the interval by at least one and cuts it to the bound.
LEMMA ExponentialSlowsDown ==
  ASSUME NEW s \in Sched, NEW b \in Backoffs(s), now \in Nat,
         MinRate <= MaxBackoff, 0 \notin BackoffFactors, s.rate <= Ceiling
  PROVE  ApplyExponentialBackoff(s, b).rate >= s.rate
<1>1. PICK f \in BackoffFactors : b = Clamp(s.rate * f)
  BY DEF Backoffs
<1>2. s.rate \in Nat /\ s.until \in Nat /\ f \in Nat \ {0}
  BY LimitsAssumption DEF Sched
<1>3. s.rate * f >= s.rate /\ s.rate * f \in Nat
  BY <1>2
<1>4. s.rate <= MaxBackoff
  BY LimitsAssumption DEF Ceiling, Larger
<1>5. b >= s.rate /\ b \in Nat /\ Clamp(b) = b
  <2> DEFINE n == s.rate * f
  <2>1. n \in Nat /\ n >= s.rate
    BY <1>3
  <2> HIDE DEF n
  <2>2. b = Clamp(n)
    BY <1>1 DEF n
  <2> QED BY <1>2, <1>4, <2>1, <2>2, LimitsAssumption DEF Clamp, Larger, Smaller
<1>6. SetRate(s, b).rate = b /\ SetRate(s, b) \in Sched
  BY <1>2, <1>5 DEF SetRate, Sched
<1>7. \A t \in Sched, time \in Nat : SetBackoffUntil(t, time).rate = t.rate
  BY DEF SetBackoffUntil, Sched
<1> QED BY <1>2, <1>5, <1>6, <1>7 DEF ApplyExponentialBackoff

\* With an interval within the bound, an answer with status 429 that gives no
\* guidance never speeds requests up (rate_limiter.go:981).
THEOREM BackoffNeverSpeedsUp ==
  ASSUME MinRate <= MaxBackoff, 0 \notin BackoffFactors
  PROVE  Spec => BackoffSlowsDown
<1>1. ASSUME Inductive, [Next]_vars, NEW c \in Callers,
             state[c] = "answered", state'[c] = "applied",
             answer[c].limited, Asked(answer[c]) = 0, ~LegacyExhausted(answer[c])
      PROVE  sched'.rate >= sched.rate
  <2>1. ApplyHeaders(c)
    BY <1>1 DEF Inductive, TypeOK, Next, Progress, Tick, Request, GiveUp, CancelWait,
         TakePermit, Admit, Sleep, WakeUp, Fail, Respond, ApplyHeaders, Done, Move,
         Return, vars
  <2>2. answer[c] \in AnswerType /\ sched \in Sched /\ now \in Nat
    BY <1>1, <2>1, ApplyHeadersType, SchedType DEF Inductive, TypeOK
  <2>3. /\ ~DailyExhausted(answer[c]) /\ ~(answer[c].retryAfter > 0)
        /\ ~WindowExhausted(answer[c])
    BY <1>1, <2>2, LimitsAssumption
       DEF Asked, Smaller, AnswerType, DailyExhausted, WindowExhausted
  <2>4. PICK s \in AfterHeaders(sched, answer[c]) : sched' = [s EXCEPT !.changed = FALSE]
    BY <2>1 DEF ApplyHeaders
  <2>5. PICK b \in Backoffs(sched) : s = ApplyExponentialBackoff(sched, b)
    BY <1>1, <2>3, <2>4 DEF AfterHeaders
  <2>6. s \in Sched
    BY <2>2, <2>5, BackoffsType, ExponentialEvolves DEF Evolves
  <2>7. s.rate >= sched.rate
    BY <1>1, <2>2, <2>5, ExponentialSlowsDown DEF Inductive, Timely
  <2> QED BY <2>4, <2>6, <2>7 DEF Sched
<1>2. Inductive /\ [Next]_vars =>
        [\A c \in Callers :
           (state[c] = "answered" /\ state'[c] = "applied"
              /\ answer[c].limited /\ Asked(answer[c]) = 0
              /\ ~LegacyExhausted(answer[c]))
             => sched'.rate >= sched.rate]_vars
  BY <1>1
<1> QED BY <1>2, InductiveHolds, PTL DEF Spec, BackoffSlowsDown
=============================================================================
