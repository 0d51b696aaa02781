---------------------------- MODULE RateLimiter ----------------------------
(***************************************************************************)
(* Admission of requests to Hardcover: internal/util/rate_limiter.go, and  *)
(* the part of executeGraphQLOperation (internal/api/hardcover/client.go)  *)
(* that uses it.                                                           *)
(*                                                                         *)
(* A caller takes one of a few permits, then waits until the interval      *)
(* since the previous admission and the current pause have passed.  The    *)
(* headers of every response move the interval and the pause, and wake the *)
(* waiting callers so that they look again.  A section under the mutex is  *)
(* one step; time is discrete and passes between any two steps.            *)
(*                                                                         *)
(* Headers are modelled by what their parsers find in them.  Not modelled: *)
(* metrics, logging, and ResetRate, OnRateLimit and the setters of the     *)
(* backoff and jitter factors, which only tests call.                      *)
(***************************************************************************)
EXTENDS Naturals, FiniteSets

CONSTANTS Callers,       \* goroutines that send requests
          MaxConcurrent, \* permits
          MinRate,       \* configured interval between requests
          MaxBackoff,    \* bound of an interval and of a pause
          MaxDailyWait,  \* bound of a pause for the daily quota
          BackoffFactors, \* what factor and jitter may multiply an interval by
          Answers,       \* responses, as their parsers see them
          NoAnswer,
          MaxRequests,   \* bound on the requests
          Horizon        \* bound on the time, sleeps aside

ASSUME LimitsAssumption ==
  /\ MaxConcurrent \in Nat \ {0} /\ IsFiniteSet(Callers)
  /\ MinRate \in Nat \ {0} /\ MaxBackoff \in Nat \ {0}
  /\ MaxDailyWait \in Nat \ {0}
  /\ BackoffFactors \subseteq Nat /\ BackoffFactors # {}
  /\ MaxRequests \in Nat /\ Horizon \in Nat

\* A response has status 429 or not, a Retry-After header (0 for none), a
\* daily bucket and a window bucket (RateLimit and RateLimit-Policy), and the
\* X-RateLimit headers.  A bucket is "exhausted" with no request left, "low"
\* with fewer than the threshold of its parser, and resets after some time, 0
\* when the header does not say.  The policy's interval may be 0, for none.
Bucket == {"none", "exhausted", "low", "fine"}
AnswerType ==
  [limited: BOOLEAN, retryAfter: Nat,
   daily: Bucket, dailyReset: Nat, left: Nat \ {0},
   window: Bucket, windowReset: Nat, interval: Nat,
   legacy: Bucket, legacyReset: Nat]

ASSUME AnswersAssumption == Answers \subseteq AnswerType /\ NoAnswer \notin Answers

VARIABLES
  now,
  last,    \* time of the latest admission
  sched,   \* interval, pauses and daily quota pacing, guarded by the mutex
  permits, \* permits in the semaphore
  state,   \* caller -> where it is
  wake,    \* caller -> time its timer fires
  woken,   \* callers whose schedule channel was closed
  paced,   \* callers whose admission waited for the daily quota
  answer,  \* caller -> the response it has not processed yet
  asked,   \* history: latest time up to which a server asked to wait
  issued   \* requests so far

vars == <<now, last, sched, permits, state, wake, woken, paced, answer, asked,
          issued>>

Larger(a, b)  == IF a >= b THEN a ELSE b
Smaller(a, b) == IF a <= b THEN a ELSE b

Init ==
  /\ now = 0 /\ last = 0
  /\ sched = [rate |-> MinRate, until |-> 0, dailyUntil |-> 0,
              quotaRate |-> 0, quotaReset |-> 0, changed |-> FALSE]
  /\ permits = MaxConcurrent
  /\ state = [c \in Callers |-> "idle"]
  /\ wake = [c \in Callers |-> 0]
  /\ woken = {} /\ paced = {}
  /\ answer = [c \in Callers |-> NoAnswer]
  /\ asked = 0 /\ issued = 0

---------------------------------------------------------------------------
(* The schedule: operators from a schedule to the next one                 *)

Clamp(rate) == Smaller(Larger(rate, MinRate), MaxBackoff)

\* Mutant: waiting callers are not told of a shorter interval.
Mut_SetRate(s, rate) == [s EXCEPT !.rate = Clamp(rate)]

SetRate(s, rate) ==
  IF Clamp(rate) = s.rate THEN s
  ELSE [s EXCEPT !.rate = Clamp(rate), !.changed = TRUE]

SetBackoffUntil(s, time) ==
  IF time = s.until THEN s
  ELSE [s EXCEPT !.until = time, !.changed = TRUE,
                 !.dailyUntil = IF now < @ /\ time > @ THEN time ELSE @]

\* Mutant: a later pause replaces a longer one.
Mut_ApplyPause(s, delay, max) ==
  IF delay > 0 THEN SetBackoffUntil(s, now + Smaller(delay, max)) ELSE s

ApplyPause(s, delay, max) ==
  IF delay > 0 /\ now + Smaller(delay, max) > s.until
    THEN SetBackoffUntil(s, now + Smaller(delay, max)) ELSE s

ApplyRetryAfter(s, delay) == ApplyPause(s, delay, MaxBackoff)

ApplyDailyResetWait(s, reset) ==
  LET held == ApplyPause(s, reset, MaxDailyWait) IN
  [held EXCEPT !.dailyUntil = Larger(@, held.until)]

Backoffs(s) == {Clamp(s.rate * f) : f \in BackoffFactors}

ApplyExponentialBackoff(s, backoff) ==
  LET paced_ == SetRate(s, backoff) IN
  IF now + backoff > s.until THEN SetBackoffUntil(paced_, now + backoff)
                             ELSE paced_

---------------------------------------------------------------------------
(* Headers                                                                 *)

DailyExhausted(a)  == a.daily = "exhausted" /\ a.dailyReset > 0
WindowExhausted(a) == a.window = "exhausted" /\ a.windowReset > 0
LegacyExhausted(a) == a.legacy = "exhausted" /\ a.legacyReset > 0

\* The interval that spreads what is left of the daily quota.
QuotaRate(a) ==
  IF a.dailyReset > 0
    THEN Larger(MinRate, Smaller(a.dailyReset, MaxDailyWait) \div a.left)
    ELSE 2 * MinRate

QuotaReset(a) ==
  IF a.dailyReset > 0 /\ a.daily \in {"exhausted", "low"}
    THEN now + Smaller(a.dailyReset, MaxDailyWait) ELSE 0

\* A daily bucket replaces the pacing of an earlier one.
ApplyDaily(s, a) ==
  LET fresh == [s EXCEPT !.quotaRate = IF a.daily = "low" THEN QuotaRate(a)
                                                          ELSE MinRate,
                         !.quotaReset = QuotaReset(a)] IN
  IF a.daily = "none" THEN s
  ELSE IF DailyExhausted(a) THEN ApplyDailyResetWait(fresh, a.dailyReset)
  ELSE fresh

\* 1.2 times the time to the window's reset, rounded up to a unit of time.
Padded(reset) == (6 * reset + 4) \div 5

ApplyWindow(s, a) ==
  IF a.window \in {"exhausted", "low"} /\ a.windowReset > 0
    THEN ApplyRetryAfter(s, Padded(a.windowReset)) ELSE s

ApplyIETF(s, a) ==
  SetRate(ApplyWindow(ApplyDaily(s, a), a),
          Larger(IF a.daily = "low" THEN QuotaRate(a) ELSE MinRate,
                 IF a.window = "none" THEN 0 ELSE Smaller(a.interval, MaxBackoff)))

ApplyLegacy(s, a) ==
  IF a.legacy = "none" THEN s
  ELSE SetRate(IF LegacyExhausted(a) THEN ApplyRetryAfter(s, a.legacyReset) ELSE s,
               CASE a.legacy = "low" /\ a.legacyReset > 0 ->
                      Larger(MinRate, a.legacyReset \div a.left)
                 [] a.legacy \in {"low", "exhausted"} /\ a.legacyReset = 0 ->
                      2 * MinRate
                 [] OTHER -> MinRate)

\* applyRateLimitHeaders.  Only an exhausted quota with a reset is guidance on
\* a 429; without guidance the client backs off by itself.
AfterHeaders(s, a) ==
  IF a.limited /\ DailyExhausted(a) THEN {ApplyIETF(s, a)}
  ELSE IF a.retryAfter > 0 THEN {ApplyRetryAfter(s, a.retryAfter)}
  ELSE IF a.limited THEN
    IF WindowExhausted(a) THEN {ApplyIETF(s, a)}
    ELSE IF LegacyExhausted(a) THEN {ApplyLegacy(s, a)}
    ELSE {ApplyExponentialBackoff(s, b) : b \in Backoffs(s)}
  ELSE IF a.daily # "none" \/ a.window # "none" THEN {ApplyIETF(s, a)}
  ELSE {ApplyLegacy(s, a)}

\* The pause a server asked for, within the bounds of the limiter.
Asked(a) ==
  IF DailyExhausted(a) /\ (a.limited \/ a.retryAfter = 0)
    THEN Smaller(a.dailyReset, MaxDailyWait)
  ELSE IF a.retryAfter > 0 THEN Smaller(a.retryAfter, MaxBackoff)
  ELSE IF WindowExhausted(a) THEN Smaller(a.windowReset, MaxBackoff)
  ELSE 0

---------------------------------------------------------------------------
(* Admission                                                               *)

ReadyAt == Larger(last + sched.rate, sched.until)

\* DailyQuotaConstrainingAdmission
Constraining ==
  /\ sched.quotaRate > MinRate /\ sched.rate = sched.quotaRate
  /\ sched.quotaReset # 0 /\ now < sched.quotaReset
  /\ last + sched.rate > now /\ sched.until <= last + sched.rate

Move(c, place) == state' = [state EXCEPT ![c] = place]

\* stopAndDrainTimer; the channel is not looked at any more.
StopTimer(c) == wake' = [wake EXCEPT ![c] = 0] /\ woken' = woken \ {c}

\* What the call returned is forgotten with it.
Return(c) == Move(c, "idle") /\ paced' = paced \ {c}

Request(c) ==
  /\ state[c] = "idle" /\ issued < MaxRequests
  /\ issued' = issued + 1
  /\ Move(c, "queued")
  /\ UNCHANGED <<now, last, sched, permits, wake, woken, paced, answer, asked>>

TakePermit(c) ==
  /\ state[c] = "queued" /\ permits > 0
  /\ permits' = permits - 1
  /\ Move(c, "ready")
  /\ UNCHANGED <<now, last, sched, wake, woken, paced, answer, asked, issued>>

\* The context ends before a permit is free.
GiveUp(c) ==
  /\ state[c] = "queued"
  /\ Move(c, "idle")
  /\ UNCHANGED <<now, last, sched, permits, wake, woken, paced, answer, asked,
                 issued>>

\* The actual admission is recorded, not a reservation.
Admit(c) ==
  /\ state[c] = "ready" /\ ReadyAt <= now
  /\ last' = now
  /\ Move(c, "sent")
  /\ UNCHANGED <<now, sched, permits, wake, woken, paced, answer, asked, issued>>

\* The channel is taken under the mutex: a change after it closes it.
Sleep(c) ==
  /\ state[c] = "ready" /\ ReadyAt > now
  /\ wake' = [wake EXCEPT ![c] = ReadyAt]
  /\ paced' = IF Constraining THEN paced \cup {c} ELSE paced
  /\ Move(c, "asleep")
  /\ UNCHANGED <<now, last, sched, permits, woken, answer, asked, issued>>

\* Mutant: the request is sent without looking at the schedule again.
Mut_WakeUp(c) ==
  /\ state[c] = "asleep" /\ (c \in woken \/ now >= wake[c])
  /\ last' = now
  /\ StopTimer(c) /\ Move(c, "sent")
  /\ UNCHANGED <<now, sched, permits, paced, answer, asked, issued>>

WakeUp(c) ==
  /\ state[c] = "asleep" /\ (c \in woken \/ now >= wake[c])
  /\ StopTimer(c) /\ Move(c, "ready")
  /\ UNCHANGED <<now, last, sched, permits, paced, answer, asked, issued>>

Release == permits' = permits + 1

\* Mutant: a canceled wait keeps its permit.
Mut_CancelWait(c) ==
  /\ state[c] = "asleep"
  /\ StopTimer(c) /\ Return(c)
  /\ UNCHANGED <<now, last, sched, permits, answer, asked, issued>>

CancelWait(c) ==
  /\ state[c] = "asleep"
  /\ Release /\ StopTimer(c) /\ Return(c)
  /\ UNCHANGED <<now, last, sched, answer, asked, issued>>

\* Mutant: a request that fails keeps its permit.
Mut_Fail(c) ==
  /\ state[c] = "sent"
  /\ Return(c)
  /\ UNCHANGED <<now, last, sched, permits, wake, woken, answer, asked, issued>>

\* No response, the client's time-out, or a mutation without enough time left.
Fail(c) ==
  /\ state[c] = "sent"
  /\ Release /\ Return(c)
  /\ UNCHANGED <<now, last, sched, wake, woken, answer, asked, issued>>

Respond(c, a) ==
  /\ state[c] = "sent"
  /\ answer' = [answer EXCEPT ![c] = a]
  /\ Move(c, "answered")
  /\ UNCHANGED <<now, last, sched, permits, wake, woken, paced, asked, issued>>

Asleep == {c \in Callers : state[c] = "asleep"}

\* notifyScheduleChanged closes the channel of every waiting caller.
ApplyHeaders(c) ==
  /\ state[c] = "answered"
  /\ \E s \in AfterHeaders(sched, answer[c]) :
       /\ sched' = [s EXCEPT !.changed = FALSE]
       /\ woken' = IF s.changed THEN woken \cup Asleep ELSE woken
  /\ asked' = Larger(asked, now + Asked(answer[c]))
  /\ answer' = [answer EXCEPT ![c] = NoAnswer]
  /\ Move(c, "applied")
  /\ UNCHANGED <<now, last, permits, wake, paced, issued>>

Done(c) ==
  /\ state[c] = "applied"
  /\ Release /\ Return(c)
  /\ UNCHANGED <<now, last, sched, wake, woken, answer, asked, issued>>

\* The clock passes the horizon only for a caller that sleeps.
Tick ==
  /\ now < Horizon \/ \E c \in Callers : state[c] = "asleep" /\ now < wake[c]
  /\ now' = now + 1
  /\ UNCHANGED <<last, sched, permits, state, wake, woken, paced, answer, asked,
                 issued>>

Progress(c) ==
  \/ TakePermit(c) \/ Admit(c) \/ Sleep(c) \/ WakeUp(c)
  \/ Fail(c) \/ (\E a \in Answers : Respond(c, a)) \/ ApplyHeaders(c) \/ Done(c)

Next ==
  \/ Tick
  \/ \E c \in Callers : Request(c) \/ GiveUp(c) \/ CancelWait(c) \/ Progress(c)

Spec == Init /\ [][Next]_vars

\* Goroutines run, the semaphore is first come, first served, and requests
\* end, because the HTTP client has a time-out.
FairSpec == Spec /\ WF_vars(Tick)
                 /\ \A c \in Callers : SF_vars(TakePermit(c)) /\ WF_vars(Progress(c))

---------------------------------------------------------------------------
(* Properties                                                              *)

Places == {"idle", "queued", "ready", "asleep", "sent", "answered", "applied"}
Schedules == [rate: Nat, until: Nat, dailyUntil: Nat, quotaRate: Nat,
              quotaReset: Nat, changed: {FALSE}]

\* The type of every variable.
TypeOK ==
  /\ now \in Nat /\ last \in Nat
  /\ sched \in Schedules
  /\ permits \in 0..MaxConcurrent
  /\ state \in [Callers -> Places]
  /\ wake \in [Callers -> Nat]
  /\ woken \subseteq Callers /\ paced \subseteq Callers
  /\ answer \in [Callers -> Answers \cup {NoAnswer}]
  /\ \A c \in Callers : state[c] = "answered" => answer[c] \in Answers
  /\ asked \in Nat /\ issued \in 0..MaxRequests

Sends(c) == state[c] # "sent" /\ state'[c] = "sent"

Holders == {c \in Callers : state[c] \notin {"idle", "queued"}}

\* Every path of a request, canceled, failed or answered, gives its permit
\* back once: permits are neither lost, which would stop all requests, nor
\* invented, which would exceed the configured concurrency.
PermitsBalance == permits + Cardinality(Holders) = MaxConcurrent

\* CHANGELOG.md:71, "prevents concurrent waits from accelerating requests":
\* admissions keep the configured interval, however many callers wait and
\* whatever the headers say.  (A configured interval above the bound is cut to
\* the bound by the first response.)
AdmissionsPaced ==
  [][\A c \in Callers : Sends(c) => now >= last + Smaller(MinRate, MaxBackoff)]_vars

\* A pause a server asked for is kept by every later admission: no other
\* response, late or healthy, shortens it.
PausesKept == [][\A c \in Callers : Sends(c) => now >= asked]_vars

\* A waiting caller looks again as soon as the schedule lets it go: no change
\* of the schedule is lost between the caller's look and its wait.
NoOversleep ==
  \A c \in Callers : state[c] = "asleep" => c \in woken \/ wake[c] <= ReadyAt

\* DailyQuotaPaused "reports whether an exhausted daily quota is still holding
\* requests, including any longer backoff that extended the hold"
\* (rate_limiter.go:124): while it does, it names the end of the pause.
DailyPauseHolds == now < sched.dailyUntil => sched.dailyUntil = sched.until

\* rate_limiter.go:981, "A backoff never lowers the rate": an answer with
\* status 429 and no guidance never speeds requests up.
BackoffSlowsDown ==
  [][\A c \in Callers :
       (state[c] = "answered" /\ state'[c] = "applied"
          /\ answer[c].limited /\ Asked(answer[c]) = 0 /\ ~LegacyExhausted(answer[c]))
         => sched'.rate >= sched.rate]_vars

\* A caller that waits for a permit gets one and is admitted, or gives up.
RequestsEnd == \A c \in Callers : state[c] = "queued" ~> state[c] \in {"sent", "idle"}
=============================================================================
