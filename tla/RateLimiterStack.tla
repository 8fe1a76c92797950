-------------------------- MODULE RateLimiterStack --------------------------
(***************************************************************************)
(* The rate limiter that one worker's Sequencer polls, assembled the way   *)
(* SequencerFactoryImpl::create (source/client/factories_impl.cc) does:    *)
(*                                                                         *)
(*    [DistributionSampling]  optional jitter, outermost                   *)
(*    [Bursting]              optional                                     *)
(*    ScheduledStarting       always                                       *)
(*    Linear | LinearRamping  the pacing; ramping is a plugin, which       *)
(*                            excludes bursts and jitter                   *)
(*                                                                         *)
(* The layers and their calls are in source/common/rate_limiter_impl.cc.   *)
(* The caller follows the protocol of SequencerImpl::run: a successful     *)
(* tryAcquireOne() is either used (Keep) or handed back at once with       *)
(* releaseOne() (ReleaseOne).  Time is counted in ticks and read from a    *)
(* cached time source, so it does not move while a call is in progress.    *)
(* ASSERTs of the code do nothing here, as in a release build: they are    *)
(* stated as properties instead.                                           *)
(***************************************************************************)
EXTENDS Integers, Sequences, FiniteSets

CONSTANTS
    Pacing,      \* "linear" or "ramping": the innermost rate limiter
    Interval,    \* ticks between two acquisitions at the configured frequency
    RampTime,    \* ramp_time_ of the ramping limiter, in ticks
    StartTime,   \* scheduled_starting_time_
    BurstSize,   \* burst_size_, 0 when there is no bursting layer
    JitterMax,   \* upper bound of the uniform jitter, 0 when there is none
    MaxTime      \* bound on the model's clock

ASSUME StackAssumption ==
    /\ Pacing \in {"linear", "ramping"}
    /\ Interval \in Nat \ {0}
    /\ RampTime \in Nat \ {0}
    /\ StartTime \in Nat
    /\ BurstSize \in Nat
    /\ JitterMax \in Nat
    /\ MaxTime \in Nat
    /\ Pacing = "ramping" => BurstSize = 0 /\ JitterMax = 0

VARIABLES
    now,                           \* the cached monotonic time
    start_time,                    \* start_time_, Unset until elapsed() is called
    acquireable_count,             \* of the innermost limiter
    acquired_count,
    accumulated,                   \* of the bursting layer
    releasing,
    previously_releasing,
    distributed_timings,           \* of the jitter layer
    sanity_check_pending_release,
    pc,                            \* "idle", "pull" (in the bursting loop), "held"
    kept                           \* acquisitions the caller put to use

pacingVars == <<start_time, acquireable_count, acquired_count>>
burstVars == <<accumulated, releasing, previously_releasing>>
jitterVars == <<distributed_timings, sanity_check_pending_release>>
vars == <<now, pacingVars, burstVars, jitterVars, pc, kept>>

Unset == -1
Bursts == BurstSize > 0
Jitters == JitterMax > 0

-----------------------------------------------------------------------------
(* The pacing at the bottom of the stack.                                  *)

\* Acquisitions due after e ticks at a constant pace: the phase is shifted by
\* half an interval, so that none falls on a whole interval boundary.
LinearTotal(e) == (2 * e + Interval) \div (2 * Interval)

\* Acquisitions due while ramping: round(e * (e / RampTime) / Interval / 2).
RampTotal(e) == (e * e + RampTime * Interval) \div (2 * RampTime * Interval)

\* After the ramp: total_ramp_requests_ + round((e - RampTime) / Interval).
RampedTotal(e) ==
    (RampTime + Interval) \div (2 * Interval)
        + (2 * (e - RampTime) + Interval) \div (2 * Interval)

\* What a limiter with the configured pacing may have handed out after e ticks.
Total(e) ==
    IF Pacing = "linear" THEN LinearTotal(e)
    ELSE IF e < RampTime THEN RampTotal(e) ELSE RampedTotal(e)

\* elapsed() pins the start time down on its first call.
StartPoint == IF start_time = Unset THEN now ELSE start_time
Elapsed == now - StartPoint

\* Linear tests acquireable_count_ > 0, LinearRamping only that it is not zero.
HasAcquireable ==
    IF Pacing = "linear" THEN acquireable_count > 0 ELSE acquireable_count # 0

\* The test of both calls of the scheduled-start layer.
Started == now >= StartTime

\* tryAcquireOne() of the scheduled pacing answers true: it is time to start and
\* a count computed earlier is left, or recomputing it yields a positive one.
PacingAcquires ==
    /\ Started
    /\ \/ /\ HasAcquireable
          /\ acquireable_count' = acquireable_count - 1
          /\ start_time' = start_time
       \/ /\ ~HasAcquireable
          /\ Total(Elapsed) > acquired_count
          /\ acquireable_count' = Total(Elapsed) - acquired_count - 1
          /\ start_time' = StartPoint
    /\ acquired_count' = acquired_count + 1

\* Mutation: the refusal tests one acquisition too far.
PacingRefuses_OffByOne ==
    \/ /\ ~Started
       /\ UNCHANGED pacingVars
    \/ /\ Started
       /\ ~HasAcquireable
       /\ Total(Elapsed) <= acquired_count + 1
       /\ acquireable_count' = 0
       /\ start_time' = StartPoint
       /\ acquired_count' = acquired_count

\* tryAcquireOne() of the scheduled pacing answers false: too early, or nothing due.
PacingRefuses ==
    \/ /\ ~Started
       /\ UNCHANGED pacingVars
    \/ /\ Started
       /\ ~HasAcquireable
       /\ Total(Elapsed) <= acquired_count
       /\ acquireable_count' = Total(Elapsed) - acquired_count
       /\ start_time' = StartPoint
       /\ acquired_count' = acquired_count

-----------------------------------------------------------------------------
(* The jitter layer, through which every answer of the layers below goes.  *)

\* distributed_timings_.insert(upper_bound(...), t): t goes behind the timings
\* that are not later than it.
InsertTiming(timings, t) ==
    LET k == Cardinality({i \in DOMAIN timings : timings[i] <= t})
    IN  SubSeq(timings, 1, k) \o <<t>> \o SubSeq(timings, k + 1, Len(timings))

\* Mutation: only a fresh acquisition resets the flag, not a delayed one.
Answer_FlagKept(ok) ==
    IF ~Jitters
    THEN /\ pc' = IF ok THEN "held" ELSE "idle"
         /\ UNCHANGED jitterVars
    ELSE \E delay \in 0..JitterMax :
            LET timings == IF ok THEN InsertTiming(distributed_timings, now + delay)
                                 ELSE distributed_timings
                due     == timings # <<>> /\ timings[1] <= now
            IN  /\ distributed_timings' = IF due THEN Tail(timings) ELSE timings
                /\ sanity_check_pending_release' =
                        IF due /\ ok THEN FALSE ELSE sanity_check_pending_release
                /\ pc' = IF due THEN "held" ELSE "idle"

\* The layers below answered `ok`; the call to the outermost tryAcquireOne() returns.
Answer(ok) ==
    IF ~Jitters
    THEN /\ pc' = IF ok THEN "held" ELSE "idle"
         /\ UNCHANGED jitterVars
    ELSE \E delay \in 0..JitterMax :
            LET timings == IF ok THEN InsertTiming(distributed_timings, now + delay)
                                 ELSE distributed_timings
                due     == timings # <<>> /\ timings[1] <= now
            IN  /\ distributed_timings' = IF due THEN Tail(timings) ELSE timings
                /\ sanity_check_pending_release' =
                        IF due THEN FALSE ELSE sanity_check_pending_release
                /\ pc' = IF due THEN "held" ELSE "idle"

-----------------------------------------------------------------------------
Init ==
    /\ now = 0
    /\ start_time = Unset
    /\ acquireable_count = 0
    /\ acquired_count = 0
    /\ accumulated = 0
    /\ releasing = FALSE
    /\ previously_releasing = "nullopt"
    /\ distributed_timings = <<>>
    /\ sanity_check_pending_release = TRUE
    /\ pc = "idle"
    /\ kept = 0

\* Time passes between two calls.
Tick ==
    /\ pc = "idle"
    /\ now < MaxTime
    /\ now' = now + 1
    /\ UNCHANGED <<pacingVars, burstVars, jitterVars, pc, kept>>

\* tryAcquireOne() without a bursting layer: straight to the scheduled pacing.
TryAcquireOnePaced ==
    /\ pc = "idle"
    /\ ~Bursts
    /\ \/ PacingAcquires /\ Answer(TRUE)
       \/ PacingRefuses /\ Answer(FALSE)
    /\ UNCHANGED <<now, burstVars, kept>>

\* BurstingRateLimiter::tryAcquireOne in release mode: drain what was accumulated.
TryAcquireOneReleasing ==
    /\ pc = "idle"
    /\ Bursts
    /\ releasing
    /\ previously_releasing' = "true"
    /\ accumulated' = accumulated - 1
    /\ releasing' = (accumulated' > 0)
    /\ Answer(TRUE)
    /\ UNCHANGED <<now, pacingVars, kept>>

\* BurstingRateLimiter::tryAcquireOne in accumulating mode enters its greedy loop.
TryAcquireOneAccumulating ==
    /\ pc = "idle"
    /\ Bursts
    /\ ~releasing
    /\ previously_releasing' = "false"
    /\ pc' = "pull"
    /\ UNCHANGED <<now, pacingVars, accumulated, releasing, jitterVars, kept>>

\* One turn of the greedy loop.  A burst that is complete is put in release mode and
\* the recursive call takes its first acquisition; the layer below running dry ends
\* the call with false.
PullOne ==
    /\ pc = "pull"
    /\ \/ /\ PacingAcquires
          /\ (accumulated + 1) % BurstSize # 0
          /\ accumulated' = accumulated + 1
          /\ UNCHANGED <<releasing, previously_releasing, jitterVars, pc>>
       \/ /\ PacingAcquires
          /\ (accumulated + 1) % BurstSize = 0
          /\ previously_releasing' = "true"
          /\ accumulated' = accumulated
          /\ releasing' = (accumulated > 0)
          /\ Answer(TRUE)
       \/ /\ PacingRefuses
          /\ previously_releasing' = "nullopt"
          /\ UNCHANGED <<accumulated, releasing>>
          /\ Answer(FALSE)
    /\ UNCHANGED <<now, kept>>

\* The sequencer's target could start: the acquisition is used.
Keep ==
    /\ pc = "held"
    /\ kept' = kept + 1
    /\ pc' = "idle"
    /\ UNCHANGED <<now, pacingVars, burstVars, jitterVars>>

\* releaseOne() of the scheduled pacing; it throws when called too early, which
\* ReleaseContract excludes.
PacingReleases ==
    /\ Started
    /\ acquireable_count' = acquireable_count + 1
    /\ acquired_count' = acquired_count - 1
    /\ UNCHANGED start_time

\* Mutation: what is handed back does not return to the burst.
BurstReleases_Lost ==
    /\ releasing' = TRUE
    /\ previously_releasing' = "nullopt"
    /\ UNCHANGED accumulated

\* Mutation: release mode is not restored.
BurstReleases_ModeLost ==
    /\ accumulated' = accumulated + 1
    /\ previously_releasing' = "nullopt"
    /\ UNCHANGED releasing

\* releaseOne() of the bursting layer, which is not forwarded to the layer below.
BurstReleases ==
    /\ accumulated' = accumulated + 1
    /\ releasing' = TRUE
    /\ previously_releasing' = "nullopt"

\* The target could not start: the sequencer hands its acquisition back.
ReleaseOne ==
    /\ pc = "held"
    /\ IF Bursts
       THEN BurstReleases /\ UNCHANGED pacingVars
       ELSE PacingReleases /\ UNCHANGED burstVars
    /\ sanity_check_pending_release' = TRUE
    /\ pc' = "idle"
    /\ UNCHANGED <<now, distributed_timings, kept>>

Next ==
    \/ Tick
    \/ TryAcquireOnePaced
    \/ TryAcquireOneReleasing
    \/ TryAcquireOneAccumulating
    \/ PullOne
    \/ Keep
    \/ ReleaseOne

Spec == Init /\ [][Next]_vars

-----------------------------------------------------------------------------
(* Properties.                                                             *)

Held == IF pc = "held" THEN 1 ELSE 0

\* The types of the state: in particular the unsigned counters of the code never
\* wrap below zero, and LinearRamping's "not zero" test never meets a negative count.
TypeOK ==
    /\ now \in Nat
    /\ start_time \in Nat \cup {Unset}
    /\ acquireable_count \in Nat
    /\ acquired_count \in Nat
    /\ accumulated \in Nat
    /\ releasing \in BOOLEAN
    /\ previously_releasing \in {"nullopt", "false", "true"}
    /\ distributed_timings \in Seq(Nat)
    /\ sanity_check_pending_release \in BOOLEAN
    /\ pc \in {"idle", "pull", "held"}
    /\ kept \in Nat

\* No acquisition is lost or invented across the layers: what the pacing handed out
\* is what the caller used or holds, plus what the bursting layer has accumulated,
\* plus what waits for its jittered timing.  releaseOne() must give back in exactly
\* one of these places.
TokenConservation ==
    acquired_count = kept + Held + accumulated + Len(distributed_timings)

\* The stack is never ahead of its schedule: what has been handed out, together with
\* what a cached acquireable_count_ still promises, is due by now.
NeverAheadOfSchedule ==
    IF start_time = Unset
    THEN acquired_count = 0 /\ acquireable_count = 0
    ELSE acquired_count + acquireable_count <= Total(now - start_time)

\* releaseOne() is only reached in states it accepts: ScheduledStarting does not
\* throw and Delegating's RELEASE_ASSERT on the pairing with tryAcquireOne() holds.
ReleaseContract ==
    pc = "held" =>
        /\ now >= StartTime
        /\ Jitters => ~sanity_check_pending_release

\* The two ASSERTs at the head of BurstingRateLimiter::releaseOne hold whenever the
\* sequencer may call it.
BurstReleaseAsserts ==
    pc = "held" /\ Bursts =>
        /\ accumulated < BurstSize
        /\ previously_releasing = "true"

\* Bursting releases whole bursts: outside of release mode the number of
\* acquisitions that left the bursting layer is a multiple of the burst size,
\* however often the target pushed back in the middle of one.
WholeBursts ==
    Bursts /\ pc = "idle" /\ ~releasing =>
        (kept + Len(distributed_timings)) % BurstSize = 0

\* The jitter layer keeps its pending timings in order, and none lies further ahead
\* than the largest offset the distribution can produce.
TimingsInOrder ==
    /\ \A i, j \in DOMAIN distributed_timings :
            i < j => distributed_timings[i] <= distributed_timings[j]
    /\ \A i \in DOMAIN distributed_timings : distributed_timings[i] <= now + JitterMax

\* Without jitter a refusal after the scheduled start means the schedule has been
\* followed to the letter: everything due has been handed out, irrespective of how
\* irregularly the stack was polled and of what was handed back on the way.
CaughtUpIfRefused ==
    (/\ ~Jitters
     /\ now >= StartTime
     /\ pc # "held" /\ pc' = "idle" /\ now' = now)
    => kept + accumulated' = Total(now - start_time')

\* In every step, a refusal of tryAcquireOne() means that everything due was handed out.
RefusesOnlyWhenCaughtUp == [][CaughtUpIfRefused]_vars

=============================================================================
