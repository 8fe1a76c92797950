------------------------ MODULE MCRateLimiterStack -------------------------
(***************************************************************************)
(* Four stacks the factory can assemble, over the same variables: bursts   *)
(* of three (the constants of the .cfg), the linear ramping plugin, jitter *)
(* of up to 3 ticks, and jitter on top of bursts.                          *)
(***************************************************************************)
EXTENDS RateLimiterStack

VARIABLE stack

Ramp == INSTANCE RateLimiterStack WITH
    Pacing <- "ramping", Interval <- 2, RampTime <- 7, StartTime <- 6,
    BurstSize <- 0, JitterMax <- 0, MaxTime <- 26
Jitter == INSTANCE RateLimiterStack WITH
    Interval <- 2, StartTime <- 1, BurstSize <- 0, JitterMax <- 3, MaxTime <- 9
JitteredBurst == INSTANCE RateLimiterStack WITH
    Interval <- 1, StartTime <- 1, BurstSize <- 2, JitterMax <- 2, MaxTime <- 7

MCInit == stack \in {"burst", "ramp", "jitter", "jittered burst"} /\ Init

MCNext ==
    /\ \/ stack = "burst" /\ Next
       \/ stack = "ramp" /\ Ramp!Next
       \/ stack = "jitter" /\ Jitter!Next
       \/ stack = "jittered burst" /\ JitteredBurst!Next
    /\ UNCHANGED stack

MCSpec == MCInit /\ [][MCNext]_<<vars, stack>>

\* WholeBursts of the stack with only a bursting layer: outside of release mode whole bursts have
\* left it, whatever releaseOne() handed back.  Under jitter this fails: see the README.
BurstsStayWhole == stack = "burst" => WholeBursts

\* ReleaseContract of every stack: the exception of ScheduledStarting::releaseOne and the
\* RELEASE_ASSERT of Delegating::releaseOne are out of the sequencer's reach.
ReleasesAreAccepted ==
    /\ stack = "burst" => ReleaseContract
    /\ stack = "ramp" => Ramp!ReleaseContract
    /\ stack = "jitter" => Jitter!ReleaseContract
    /\ stack = "jittered burst" => JitteredBurst!ReleaseContract

\* The stacks without jitter refuse only when everything due by tryAcquireOne()'s schedule has
\* been handed out: polling irregularly and handing back lose nothing.
RefusalsMeanCaughtUp ==
    [][ /\ stack = "burst" => CaughtUpIfRefused
        /\ stack = "ramp" => Ramp!CaughtUpIfRefused ]_<<vars, stack>>
=============================================================================
