----------------------------- MODULE RateLimiter -----------------------------
(***************************************************************************)
(* The sliding-window rate limiter (RateLimit, RateLimitPeek,              *)
(* RateLimitReset and the cleanup in sampleExpired, internal/store).       *)
(*                                                                         *)
(* One key, always called with the same limit and window.  Time goes in    *)
(* ticks finer than the milliseconds in which the caller is told how long  *)
(* to wait: what matters is the order of calls, which requests have left   *)
(* the window, and what the conversion to milliseconds cuts off.           *)
(***************************************************************************)
EXTENDS Integers, Sequences, FiniteSets, SequencesExt

CONSTANTS
  Limit,         \* the caller's max
  Window,        \* the caller's window, in ticks
  TicksPerMs,    \* how much finer than a millisecond the clock is
  MaxTime        \* bound: the clock

ASSUME RateLimiterAssumption ==
  /\ Limit \in Nat \ {0} /\ Window \in Nat \ {0}
  /\ TicksPerMs \in Nat \ {0} /\ MaxTime \in Nat

VARIABLES
  now,           \* the clock
  requests,      \* <<>>, or <<RateLimiter.Requests>> if the key has a limiter
  grants         \* history: the times of the requests allowed since the last reset

rateVars == <<now, requests, grants>>

RateInit == now = 0 /\ requests = <<>> /\ grants = <<>>

Recorded == IF requests = <<>> THEN <<>> ELSE Head(requests)

(***************************************************************************)
(* The requests that are inside the window at time t: strictly younger     *)
(* than the cutoff.                                                        *)
(***************************************************************************)
ValidAt(t) ==
  LET valid[i \in 0..Len(Recorded)] ==
        IF i = 0 THEN <<>>
        ELSE IF Recorded[i] > t - Window THEN Append(valid[i - 1], Recorded[i])
        ELSE valid[i - 1]
  IN  valid[Len(Recorded)]

Allow ==
  /\ Len(ValidAt(now)) < Limit
  /\ requests' = <<Append(ValidAt(now), now)>>
  /\ grants' = Append(grants, now)
  /\ UNCHANGED now

Deny ==
  /\ Len(ValidAt(now)) >= Limit
  /\ requests' = <<ValidAt(now)>>
  /\ UNCHANGED <<now, grants>>

(***************************************************************************)
(* deleteKeyLocked has the same effect: the DEL, expiry or eviction of a   *)
(* key with that name drops the limiter too.                               *)
(***************************************************************************)
RateLimitReset ==
  /\ requests # <<>>
  /\ requests' = <<>> /\ grants' = <<>>
  /\ UNCHANGED now

(***************************************************************************)
(* sampleExpired: a limiter nobody has used for twice its window is        *)
(* forgotten, and so is one without requests.                              *)
(***************************************************************************)
\* Mutant of Cleanup: the factor is on the wrong side.
CleanupEarly ==
  /\ requests # <<>>
  /\ Recorded = <<>> \/ (now - Last(Recorded)) * 2 > Window
  /\ requests' = <<>>
  /\ UNCHANGED <<now, grants>>

Cleanup ==
  /\ requests # <<>>
  /\ Recorded = <<>> \/ now - Last(Recorded) > Window * 2
  /\ requests' = <<>>
  /\ UNCHANGED <<now, grants>>

Advance == now < MaxTime /\ now' = now + 1 /\ UNCHANGED <<requests, grants>>

RateNext == Allow \/ Deny \/ RateLimitReset \/ Cleanup \/ Advance

RateSpec == RateInit /\ [][RateNext]_rateVars

-----------------------------------------------------------------------------
(***************************************************************************)
(* What RATELIMIT tells a caller that it refuses: how many milliseconds to *)
(* wait, rounded down.                                                     *)
(***************************************************************************)
retryAfterMs == (Head(ValidAt(now)) + Window - now) \div TicksPerMs

(***************************************************************************)
(* The recorded requests are in order, none is in the future, and there    *)
(* are never more of them than the limit.                                  *)
(***************************************************************************)
RateTypeOK ==
  /\ now \in 0..MaxTime
  /\ \A i \in DOMAIN Recorded : Recorded[i] \in 0..now
  /\ \A i, j \in DOMAIN Recorded : i < j => Recorded[i] <= Recorded[j]
  /\ Len(Recorded) <= Limit

(***************************************************************************)
(* No window of the given length, wherever it begins, contains more        *)
(* allowed requests than the limit, although requests are dropped as they  *)
(* age and the whole limiter is dropped by the cleanup.                    *)
(***************************************************************************)
WindowRespected ==
  \A t \in 0..MaxTime :
    Cardinality({i \in DOMAIN grants : t <= grants[i] /\ grants[i] < t + Window}) <= Limit

(***************************************************************************)
(* A refused caller is told neither too long nor much too short a wait: it *)
(* would be refused until that time, and a millisecond later it would be   *)
(* let in, unless others have used up the limit.                           *)
(***************************************************************************)
RetryHonest ==
  Len(ValidAt(now)) >= Limit =>
    LET told == now + retryAfterMs * TicksPerMs IN
    /\ \A t \in now..(told - 1) : Len(ValidAt(t)) >= Limit
    /\ Len(ValidAt(told + TicksPerMs)) < Limit

(***************************************************************************)
(* Types, the limit in every window, and an honest answer to those who are *)
(* refused.                                                                *)
(***************************************************************************)
RateInv == RateTypeOK /\ WindowRespected /\ RetryHonest
=============================================================================
