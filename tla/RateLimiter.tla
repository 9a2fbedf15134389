---------------------------- MODULE RateLimiter -----------------------------
(***************************************************************************)
(* The limiter of the public ticket endpoints (public-tickets.service.ts), *)
(* for one address: the process keeps one record per address, and the      *)
(* records of two addresses share nothing.                                 *)
(***************************************************************************)
EXTENDS Integers, Sequences

CONSTANTS
  Limit,       \* RATE_LIMIT_REQUESTS
  WindowSpan,  \* RATE_LIMIT_WINDOW_MS
  EndOfTime    \* bound: the clock

ASSUME LimiterBounds == Limit \in Nat \ {0} /\ WindowSpan \in Nat \ {0} /\ EndOfTime \in Nat

VARIABLES
  time,      \* Date.now()
  limiter,   \* the record of the address: how many requests, and when it is reset
  accepted   \* history: when each request was let through, since the process started

limiterVars == <<time, limiter, accepted>>

Times == 0..EndOfTime
NoRecord == [count |-> 0]

RateLimiterTypeOK ==
  /\ time \in Times
  /\ limiter \in {NoRecord} \cup [count : 1..Limit, resetAt : WindowSpan..(EndOfTime + WindowSpan)]
  /\ accepted \in Seq(Times)

RateLimiterInit ==
  /\ time = 0
  /\ limiter = NoRecord
  /\ accepted = <<>>

\* Wrong variant of Over: the window ends one tick early.
OverAtEnd == limiter # NoRecord => time >= limiter.resetAt

\* There is no window, or its last moment has passed.
Over == limiter # NoRecord => time > limiter.resetAt

LetThrough == accepted' = Append(accepted, time)

\* checkRateLimit, before anything else of a request: opening a ticket, adding a
\* section, uploading an image.
FirstOfWindow ==
  /\ Over
  /\ limiter' = [count |-> 1, resetAt |-> time + WindowSpan]
  /\ LetThrough
  /\ UNCHANGED time

\* Wrong variant of WithinWindow: one request too many.
WithinWindowAndOne ==
  /\ ~Over /\ limiter.count <= Limit
  /\ limiter' = [limiter EXCEPT !.count = @ + 1]
  /\ LetThrough
  /\ UNCHANGED time

WithinWindow ==
  /\ ~Over /\ limiter.count < Limit
  /\ limiter' = [limiter EXCEPT !.count = @ + 1]
  /\ LetThrough
  /\ UNCHANGED time

\* The clock is read in milliseconds: many requests may fall in one.
ClockTicks ==
  /\ time < EndOfTime
  /\ time' = time + 1
  /\ UNCHANGED <<limiter, accepted>>

\* The records are in memory only: a new process starts without.
ProcessRestarts ==
  /\ limiter' = NoRecord
  /\ accepted' = <<>>
  /\ UNCHANGED time

RateLimiterNext == FirstOfWindow \/ WithinWindow \/ ClockTicks \/ ProcessRestarts

RateLimiterSpec == RateLimiterInit /\ [][RateLimiterNext]_limiterVars

-----------------------------------------------------------------------------
\* Twice the limit of requests, one after the other, never fit in one window's
\* length, wherever it begins, while the process lives: a full window can follow
\* on the last requests of another, but the request that opened that other one
\* lies too far back (checkRateLimit).
NoDoubleLimit ==
  \A i \in DOMAIN accepted :
    i + 2 * Limit - 1 \in DOMAIN accepted =>
      accepted[i + 2 * Limit - 1] - accepted[i] > WindowSpan
=============================================================================
