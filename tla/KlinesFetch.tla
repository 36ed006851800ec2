----------------------------- MODULE KlinesFetch -----------------------------
(***************************************************************************)
(* One import's conversation with the provider: the import range, the      *)
(* retry loop of a page request, the cursor that walks the range page by   *)
(* page, and the coverage check that ends the fetch.  Open times are       *)
(* counted in candles of the timeframe (the row parser rejects any that is *)
(* not aligned), the clock in half candles, delays in seconds.             *)
(***************************************************************************)
EXTENDS Integers, Sequences, SequencesExt

CONSTANTS
  Horizon,      \* open times are 0..Horizon
  MaxRows,      \* bound on the rows of a response
  MaxCandles,   \* ZORQEN_IMPORT_MAX_CANDLES
  MaxAttempts,  \* attempts for one page
  MaxDelay,     \* longest sleep between two attempts
  RetryAfters   \* values of a Retry-After header, sensible or not

ASSUME FetchAssumption ==
  /\ Horizon \in Nat /\ MaxRows \in Nat /\ MaxCandles \in Nat
  /\ MaxAttempts \in Nat \ {0}
  /\ MaxDelay \in Nat
  /\ RetryAfters \subseteq Int

VARIABLES
  range,        \* the requested [start, end) and the clock when it was parsed
  stage,        \* "parse", "request", "done" or "failed"
  cursor,
  collected,    \* open times accepted so far
  pages,        \* provenance: [requested, rows] of each page that arrived
  attempt,      \* attempt of the current page, from 1
  waited        \* seconds slept for the current page

fetched == <<cursor, collected, pages>>
fetchVars == <<range, stage, fetched, attempt, waited>>

OpenTimes == 0..Horizon
PageRows == SeqOf(OpenTimes, MaxRows)

FetchInit ==
  /\ range \in [start : OpenTimes, end : OpenTimes, now : 0..(2 * Horizon)]
  /\ stage = "parse"
  /\ cursor = range.start
  /\ collected = <<>>
  /\ pages = <<>>
  /\ attempt = 1
  /\ waited = 0

\* The open time of the candle that is forming now.
CurrentOpenBoundary == range.now \div 2

\* parse_import_range, and the guard on the expected number of candles.
RangeAccepted ==
  /\ range.start < range.end
  /\ range.end <= CurrentOpenBoundary
  /\ range.end - range.start <= MaxCandles

ParseRange ==
  /\ stage = "parse"
  /\ stage' = IF RangeAccepted THEN "request" ELSE "failed"
  /\ UNCHANGED <<range, fetched, attempt, waited>>

Smaller(x, y) == IF x < y THEN x ELSE y

\* Faulty variant: forgets to count.
RetryUncounted(delay) ==
  IF attempt >= MaxAttempts
  THEN stage' = "failed" /\ UNCHANGED <<attempt, waited>>
  ELSE waited' = delay /\ UNCHANGED <<stage, attempt>>

\* The last attempt raises instead of sleeping.
Retry(delay) ==
  IF attempt >= MaxAttempts
  THEN stage' = "failed" /\ UNCHANGED <<attempt, waited>>
  ELSE /\ attempt' = attempt + 1
       /\ waited' = waited + delay
       /\ UNCHANGED stage

\* A timeout, a transport error or a status of 500 and above.
Unavailable ==
  /\ stage = "request" /\ cursor < range.end
  /\ Retry(Smaller(2 ^ attempt, MaxDelay))
  /\ UNCHANGED <<range, fetched>>

\* 429: the header is clamped to 0..MaxDelay; one second without a usable one.
RateLimited ==
  /\ stage = "request" /\ cursor < range.end
  /\ \E asked \in RetryAfters \cup {1} :
       Retry(Smaller(IF asked < 0 THEN 0 ELSE asked, MaxDelay))
  /\ UNCHANGED <<range, fetched>>

\* 418, any other status, a body that is not JSON, a row that does not parse.
Refused ==
  /\ stage = "request" /\ cursor < range.end
  /\ stage' = "failed"
  /\ UNCHANGED <<range, fetched, attempt, waited>>

\* The loop over the rows: those at or past the end are passed over, because
\* endTime is inclusive.
InRange(rows, end) ==
  LET kept[n \in 0..Len(rows)] ==
        IF n = 0 THEN <<>>
        ELSE IF rows[n] < end THEN Append(kept[n - 1], rows[n]) ELSE kept[n - 1]
  IN kept[Len(rows)]

Increasing(s) == \A i \in 1..(Len(s) - 1) : s[i] < s[i + 1]

\* Faulty variant: rows before the cursor are not noticed.
PageAcceptedStale(rows) ==
  LET in == InRange(rows, range.end) IN in # <<>> /\ Increasing(in)

\* What the loop over the rows lets through; a page without a row in range does
\* not advance the cursor and is an error.
PageAccepted(rows) ==
  LET in == InRange(rows, range.end) IN
  /\ in # <<>>
  /\ \A i \in 1..Len(rows) : rows[i] >= cursor
  /\ Increasing(in)
  /\ ToSet(in) \cap ToSet(collected) = {}

\* Any other page is recorded and fails the fetch.
PageArrives ==
  /\ stage = "request" /\ cursor < range.end
  /\ \E rows \in PageRows :
       /\ pages' = Append(pages, [requested |-> cursor, rows |-> rows])
       /\ IF PageAccepted(rows)
          THEN /\ collected' = collected \o InRange(rows, range.end)
               /\ cursor' = Last(InRange(rows, range.end)) + 1
               /\ UNCHANGED stage
          ELSE stage' = "failed" /\ UNCHANGED <<cursor, collected>>
  /\ attempt' = 1
  /\ waited' = 0
  /\ UNCHANGED range

\* Faulty variant: only the two ends are looked at.
CoveredAtEnds ==
  Head(collected) = range.start /\ Last(collected) = range.end - 1

\* assert_complete_coverage
Covered ==
  /\ Len(collected) = range.end - range.start
  /\ \A i \in 1..Len(collected) : collected[i] = range.start + i - 1

AssertCoverage ==
  /\ stage = "request" /\ cursor >= range.end
  /\ stage' = IF Covered THEN "done" ELSE "failed"
  /\ UNCHANGED <<range, fetched, attempt, waited>>

FetchNext ==
  \/ ParseRange
  \/ Unavailable
  \/ RateLimited
  \/ Refused
  \/ PageArrives
  \/ AssertCoverage

FetchSpec == FetchInit /\ [][FetchNext]_fetchVars
-----------------------------------------------------------------------------
(* Properties.                                                             *)

\* Whatever the provider serves, in whatever pages, a fetch that succeeds has
\* every candle of the range once, in order, and none that was still forming.
ClosedHistoryOnly ==
  stage = "done" =>
    /\ collected = [i \in 1..(range.end - range.start) |-> range.start + i - 1]
    /\ \A i \in 1..Len(collected) : 2 * (collected[i] + 1) <= range.now

\* The rows in range of the pages that were requested before a cursor, one page
\* after the other.
Gathered(arrived, reached, end) ==
  LET got[n \in 0..Len(arrived)] ==
        IF n = 0 THEN <<>>
        ELSE IF arrived[n].requested < reached
             THEN got[n - 1] \o InRange(arrived[n].rows, end)
             ELSE got[n - 1]
  IN got[Len(arrived)]

\* The provenance explains the candles: each page was requested where the one
\* before it stopped, and the rows in range of the accepted pages, one page
\* after the other, are the candles collected.
PagesExplainCandles ==
  /\ Gathered(pages, cursor, range.end) = collected
  /\ \A i \in 1..Len(pages) :
       pages[i].requested =
         IF i = 1 THEN range.start
         ELSE Last(InRange(pages[i - 1].rows, range.end)) + 1

\* Against any provider the fetch ends: a page either advances the cursor or
\* fails, and attempts run out.  Each request ends because the client has a
\* timeout, which is all the fairness there is.  Nor is the end put off: a page
\* costs at most MaxAttempts - 1 sleeps of at most MaxDelay seconds, so the loop
\* neither sleeps after its last attempt nor obeys an absurd Retry-After.
FairFetch == FetchSpec /\ WF_fetchVars(FetchNext)
FetchEnds == <>(stage \in {"done", "failed"}) /\ [](waited <= (attempt - 1) * MaxDelay)
=============================================================================
