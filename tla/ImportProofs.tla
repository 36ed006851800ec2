----------------------------- MODULE ImportProofs -----------------------------
(***************************************************************************)
(* The two halves of an import, for any limits and whatever fails: what a  *)
(* fetch that succeeds has collected, what its provenance says of it, and  *)
(* how long a page can make it wait, for any provider; then what           *)
(* publication guarantees for every number of importing processes, every   *)
(* set of names and of responses.                                          *)
(***************************************************************************)
EXTENDS KlinesFetch, DatasetPublication, LoopFacts

-----------------------------------------------------------------------------
(* The model's operators.                                                  *)

\* A power of two counts the subsets of a set, so it is a natural number.
LEMMA PowerOfTwo == ASSUME NEW n \in Nat PROVE 2 ^ n \in Nat
<1>1. IsFiniteSet(1..n) /\ Cardinality(1..n) = n  BY FS_Interval
<1>2. IsFiniteSet(SUBSET (1..n)) /\ Cardinality(SUBSET (1..n)) = 2 ^ n
  BY <1>1, FS_SUBSET
<1> QED BY <1>2, FS_CardinalityType

\* The rows that the loop keeps are rows of the page, and before the end.
LEMMA InRangeRows ==
  ASSUME NEW S, NEW arriving \in Seq(S), NEW end
  PROVE  InRange(arriving, end) \in Seq({t \in S : t < end})
<1> DEFINE N == Len(arriving)
           T == Seq({t \in S : t < end})
           Keep(n, s) == IF arriving[n] < end THEN Append(s, arriving[n]) ELSE s
           Round(F) == [n \in 0..N |->
             IF n = 0 THEN <<>>
             ELSE IF arriving[n] < end THEN Append(F[n - 1], arriving[n]) ELSE F[n - 1]]
           kept == CHOOSE F : F = Round(F)
           step == [p \in (1..N) \X T |-> Keep(p[1], p[2])]
<1>1. N \in Nat /\ \A n \in 1..N : arriving[n] \in S  OBVIOUS
<1>2. \A n \in 1..N, s \in T : Keep(n, s) \in T  BY <1>1
<1>3. <<>> \in T  OBVIOUS
<1>4. step \in [(1..N) \X T -> T]
  <2> HIDE DEF Keep, T, N
  <2> QED BY <1>2
<1>5. PICK f : LoopRun(f, N, T, <<>>, step)
  <2> HIDE DEF step, N, T
  <2> QED BY <1>1, <1>3, <1>4, LoopExists
<1>6. f \in [0..N -> T] /\ f[0] = <<>> /\ \A n \in 1..N : f[n] = Keep(n, f[n - 1])
  <2>1. f \in [0..N -> T] /\ f[0] = <<>> /\ \A n \in 1..N : f[n] = step[<<n, f[n - 1]>>]
    <3> HIDE DEF step, T
    <3> QED BY <1>5 DEF LoopRun
  <2>2. \A n \in 1..N : f[n - 1] \in T  BY <1>1, <2>1
  <2> HIDE DEF Keep, T, N
  <2> QED BY <2>1, <2>2
<1>7. f = Round(f)
  <2>1. \A n \in 0..N : n = 0 \/ n \in 1..N  BY <1>1
  <2>2. \A n \in 0..N : f[n] = Round(f)[n]  BY <1>6, <2>1
  <2> HIDE DEF T, N
  <2> QED BY <1>6, <2>2
<1>8. kept = Round(kept)
  <2> HIDE DEF Round
  <2> QED BY <1>7
<1>9. kept[0] = <<>> /\ \A n \in 1..N : kept[n] = Keep(n, kept[n - 1])
  <2> HIDE DEF kept
  <2>1. \A n \in 0..N : kept[n] = IF n = 0 THEN <<>> ELSE Keep(n, kept[n - 1])  BY <1>8
  <2> HIDE DEF Keep
  <2> QED BY <1>1, <2>1
<1> DEFINE K == {k \in 0..N : kept[k] \in T}
<1>10. 0..N \subseteq K
  <2> HIDE DEF kept, T, Keep
  <2>1. 0 \in K  BY <1>1, <1>3, <1>9
  <2>2. ASSUME NEW k \in 1..N, k - 1 \in K PROVE k \in K  BY <1>1, <1>2, <1>9, <2>2
  <2> HIDE DEF K, N
  <2> QED BY <1>1, <2>1, <2>2, Rounds
<1>11. kept[N] \in T
  <2> HIDE DEF kept, T
  <2> QED BY <1>1, <1>10
<1> QED BY <1>11 DEF InRange

\* A page of the provenance.
Page == [requested : Nat, rows : Seq(OpenTimes)]

\* The rounds of the loop that gathers the rows of the accepted pages.
GatheredBy(got, arrived, reached, end) ==
  /\ got \in [0..Len(arrived) -> Seq(OpenTimes)]
  /\ got[0] = <<>>
  /\ \A n \in 1..Len(arrived) :
       got[n] = IF arrived[n].requested < reached
                THEN got[n - 1] \o InRange(arrived[n].rows, end) ELSE got[n - 1]
  /\ Gathered(arrived, reached, end) = got[Len(arrived)]

\* The rows of one page that are in range, as open times.
LEMMA InRangeType ==
  ASSUME NEW S, NEW arriving \in Seq(S), NEW end
  PROVE  InRange(arriving, end) \in Seq(S)
<1>1. InRange(arriving, end) \in Seq({t \in S : t < end})  BY InRangeRows
<1> QED BY <1>1

LEMMA GatheredRounds ==
  ASSUME NEW arrived \in Seq(Page), NEW reached, NEW end
  PROVE  \E got : GatheredBy(got, arrived, reached, end)
<1> DEFINE N == Len(arrived)
           T == Seq(OpenTimes)
           More(n, s) == IF arrived[n].requested < reached
                         THEN s \o InRange(arrived[n].rows, end) ELSE s
           Round(F) == [n \in 0..N |->
             IF n = 0 THEN <<>>
             ELSE IF arrived[n].requested < reached
                  THEN F[n - 1] \o InRange(arrived[n].rows, end) ELSE F[n - 1]]
           got == CHOOSE F : F = Round(F)
           step == [p \in (1..N) \X T |-> More(p[1], p[2])]
<1>1. N \in Nat /\ \A n \in 1..N : InRange(arrived[n].rows, end) \in T
  <2>1. N \in Nat /\ \A n \in 1..N : arrived[n] \in Page  BY SequenceElements
  <2>2. \A n \in 1..N : arrived[n].rows \in Seq(OpenTimes)  BY <2>1 DEF Page
  <2> QED BY <2>1, <2>2, InRangeType
<1>2. \A n \in 1..N, s \in T : More(n, s) \in T  BY <1>1
<1>3. <<>> \in T  OBVIOUS
<1>4. step \in [(1..N) \X T -> T]
  <2> HIDE DEF More, T, N
  <2> QED BY <1>2
<1>5. PICK f : LoopRun(f, N, T, <<>>, step)
  <2> HIDE DEF step, N, T
  <2> QED BY <1>1, <1>3, <1>4, LoopExists
<1>6. f \in [0..N -> T] /\ f[0] = <<>> /\ \A n \in 1..N : f[n] = More(n, f[n - 1])
  <2>1. f \in [0..N -> T] /\ f[0] = <<>> /\ \A n \in 1..N : f[n] = step[<<n, f[n - 1]>>]
    <3> HIDE DEF step, T
    <3> QED BY <1>5 DEF LoopRun
  <2>2. \A n \in 1..N : f[n - 1] \in T
    <3> HIDE DEF T, N, step
    <3> QED BY <1>1, <2>1
  <2> HIDE DEF More, T, N
  <2> QED BY <2>1, <2>2
<1>7. f = Round(f)
  <2>1. \A n \in 0..N : n = 0 \/ n \in 1..N  BY <1>1
  <2>2. \A n \in 0..N : f[n] = Round(f)[n]  BY <1>6, <2>1
  <2> HIDE DEF T, N
  <2> QED BY <1>6, <2>2
<1>8. got = Round(got)
  <2> HIDE DEF Round
  <2> QED BY <1>7
<1>9. got[0] = <<>> /\ \A n \in 1..N : got[n] = More(n, got[n - 1])
  <2> HIDE DEF got
  <2>1. \A n \in 0..N : got[n] = IF n = 0 THEN <<>> ELSE More(n, got[n - 1])  BY <1>8
  <2> HIDE DEF More
  <2> QED BY <1>1, <2>1
<1> DEFINE K == {k \in 0..N : got[k] \in T}
<1>10. 0..N \subseteq K
  <2> HIDE DEF got, T, More
  <2>1. 0 \in K  BY <1>1, <1>3, <1>9
  <2>2. ASSUME NEW k \in 1..N, k - 1 \in K PROVE k \in K  BY <1>1, <1>2, <1>9, <2>2
  <2> HIDE DEF K, N
  <2> QED BY <1>1, <2>1, <2>2, Rounds
<1>11. got \in [0..N -> T]
  <2>1. \A k \in 0..N : got[k] \in T
    <3> HIDE DEF got, T
    <3> QED BY <1>10
  <2>2. got = [k \in 0..N |-> got[k]]
    <3> HIDE DEF got
    <3> QED BY <1>8
  <2> HIDE DEF got, T
  <2> QED BY <2>1, <2>2
<1>12. Gathered(arrived, reached, end) = got[N]  BY DEF Gathered
<1>13. GatheredBy(got, arrived, reached, end)
  <2>1. \A n \in 1..N : got[n] = IF arrived[n].requested < reached
                                 THEN got[n - 1] \o InRange(arrived[n].rows, end) ELSE got[n - 1]
    <3> HIDE DEF got
    <3> QED BY <1>9
  <2> HIDE DEF got, More
  <2> QED BY <1>9, <1>11, <1>12, <2>1 DEF GatheredBy
<1> QED
  <2> HIDE DEF got
  <2> QED BY <1>13

\* Two cursors that the same pages were requested before.
SameBefore(arrived, reached, later) ==
  \A n \in 1..Len(arrived) : arrived[n].requested < reached <=> arrived[n].requested < later

\* Another page adds its rows in range if the cursor has passed it, and the rows
\* of the pages before it stay what they were.
LEMMA GatheredAppend ==
  ASSUME NEW arrived \in Seq(Page), NEW page \in Page, NEW end, NEW reached, NEW later,
         SameBefore(arrived, reached, later)
  PROVE  /\ Gathered(arrived, reached, end) \in Seq(OpenTimes)
         /\ Gathered(Append(arrived, page), later, end)
              = IF page.requested < later
                THEN Gathered(arrived, reached, end) \o InRange(page.rows, end)
                ELSE Gathered(arrived, reached, end)
<1> DEFINE N == Len(arrived)
           both == Append(arrived, page)
<1>1. /\ N \in Nat /\ both \in Seq(Page) /\ Len(both) = N + 1 /\ both[N + 1] = page
      /\ \A n \in 1..N : both[n] = arrived[n]
  OBVIOUS
<1>2. PICK f : GatheredBy(f, arrived, reached, end)  BY GatheredRounds
<1>3. PICK g : GatheredBy(g, both, later, end)
  <2> HIDE DEF both
  <2> QED BY <1>1, GatheredRounds
<1>4. /\ f \in [0..N -> Seq(OpenTimes)] /\ f[0] = <<>>
      /\ \A n \in 1..N : f[n] = IF arrived[n].requested < reached
                                THEN f[n - 1] \o InRange(arrived[n].rows, end) ELSE f[n - 1]
      /\ Gathered(arrived, reached, end) = f[N]
  BY <1>2 DEF GatheredBy
<1>5. /\ g[0] = <<>>
      /\ \A n \in 1..(N + 1) : g[n] = IF both[n].requested < later
                                      THEN g[n - 1] \o InRange(both[n].rows, end) ELSE g[n - 1]
      /\ Gathered(both, later, end) = g[N + 1]
  <2> HIDE DEF both
  <2> QED BY <1>1, <1>3 DEF GatheredBy
<1> DEFINE K == {k \in 0..N : f[k] = g[k]}
<1>6. 0..N \subseteq K
  <2>1. 0 \in K  BY <1>1, <1>4, <1>5
  <2>2. ASSUME NEW k \in 1..N, k - 1 \in K PROVE k \in K
    <3>1. k \in 1..(N + 1) /\ both[k] = arrived[k]  BY <1>1
    <3> HIDE DEF both
    <3> QED BY <1>4, <1>5, <2>2, <3>1 DEF SameBefore
  <2> HIDE DEF K, N
  <2> QED BY <1>1, <2>1, <2>2, Rounds
<1>7. g[N] = f[N]
  <2> HIDE DEF both
  <2> QED BY <1>1, <1>6
<1>8. g[N + 1] = IF page.requested < later THEN f[N] \o InRange(page.rows, end) ELSE f[N]
  <2>1. N + 1 \in 1..(N + 1) /\ (N + 1) - 1 = N  BY <1>1
  <2> HIDE DEF both, N
  <2> QED BY <1>1, <1>5, <1>7, <2>1
<1>9. f[N] \in Seq(OpenTimes)  BY <1>1, <1>4
<1> HIDE DEF both, N
<1> QED BY <1>4, <1>5, <1>8, <1>9 DEF both

\* Nothing has been gathered before the first page.
LEMMA GatheredNone == ASSUME NEW reached, NEW end PROVE Gathered(<<>>, reached, end) = <<>>
<1>1. <<>> \in Seq(Page) /\ Len(<<>>) = 0  OBVIOUS
<1>2. PICK f : GatheredBy(f, <<>>, reached, end)  BY <1>1, GatheredRounds
<1> QED BY <1>1, <1>2 DEF GatheredBy

-----------------------------------------------------------------------------
(* The inductive invariant.                                                *)

FetchTypeOK ==
  /\ range \in [start : OpenTimes, end : OpenTimes, now : 0..(2 * Horizon)]
  /\ stage \in {"parse", "request", "done", "failed"}
  /\ cursor \in Nat
  /\ collected \in Seq(OpenTimes)
  /\ pages \in Seq(Page)
  /\ attempt \in 1..MaxAttempts
  /\ waited \in Nat

\* Only a range that was accepted is ever fetched.
RangeWasAccepted == stage \in {"request", "done"} => RangeAccepted

\* Only complete coverage succeeds.
CoverageWasAsserted == stage = "done" => Covered

\* Until the fetch fails the cursor is where the last page stopped, and every
\* page was requested before it.
CursorFollows ==
  stage # "failed" =>
    /\ cursor = IF pages = <<>> THEN range.start
                ELSE Last(InRange(pages[Len(pages)].rows, range.end)) + 1
    /\ \A i \in 1..Len(pages) : pages[i].requested < cursor

\* The sleeps of a page.
WaitsBounded == waited <= (attempt - 1) * MaxDelay

FetchInv ==
  /\ FetchTypeOK
  /\ RangeWasAccepted
  /\ CoverageWasAsserted
  /\ CursorFollows
  /\ PagesExplainCandles
  /\ WaitsBounded

LEMMA FetchInvInit == FetchInit => FetchInv
<1> SUFFICES ASSUME FetchInit PROVE FetchInv  OBVIOUS
<1>1. FetchTypeOK  BY FetchAssumption DEF FetchInit, FetchTypeOK, OpenTimes
<1>2. RangeWasAccepted /\ CoverageWasAsserted
  BY DEF FetchInit, RangeWasAccepted, CoverageWasAsserted
<1>3. CursorFollows  BY DEF FetchInit, CursorFollows
<1>4. PagesExplainCandles
  <2>1. Len(pages) = 0 /\ 1..0 = {}  BY DEF FetchInit
  <2> QED BY <2>1, GatheredNone DEF FetchInit, PagesExplainCandles
<1>5. WaitsBounded  BY FetchAssumption DEF FetchInit, WaitsBounded
<1> QED BY <1>1, <1>2, <1>3, <1>4, <1>5 DEF FetchInv

\* What is left alone while a request is retried or the fetch ends.
LEMMA FetchedStays ==
  ASSUME FetchInv, UNCHANGED <<range, fetched>>, stage' = stage \/ stage' = "failed"
  PROVE  /\ RangeWasAccepted' /\ CursorFollows' /\ PagesExplainCandles'
         /\ CoverageWasAsserted'
<1>1. UNCHANGED <<range, cursor, collected, pages>>  BY DEF fetched
<1>2. CursorFollows'  BY <1>1 DEF FetchInv, CursorFollows
<1>3. PagesExplainCandles'  BY <1>1 DEF FetchInv, PagesExplainCandles
<1>4. RangeWasAccepted' /\ CoverageWasAsserted'
  BY <1>1 DEF FetchInv, RangeWasAccepted, RangeAccepted, CurrentOpenBoundary,
              CoverageWasAsserted, Covered
<1> QED BY <1>2, <1>3, <1>4

\* One more round of a multiplication.
LEMMA OneMore ==
  ASSUME NEW n \in Nat, NEW d \in Nat, NEW w \in Nat, NEW e \in 0..d, w <= (n - 1) * d
  PROVE  w + e <= ((n + 1) - 1) * d
<1>1. ((n + 1) - 1) * d = (n - 1) * d + d  OBVIOUS
<1>2. (n - 1) * d \in Int  OBVIOUS
<1> QED BY <1>1, <1>2

\* A retry counts, and sleeps no longer than it may.
LEMMA RetryKeeps ==
  ASSUME FetchInv, NEW delay \in 0..MaxDelay, Retry(delay), UNCHANGED <<range, fetched>>
  PROVE  FetchInv'
<1>1. /\ attempt \in 1..MaxAttempts /\ waited \in Nat /\ MaxDelay \in Nat
      /\ MaxAttempts \in Nat /\ waited <= (attempt - 1) * MaxDelay
  BY FetchAssumption DEF FetchInv, FetchTypeOK, WaitsBounded
<1>2. attempt' \in 1..MaxAttempts /\ waited' \in Nat /\ (stage' = stage \/ stage' = "failed")
  BY <1>1 DEF Retry
<1>3. FetchTypeOK'  BY <1>2 DEF FetchInv, FetchTypeOK, fetched
<1>4. WaitsBounded'
  <2>1. CASE attempt >= MaxAttempts  BY <1>1, <2>1 DEF Retry, WaitsBounded
  <2>2. CASE ~(attempt >= MaxAttempts)
    <3>1. attempt' = attempt + 1 /\ waited' = waited + delay  BY <2>2 DEF Retry
    <3>2. waited + delay <= ((attempt + 1) - 1) * MaxDelay  BY <1>1, OneMore
    <3> QED BY <3>1, <3>2 DEF WaitsBounded
  <2> QED BY <2>1, <2>2
<1>5. /\ RangeWasAccepted' /\ CursorFollows' /\ PagesExplainCandles'
      /\ CoverageWasAsserted'
  BY <1>2, FetchedStays
<1> QED BY <1>3, <1>4, <1>5 DEF FetchInv

LEMMA UnavailableKeeps == ASSUME FetchInv, Unavailable PROVE FetchInv'
<1>1. Smaller(2 ^ attempt, MaxDelay) \in 0..MaxDelay
  <2>1. attempt \in Nat /\ MaxDelay \in Nat  BY FetchAssumption DEF FetchInv, FetchTypeOK
  <2>2. 2 ^ attempt \in Nat  BY <2>1, PowerOfTwo
  <2> QED BY <2>1, <2>2 DEF Smaller
<1> QED BY <1>1, RetryKeeps DEF Unavailable

LEMMA RateLimitedKeeps == ASSUME FetchInv, RateLimited PROVE FetchInv'
<1>1. PICK asked \in RetryAfters \cup {1} :
        Retry(Smaller(IF asked < 0 THEN 0 ELSE asked, MaxDelay))
  BY DEF RateLimited
<1>2. asked \in Int /\ MaxDelay \in Nat  BY FetchAssumption
<1>3. Smaller(IF asked < 0 THEN 0 ELSE asked, MaxDelay) \in 0..MaxDelay
  BY <1>2 DEF Smaller
<1> QED BY <1>1, <1>3, RetryKeeps DEF RateLimited

\* The fetch fails, or goes on with an accepted range, and nothing else happens.
LEMMA RefusedKeeps == ASSUME FetchInv, Refused PROVE FetchInv'
<1>1. /\ RangeWasAccepted' /\ CursorFollows' /\ PagesExplainCandles'
      /\ CoverageWasAsserted'
  BY FetchedStays DEF Refused
<1>2. FetchTypeOK' /\ WaitsBounded'  BY DEF Refused, FetchInv, FetchTypeOK, WaitsBounded, fetched
<1> QED BY <1>1, <1>2 DEF FetchInv

LEMMA ParseKeeps == ASSUME FetchInv, ParseRange PROVE FetchInv'
<1>1. UNCHANGED <<range, cursor, collected, pages, attempt, waited>>
  BY DEF ParseRange, fetched
<1>2. FetchTypeOK' /\ WaitsBounded'  BY <1>1 DEF ParseRange, FetchInv, FetchTypeOK, WaitsBounded
<1>3. RangeWasAccepted' /\ CoverageWasAsserted'
  BY <1>1 DEF ParseRange, RangeWasAccepted, RangeAccepted, CurrentOpenBoundary,
              CoverageWasAsserted
<1>4. CursorFollows'  BY <1>1 DEF ParseRange, FetchInv, CursorFollows
<1>5. PagesExplainCandles'  BY <1>1 DEF FetchInv, PagesExplainCandles
<1> QED BY <1>2, <1>3, <1>4, <1>5 DEF FetchInv

LEMMA CoverageKeeps == ASSUME FetchInv, AssertCoverage PROVE FetchInv'
<1>1. UNCHANGED <<range, cursor, collected, pages, attempt, waited>>
  BY DEF AssertCoverage, fetched
<1>2. FetchTypeOK' /\ WaitsBounded'  BY <1>1 DEF AssertCoverage, FetchInv, FetchTypeOK, WaitsBounded
<1>3. RangeWasAccepted' /\ CoverageWasAsserted'
  BY <1>1 DEF AssertCoverage, FetchInv, RangeWasAccepted, RangeAccepted, CurrentOpenBoundary,
              CoverageWasAsserted, Covered
<1>4. CursorFollows'  BY <1>1 DEF AssertCoverage, FetchInv, CursorFollows
<1>5. PagesExplainCandles'  BY <1>1 DEF FetchInv, PagesExplainCandles
<1> QED BY <1>2, <1>3, <1>4, <1>5 DEF FetchInv

\* The rows of an accepted page are at or after the cursor, and move it.
LEMMA PageAdvances ==
  ASSUME FetchInv, NEW arriving \in PageRows, PageAccepted(arriving)
  PROVE  LET in == InRange(arriving, range.end) IN
         /\ in \in Seq(OpenTimes) /\ in # <<>>
         /\ Last(in) \in OpenTimes /\ cursor <= Last(in) /\ Last(in) < range.end
<1> DEFINE in == InRange(arriving, range.end)
           S == {t \in OpenTimes : t >= cursor}
<1>1. arriving \in Seq(OpenTimes)  BY DEF PageRows, SeqOf
<1>2. in # <<>> /\ \A i \in 1..Len(arriving) : arriving[i] >= cursor  BY DEF PageAccepted
<1>3. arriving \in Seq(S)
  <2>1. Len(arriving) \in Nat /\ arriving \in [1..Len(arriving) -> OpenTimes]  BY <1>1
  <2>2. arriving \in [1..Len(arriving) -> S]  BY <1>2, <2>1
  <2> HIDE DEF S
  <2> QED BY <2>1, <2>2
<1>4. in \in Seq({t \in S : t < range.end})
  <2> HIDE DEF S
  <2> QED BY <1>3, InRangeRows
<1> HIDE DEF in
<1>5. Last(in) \in {t \in S : t < range.end}
  <2>1. Len(in) \in 1..Len(in)  BY <1>2, <1>4
  <2>2. in[Len(in)] \in {t \in S : t < range.end}  BY <1>4, <2>1
  <2> QED BY <2>2 DEF Last
<1>6. in \in Seq(OpenTimes)  BY <1>4
<1> QED BY <1>2, <1>5, <1>6 DEF in, OpenTimes

LEMMA PageKeeps == ASSUME FetchInv, PageArrives PROVE FetchInv'
<1>1. PICK arriving \in PageRows :
        /\ pages' = Append(pages, [requested |-> cursor, rows |-> arriving])
        /\ IF PageAccepted(arriving)
           THEN /\ collected' = collected \o InRange(arriving, range.end)
                /\ cursor' = Last(InRange(arriving, range.end)) + 1
                /\ UNCHANGED stage
           ELSE stage' = "failed" /\ UNCHANGED <<cursor, collected>>
  BY DEF PageArrives
<1> DEFINE page == [requested |-> cursor, rows |-> arriving]
           in == InRange(arriving, range.end)
           N == Len(pages)
<1>2. /\ range' = range /\ attempt' = 1 /\ waited' = 0 /\ stage = "request"
      /\ cursor \in Nat /\ pages \in Seq(Page) /\ collected \in Seq(OpenTimes)
  BY DEF PageArrives, FetchInv, FetchTypeOK
<1>3. arriving \in Seq(OpenTimes)  BY DEF PageRows, SeqOf
<1>4. page \in Page  BY <1>2, <1>3 DEF Page
<1>5. /\ N \in Nat /\ pages' \in Seq(Page) /\ Len(pages') = N + 1 /\ pages'[N + 1] = page
      /\ \A i \in 1..N : pages'[i] = pages[i]
  <2> HIDE DEF page
  <2>1. pages' = Append(pages, page)  BY <1>1 DEF page
  <2> QED BY <1>2, <1>4, <2>1
<1>6. /\ cursor = IF pages = <<>> THEN range.start
                  ELSE Last(InRange(pages[N].rows, range.end)) + 1
      /\ \A i \in 1..N : pages[i].requested < cursor /\ pages[i].requested \in Nat
  <2>1. \A i \in 1..N : pages[i] \in Page  BY <1>2, SequenceElements
  <2> QED BY <1>2, <2>1 DEF FetchInv, CursorFollows, Page
<1>7. PageAccepted(arriving) => /\ in \in Seq(OpenTimes) /\ Last(in) \in OpenTimes
                            /\ cursor <= Last(in) /\ Last(in) < range.end
  BY PageAdvances
<1>8. cursor' \in Nat /\ cursor <= cursor' /\ (PageAccepted(arriving) <=> cursor < cursor')
  <2>1. CASE PageAccepted(arriving)
    <3> HIDE DEF in
    <3>1. cursor' = Last(in) + 1  BY <1>1, <2>1 DEF in
    <3> QED BY <1>2, <1>7, <2>1, <3>1 DEF OpenTimes
  <2>2. CASE ~PageAccepted(arriving)  BY <1>1, <1>2, <2>2
  <2> QED BY <2>1, <2>2
<1>9. FetchTypeOK'
  <2>1. collected' \in Seq(OpenTimes)
    <3>1. CASE PageAccepted(arriving)
      <4>1. collected' = collected \o in /\ in \in Seq(OpenTimes)  BY <1>1, <1>7, <3>1
      <4> HIDE DEF in
      <4> QED BY <1>2, <4>1
    <3>2. CASE ~PageAccepted(arriving)  BY <1>1, <1>2, <3>2
    <3> QED BY <3>1, <3>2
  <2>2. stage' \in {"parse", "request", "done", "failed"}  BY <1>1, <1>2
  <2>3. attempt' \in 1..MaxAttempts /\ waited' \in Nat  BY <1>2, FetchAssumption
  <2>4. range' \in [start : OpenTimes, end : OpenTimes, now : 0..(2 * Horizon)]
    BY <1>2 DEF FetchInv, FetchTypeOK
  <2> QED BY <1>5, <1>8, <2>1, <2>2, <2>3, <2>4 DEF FetchTypeOK
<1>10. RangeWasAccepted' /\ CoverageWasAsserted'
  BY <1>1, <1>2 DEF FetchInv, RangeWasAccepted, RangeAccepted, CurrentOpenBoundary,
                    CoverageWasAsserted
<1>11. CursorFollows'
  <2> SUFFICES ASSUME stage' # "failed" PROVE CursorFollows'  BY DEF CursorFollows
  <2>1. PageAccepted(arriving) /\ cursor' = Last(InRange(arriving, range.end)) + 1  BY <1>1
  <2>2. pages' # <<>> /\ pages'[Len(pages')].rows = arriving  BY <1>5
  <2>3. \A i \in 1..Len(pages') : pages'[i].requested < cursor'
    <3>1. \A i \in 1..(N + 1) : i \in 1..N \/ i = N + 1  BY <1>5
    <3>2. \A i \in 1..N : pages'[i].requested < cursor'
      <4> HIDE DEF N, page
      <4> QED BY <1>2, <1>5, <1>6, <1>8
    <3>3. pages'[N + 1].requested < cursor'  BY <1>5, <1>8, <2>1
    <3> HIDE DEF N, page
    <3> QED BY <1>5, <3>1, <3>2, <3>3
  <2> QED BY <1>2, <2>1, <2>2, <2>3 DEF CursorFollows
<1>12. PagesExplainCandles'
  <2>1. SameBefore(pages, cursor, cursor')  BY <1>2, <1>6, <1>8 DEF SameBefore
  <2>2. Gathered(pages', cursor', range.end)
          = IF cursor < cursor' THEN Gathered(pages, cursor, range.end) \o in
            ELSE Gathered(pages, cursor, range.end)
    <3> HIDE DEF page
    <3>1. pages' = Append(pages, page) /\ page.requested = cursor /\ page.rows = arriving
      BY <1>1 DEF page
    <3> QED BY <1>2, <1>4, <2>1, <3>1, GatheredAppend
  <2>3. Gathered(pages, cursor, range.end) = collected  BY DEF FetchInv, PagesExplainCandles
  <2>4. Gathered(pages', cursor', range'.end) = collected'  BY <1>1, <1>2, <1>8, <2>2, <2>3
  <2>5. ASSUME NEW i \in 1..Len(pages')
        PROVE  pages'[i].requested =
                 IF i = 1 THEN range'.start
                 ELSE Last(InRange(pages'[i - 1].rows, range'.end)) + 1
    <3>1. CASE i = N + 1
      <4>1. pages'[i].requested = cursor  BY <1>5, <3>1
      <4>2. CASE N = 0
        <5>1. pages = <<>>  BY <1>2, <4>2
        <5> QED BY <1>2, <1>6, <3>1, <4>1, <4>2, <5>1
      <4>3. CASE N # 0
        <5>1. pages # <<>> /\ i # 1 /\ i - 1 = N /\ N \in 1..N  BY <1>5, <3>1, <4>3
        <5>2. pages'[i - 1] = pages[N]  BY <1>5, <5>1
        <5> QED BY <1>2, <1>6, <4>1, <5>1, <5>2
      <4> QED BY <4>2, <4>3
    <3>2. CASE i # N + 1
      <4>1. i \in 1..N  BY <1>5, <3>2
      <4>2. i # 1 => i - 1 \in 1..N  BY <1>5, <4>1
      <4>3. pages'[i] = pages[i] /\ (i # 1 => pages'[i - 1] = pages[i - 1])
        BY <1>5, <4>1, <4>2
      <4> QED BY <1>2, <4>1, <4>3 DEF FetchInv, PagesExplainCandles
    <3> QED BY <3>1, <3>2
  <2> QED BY <2>4, <2>5 DEF PagesExplainCandles
<1>13. WaitsBounded'  BY <1>2, FetchAssumption DEF WaitsBounded
<1> QED BY <1>9, <1>10, <1>11, <1>12, <1>13 DEF FetchInv

-----------------------------------------------------------------------------
(* The theorems.                                                           *)

\* Every step of a fetch preserves the invariant.
LEMMA FetchInvStep == FetchInv /\ [FetchNext]_fetchVars => FetchInv'
<1> SUFFICES ASSUME FetchInv, [FetchNext]_fetchVars PROVE FetchInv'  OBVIOUS
<1>1. CASE UNCHANGED fetchVars
  <2>1. UNCHANGED <<range, fetched>> /\ stage' = stage /\ attempt' = attempt /\ waited' = waited
    BY <1>1 DEF fetchVars
  <2>2. FetchTypeOK' /\ WaitsBounded'  BY <2>1 DEF FetchInv, FetchTypeOK, WaitsBounded, fetched
  <2> QED BY <2>1, <2>2, FetchedStays DEF FetchInv
<1> QED BY <1>1, ParseKeeps, UnavailableKeeps, RateLimitedKeeps, RefusedKeeps, PageKeeps,
           CoverageKeeps DEF FetchNext

\* The invariant holds of every reachable state.
LEMMA FetchInvHolds == FetchSpec => []FetchInv
BY FetchInvInit, FetchInvStep, PTL DEF FetchSpec

\* Every variable of a fetch keeps its type; in particular the attempts of a page
\* never exceed their limit.
THEOREM FetchTypeCorrect == FetchSpec => []FetchTypeOK
<1>1. FetchInv => FetchTypeOK  BY DEF FetchInv
<1> QED BY <1>1, FetchInvHolds, PTL

\* A fetch that succeeds has every candle of the range once, in order, and none
\* that was still forming, whatever the provider served.
THEOREM OnlyClosedHistory == FetchSpec => []ClosedHistoryOnly
<1>1. FetchInv => ClosedHistoryOnly
  <2> SUFFICES ASSUME FetchInv, stage = "done" PROVE ClosedHistoryOnly  BY DEF ClosedHistoryOnly
  <2>1. /\ Covered /\ RangeAccepted /\ collected \in Seq(OpenTimes)
        /\ range.start \in Nat /\ range.end \in Nat /\ range.now \in Nat
    BY DEF FetchInv, FetchTypeOK, CoverageWasAsserted, RangeWasAccepted, OpenTimes
  <2> DEFINE n == range.end - range.start
  <2>2. /\ Len(collected) = n
        /\ \A i \in 1..Len(collected) : collected[i] = range.start + i - 1
    BY <2>1 DEF Covered
  <2>3. collected = [i \in 1..n |-> range.start + i - 1]
    <3> HIDE DEF n
    <3>1. collected \in [1..n -> OpenTimes]  BY <2>1, <2>2
    <3> QED BY <2>2, <3>1
  <2>4. 2 * range.end <= range.now
    <3>1. range.end <= range.now \div 2  BY <2>1 DEF RangeAccepted, CurrentOpenBoundary
    <3> QED BY <2>1, <3>1
  <2>5. \A i \in 1..Len(collected) : 2 * (collected[i] + 1) <= range.now
    <3>1. \A i \in 1..n : range.start + i - 1 + 1 <= range.end  BY <2>1
    <3>2. \A i \in 1..n : 2 * (range.start + i - 1 + 1) <= range.now  BY <2>1, <2>4, <3>1
    <3> HIDE DEF n
    <3> QED BY <2>2, <3>2
  <2> QED BY <2>3, <2>5 DEF ClosedHistoryOnly
<1> QED BY <1>1, FetchInvHolds, PTL

\* The provenance always explains the candles, also of a fetch that fails.
THEOREM PagesAlwaysExplain == FetchSpec => []PagesExplainCandles
<1>1. FetchInv => PagesExplainCandles  BY DEF FetchInv
<1> QED BY <1>1, FetchInvHolds, PTL

\* A page never makes the fetch wait longer than its retries allow: the safety
\* part of FetchEnds.
THEOREM WaitsAlwaysBounded == FetchSpec => []WaitsBounded
<1>1. FetchInv => WaitsBounded  BY DEF FetchInv
<1> QED BY <1>1, FetchInvHolds, PTL

-----------------------------------------------------------------------------
(* Publication. *)

(***************************************************************************)
(* The inductive invariant.  PInv is what an import relies on at each of   *)
(* its steps: what it has published, what its transaction holds, and that  *)
(* its id and the name it inserted are its own.                            *)
(***************************************************************************)

Working == {"publish", "lookup", "insert_row", "insert_partition", "append_event", "commit"}
Registering == Working \ {"publish"}

Needed(r) == Range(r.pages) \cup {r.csv}

ArtifactsStored(p) ==
  /\ pc[p] # "idle" => job[p] \in Responses
  /\ pc[p] = "publish" => left[p] # <<>> /\ Needed(job[p]) \subseteq stored \cup Range(left[p])
  /\ pc[p] \in Registering => Needed(job[p]) \subseteq stored

MyPartition(p) == [id |-> MyRow(p).id, csv |-> job[p].csv]
MyEvent(p) == [entity |-> MyRow(p).id, manifest |-> job[p]]

TransactionHolds(p) ==
  /\ pc[p] \in {"idle", "publish", "lookup", "insert_row", "committed"} => tx[p] = NoInserts
  /\ pc[p] = "insert_partition" =>
       tx[p] = [row |-> MyRow(p), partitions |-> {}, events |-> {}]
  /\ pc[p] = "append_event" =>
       tx[p] = [row |-> MyRow(p), partitions |-> {MyPartition(p)}, events |-> {}]
  /\ pc[p] = "commit" =>
       tx[p] = [row |-> MyRow(p), partitions |-> {MyPartition(p)}, events |-> {MyEvent(p)}]
  /\ tx[p].row \in {None, MyRow(p)}

\* The index entry keeps every other insert of the name out.
OwnsName(p) ==
  tx[p].row # None =>
    /\ rows[MyName(p)] = None
    /\ \A q \in Procs \ {p} : tx[q].row # None => MyName(q) # MyName(p)

\* No committed row has the id that a commit of p would use.
IdIsFresh(p) ==
  \A n \in Names : rows[n] # None /\ rows[n].id[1] = p =>
    /\ rows[n].id[2] <= calls[p]
    /\ pc[p] \in Working => rows[n].id[2] # calls[p]

AnswerTrue(p) ==
  /\ pc[p] = "committed" => rows[MyName(p)] = MyRow(p)
  /\ job[p] # None => LET row == rows[MyName(p)] IN
       /\ answer[p] = "created" => row = MyRow(p)
       /\ answer[p] \in {"existing", "duplicate", "unique_violation"} =>
            row # None /\ row.id # <<p, calls[p]>>
       /\ answer[p] = "existing" => SameManifest(row, job[p])
       /\ answer[p] = "duplicate" => ~SameManifest(row, job[p])

PInv(p) ==
  /\ ArtifactsStored(p)
  /\ TransactionHolds(p)
  /\ OwnsName(p)
  /\ IdIsFresh(p)
  /\ AnswerTrue(p)

IInv ==
  /\ TypeOK
  /\ SnapshotsComplete
  /\ NoPhantoms
  /\ \A p \in Procs : PInv(p)
-----------------------------------------------------------------------------
(* Sequences of artifacts still to publish.                                *)

\* Appending adds one element to the range.
LEMMA RangeAppend ==
  ASSUME NEW S, NEW s \in Seq(S), NEW e \in S
  PROVE  /\ Append(s, e) \in Seq(S) /\ Append(s, e) # <<>>
         /\ Range(Append(s, e)) = Range(s) \cup {e}
<1> DEFINE t == Append(s, e)
<1>1. t \in Seq(S) /\ Len(t) = Len(s) + 1 /\ DOMAIN t = 1..(Len(s) + 1)
      /\ DOMAIN s = 1..Len(s) /\ Len(s) \in Nat
  OBVIOUS
<1>2. /\ \A i \in 1..Len(s) : t[i] = s[i]
      /\ t[Len(s) + 1] = e
  OBVIOUS
<1>3. Range(t) \subseteq Range(s) \cup {e}
  BY <1>1, <1>2 DEF Range
<1>4. Range(s) \cup {e} \subseteq Range(t)
  BY <1>1, <1>2 DEF Range
<1> QED BY <1>1, <1>3, <1>4

\* A sequence is its head and its tail.
LEMMA RangeHeadTail ==
  ASSUME NEW S, NEW s \in Seq(S), s # <<>>
  PROVE  /\ Head(s) \in S /\ Tail(s) \in Seq(S)
         /\ Range(s) = {Head(s)} \cup Range(Tail(s))
         /\ Len(s) = 1 => Range(Tail(s)) = {}
         /\ Len(s) # 1 => Tail(s) # <<>>
<1> DEFINE t == Tail(s)
<1>1. /\ t \in Seq(S) /\ Len(t) = Len(s) - 1 /\ DOMAIN t = 1..(Len(s) - 1)
      /\ DOMAIN s = 1..Len(s) /\ Len(s) \in Nat \ {0} /\ s[1] = Head(s) /\ Head(s) \in S
  OBVIOUS
<1>2. \A i \in 1..(Len(s) - 1) : t[i] = s[i + 1]
  OBVIOUS
<1>3. Range(s) \subseteq {Head(s)} \cup Range(t)
  <2> SUFFICES ASSUME NEW i \in 1..Len(s), i # 1 PROVE s[i] \in Range(t)
    BY <1>1 DEF Range
  <2>1. i - 1 \in 1..(Len(s) - 1) /\ t[i - 1] = s[i]
    BY <1>1, <1>2
  <2> QED BY <1>1, <2>1 DEF Range
<1>4. {Head(s)} \cup Range(t) \subseteq Range(s)
  BY <1>1, <1>2 DEF Range
<1>5. Len(s) = 1 => Range(t) = {}
  BY <1>1 DEF Range
<1>6. Len(s) # 1 => t # <<>>
  BY <1>1
<1> QED BY <1>1, <1>3, <1>4, <1>5, <1>6
-----------------------------------------------------------------------------
(* Type correctness.                                                       *)

ProcessStep(p) == (\E r \in Responses : Fetched(p, r)) \/ Step(p) \/ StepFails(p) \/ Crash(p)

Labels == {"idle", "publish", "lookup", "insert_row", "insert_partition",
           "append_event", "commit", "committed", "dead"}
Answers == {"none", "created", "existing", "duplicate", "unique_violation", "error"}

\* What the type invariant says of one process.
LEMMA TypedParts ==
  ASSUME TypeOK, NEW p \in Procs
  PROVE  /\ pc[p] \in Labels /\ answer[p] \in Answers
         /\ calls[p] \in 0..MaxCalls /\ left[p] \in Seq(Artifacts)
         /\ job[p] \in Responses \cup {None}
         /\ tx[p].row \in Row \cup {None}
         /\ job[p] \in Responses =>
              /\ MyName(p) \in Names /\ MyRow(p) \in Row /\ MyRow(p) # None
              /\ MyRow(p).id = <<p, calls[p]>> /\ MyRow(p).doc = job[p]
              /\ job[p].csv \in Artifacts /\ job[p].pages \in Seq(Artifacts)
              /\ MyPartition(p) \in Partition /\ MyEvent(p) \in Event
<1>1. ASSUME job[p] \in Responses
      PROVE  job[p].name \in Names /\ job[p].csv \in Artifacts /\ job[p].pages \in Seq(Artifacts)
  BY <1>1, PublicationAssumption
<1>2. calls[p] \in 0..MaxCalls  BY DEF TypeOK
<1>3. <<p, calls[p]>> \in Ids  BY <1>2 DEF Ids
<1>4. ASSUME job[p] \in Responses
      PROVE  MyRow(p) \in Row /\ MyRow(p) # None
  BY <1>3, <1>4, NoneAssumption DEF MyRow, Row
<1>5. MyRow(p).id = <<p, calls[p]>> /\ MyRow(p).doc = job[p]  BY DEF MyRow
<1>6. ASSUME job[p] \in Responses
      PROVE  MyPartition(p) \in Partition /\ MyEvent(p) \in Event
  BY <1>1, <1>3, <1>5, <1>6 DEF MyPartition, MyEvent, Partition, Event
<1>7. job[p] \in Responses => MyName(p) \in Names  BY <1>1 DEF MyName
<1> QED BY <1>1, <1>2, <1>4, <1>5, <1>6, <1>7 DEF TypeOK, Labels, Answers

\* An empty registry is well typed.
LEMMA InitTyped == Init => TypeOK
BY PublicationAssumption DEF Init, TypeOK, NoInserts

\* Every step of a process that holds its own part of the invariant.
LEMMA StepTyped ==
  ASSUME TypeOK, NEW p \in Procs, PInv(p), ProcessStep(p)
  PROVE  TypeOK'
<1>p. /\ pc[p] # "idle" => job[p] \in Responses
      /\ pc[p] = "publish" => left[p] # <<>>
      /\ pc[p] = "insert_partition" => tx[p].row = MyRow(p)
      /\ pc[p] = "append_event" => tx[p].row = MyRow(p)
  BY DEF PInv, ArtifactsStored, TransactionHolds
<1> DEFINE Tx == [row : Row \cup {None}, partitions : SUBSET Partition, events : SUBSET Event]
<1>t. /\ tx \in [Procs -> Tx] /\ tx[p] \in Tx
      /\ tx[p].row \in Row \cup {None} /\ tx[p].partitions \in SUBSET Partition
      /\ tx[p].events \in SUBSET Event
  BY DEF TypeOK
<1> USE TypedParts, PublicationAssumption
<1>1. ASSUME NEW r \in Responses, Fetched(p, r) PROVE TypeOK'
  <2>1. Append(r.pages, r.csv) \in Seq(Artifacts)
    BY PublicationAssumption, RangeAppend
  <2>2. calls[p] + 1 \in 0..MaxCalls  BY <1>1 DEF Fetched
  <2> QED BY <1>1, <2>1, <2>2 DEF Fetched, Goto, TypeOK, tables
<1>2. CASE PublishArtifact(p)
  <2>1. Head(left[p]) \in Artifacts /\ Tail(left[p]) \in Seq(Artifacts)
    BY <1>2, <1>p, RangeHeadTail DEF PublishArtifact
  <2> QED BY <1>2, <2>1 DEF PublishArtifact, Goto, TypeOK, tables
<1>3. CASE Lookup(p)  BY <1>3 DEF Lookup, Goto, Answer, TypeOK, tables
<1>4. CASE InsertRow(p)
  <2>1. MyRow(p) \in Row  BY <1>4, <1>p DEF InsertRow
  <2>2. [tx[p] EXCEPT !.row = MyRow(p)] \in Tx  BY <1>t, <2>1
  <2>3. tx' \in [Procs -> Tx]  BY <1>4, <1>t, <2>2 DEF InsertRow
  <2> QED BY <1>4, <2>3 DEF InsertRow, Goto, Answer, TypeOK, tables
<1>5. CASE InsertPartition(p)
  <2>1. [id |-> tx[p].row.id, csv |-> job[p].csv] \in Partition
    BY <1>5, <1>p DEF InsertPartition, MyPartition
  <2>2. [tx[p] EXCEPT !.partitions = {[id |-> tx[p].row.id, csv |-> job[p].csv]}] \in Tx
    BY <1>t, <2>1
  <2>3. tx' \in [Procs -> Tx]  BY <1>5, <1>t, <2>2 DEF InsertPartition
  <2> QED BY <1>5, <2>3 DEF InsertPartition, Goto, TypeOK, tables
<1>6. CASE AppendEvent(p)
  <2>1. PublishedEvent(p) \in Event
    BY <1>6, <1>p DEF AppendEvent, MyEvent, PublishedEvent
  <2>2. [tx[p] EXCEPT !.events = {PublishedEvent(p)}] \in Tx  BY <1>t, <2>1
  <2>3. tx' \in [Procs -> Tx]  BY <1>6, <1>t, <2>2 DEF AppendEvent
  <2> QED BY <1>6, <2>3 DEF AppendEvent, Goto, TypeOK, tables
<1>7. CASE Commit(p)
  <2>1. MyName(p) \in Names  BY <1>7, <1>p DEF Commit
  <2> QED BY <1>7, <2>1 DEF Commit, Goto, EndTransaction, NoInserts, TypeOK, tables
<1>8. CASE ReturnCreated(p)  BY <1>8 DEF ReturnCreated, Goto, Answer, TypeOK, tables
<1>9. CASE ServerAborts(p)
  BY <1>9 DEF ServerAborts, Goto, EndTransaction, NoInserts, TypeOK, tables
<1>10. CASE StepFails(p)
  BY <1>10 DEF StepFails, Fault, Goto, Answer, EndTransaction, NoInserts, TypeOK, tables
<1>11. CASE Crash(p)  BY <1>11 DEF Crash, Fault, Goto, TypeOK, tables
<1> QED BY <1>1, <1>2, <1>3, <1>4, <1>5, <1>6, <1>7, <1>8, <1>9, <1>10, <1>11
        DEF ProcessStep, Step
-----------------------------------------------------------------------------
(* What a step leaves alone.                                               *)

\* A step of one process changes no other's variables, and takes no artifact
\* out of the store.
LEMMA OthersStay ==
  ASSUME TypeOK, NEW p \in Procs, ProcessStep(p)
  PROVE  /\ stored \subseteq stored'
         /\ \A q \in Procs \ {p} :
              /\ pc'[q] = pc[q] /\ job'[q] = job[q] /\ left'[q] = left[q]
              /\ calls'[q] = calls[q] /\ answer'[q] = answer[q] /\ tx'[q] = tx[q]
<1>1. ASSUME NEW r \in Responses, Fetched(p, r)
      PROVE  /\ stored \subseteq stored'
             /\ \A q \in Procs \ {p} :
                  /\ pc'[q] = pc[q] /\ job'[q] = job[q] /\ left'[q] = left[q]
                  /\ calls'[q] = calls[q] /\ answer'[q] = answer[q] /\ tx'[q] = tx[q]
  BY <1>1 DEF Fetched, Goto, TypeOK
<1>2. CASE StepFails(p)
  BY <1>2 DEF StepFails, Answer, EndTransaction, Goto, TypeOK
<1>3. CASE Crash(p)  BY <1>3 DEF Crash, Goto, TypeOK
<1>4. CASE Step(p)
  BY <1>4 DEF Step, PublishArtifact, Lookup, InsertRow, InsertPartition, AppendEvent, Commit,
     ReturnCreated, ServerAborts, Answer, EndTransaction, Goto, TypeOK
<1> QED BY <1>1, <1>2, <1>3, <1>4 DEF ProcessStep

\* Only a commit changes the tables.
LEMMA OnlyCommitShows ==
  ASSUME NEW p \in Procs, ProcessStep(p)
  PROVE  Commit(p) \/ UNCHANGED tables
BY DEF ProcessStep, Step, Fetched, PublishArtifact, Lookup, InsertRow, InsertPartition,
   AppendEvent, ReturnCreated, ServerAborts, StepFails, Crash

\* A commit adds one snapshot, under a name nobody has, and what belongs to it.
LEMMA CommitAdds ==
  ASSUME TypeOK, NEW p \in Procs, PInv(p), Commit(p)
  PROVE  /\ job[p] \in Responses /\ MyName(p) \in Names
         /\ tx[p].row = MyRow(p) /\ MyRow(p) # None
         /\ rows[MyName(p)] = None
         /\ rows' = [rows EXCEPT ![MyName(p)] = MyRow(p)]
         /\ partitions' = partitions \cup {MyPartition(p)}
         /\ events' = events \cup {MyEvent(p)}
         /\ Needed(job[p]) \subseteq stored /\ stored' = stored
<1>1. pc[p] = "commit"  BY DEF Commit
<1>2. job[p] \in Responses /\ Needed(job[p]) \subseteq stored
  BY <1>1 DEF PInv, ArtifactsStored, Registering, Working
<1>3. tx[p] = [row |-> MyRow(p), partitions |-> {MyPartition(p)}, events |-> {MyEvent(p)}]
  BY <1>1 DEF PInv, TransactionHolds
<1>4. MyName(p) \in Names /\ MyRow(p) # None  BY <1>2, TypedParts
<1>5. rows[MyName(p)] = None  BY <1>3, <1>4 DEF PInv, OwnsName
<1> QED BY <1>2, <1>3, <1>4, <1>5 DEF Commit

\* A published row stays as it is.
LEMMA RowsStay ==
  ASSUME TypeOK, NEW p \in Procs, PInv(p), ProcessStep(p),
         NEW n \in Names, rows[n] # None
  PROVE  rows'[n] = rows[n]
<1>1. CASE UNCHANGED tables  BY <1>1 DEF tables
<1>2. CASE Commit(p)  BY <1>2, CommitAdds DEF TypeOK
<1> QED BY <1>1, <1>2, OnlyCommitShows
-----------------------------------------------------------------------------
(* A step keeps what the other processes rely on.                          *)

\* Another import's step leaves this one its transaction, its name and its id.
LEMMA OthersKeepPInv ==
  ASSUME IInv, NEW p \in Procs, ProcessStep(p), NEW q \in Procs \ {p}
  PROVE  PInv(q)'
<1>i. TypeOK /\ PInv(p) /\ PInv(q)  BY DEF IInv
<1>s. /\ stored \subseteq stored'
      /\ pc'[q] = pc[q] /\ job'[q] = job[q] /\ left'[q] = left[q]
      /\ calls'[q] = calls[q] /\ answer'[q] = answer[q] /\ tx'[q] = tx[q]
  BY <1>i, OthersStay
<1>m. /\ MyRow(q)' = MyRow(q) /\ MyName(q)' = MyName(q)
      /\ MyPartition(q)' = MyPartition(q) /\ MyEvent(q)' = MyEvent(q)
  BY <1>s DEF MyRow, MyName, MyPartition, MyEvent
<1>n. job[q] # None => MyName(q) \in Names  BY <1>i, TypedParts
<1>r. \A n \in Names : rows[n] # None => rows'[n] = rows[n]  BY <1>i, RowsStay
<1>1. ArtifactsStored(q)'
  BY <1>i, <1>s DEF PInv, ArtifactsStored, Needed
<1>2. TransactionHolds(q)'
  BY <1>i, <1>s, <1>m DEF PInv, TransactionHolds, NoInserts
<1>3. OwnsName(q)'
  <2> SUFFICES ASSUME tx[q].row # None
               PROVE  /\ rows'[MyName(q)] = None
                      /\ \A r \in Procs \ {q} : tx'[r].row # None => MyName(q) # MyName(r)'
    BY <1>s, <1>m DEF OwnsName
  <2>1. /\ rows[MyName(q)] = None
        /\ \A r \in Procs \ {q} : tx[r].row # None => MyName(q) # MyName(r)
    BY <1>i DEF PInv, OwnsName
  <2>2. pc[q] # "idle" /\ job[q] \in Responses /\ tx[q].row = MyRow(q) /\ MyName(q) \in Names
    <3>1. pc[q] # "idle" /\ tx[q].row = MyRow(q)
      BY <1>i DEF PInv, TransactionHolds, NoInserts
    <3> QED BY <3>1, <1>i, TypedParts DEF PInv, ArtifactsStored
  <2>3. rows'[MyName(q)] = None
    <3>1. CASE Commit(p)
      <4>1. MyName(q) # MyName(p)  BY <1>i, <2>1, <3>1, CommitAdds
      <4> QED BY <1>i, <2>1, <2>2, <3>1, <4>1, CommitAdds DEF TypeOK
    <3>2. CASE UNCHANGED tables  BY <2>1, <3>2 DEF tables
    <3> QED BY <3>1, <3>2, OnlyCommitShows
  <2>4. ASSUME NEW r \in Procs \ {q}, tx'[r].row # None
        PROVE  MyName(q) # MyName(r)'
    <3>1. CASE r # p
      <4>1. tx'[r] = tx[r] /\ job'[r] = job[r]  BY <1>i, <3>1, OthersStay
      <4> QED BY <2>1, <2>4, <4>1 DEF MyName
    <3>2. CASE r = p /\ tx[p].row # None /\ job'[p] = job[p]
      BY <2>1, <2>4, <3>2 DEF MyName
    <3>3. CASE r = p /\ InsertRow(p)
      <4>1. ~Blocked(p) /\ job'[p] = job[p]  BY <3>3 DEF InsertRow
      <4>2. tx[q].row.doc.name = MyName(q)  BY <2>2 DEF MyRow, MyName
      <4> QED BY <3>3, <4>1, <4>2 DEF Blocked, MyName
    <3>4. r = p => InsertRow(p) \/ (tx[p].row # None /\ job'[p] = job[p])
      <4> SUFFICES ASSUME r = p, ~InsertRow(p) PROVE tx[p].row # None /\ job'[p] = job[p]
        OBVIOUS
      <4>1. tx'[p].row # None  BY <2>4
      <4>2. tx[p].row # None /\ ~\E x \in Responses : Fetched(p, x)
        <5>1. CASE \E x \in Responses : Fetched(p, x)
          <6>1. tx'[p] = NoInserts  BY <5>1, <1>i DEF Fetched, PInv, TransactionHolds
          <6> QED BY <4>1, <6>1 DEF NoInserts
        <5>2. CASE StepFails(p)
          BY <4>1, <5>2, <1>i DEF StepFails, EndTransaction, NoInserts, TypeOK
        <5>3. CASE Crash(p) \/ PublishArtifact(p) \/ Lookup(p) \/ ReturnCreated(p)
          <6>1. UNCHANGED tx
            BY <5>3 DEF Crash, PublishArtifact, Lookup, ReturnCreated
          <6>2. ~\E x \in Responses : Fetched(p, x)
            BY <5>3 DEF Crash, PublishArtifact, Lookup, ReturnCreated, Fetched
          <6> QED BY <4>1, <6>1, <6>2
        <5>4. CASE InsertPartition(p) \/ AppendEvent(p)
          <6>1. pc[p] \in {"insert_partition", "append_event"}
            BY <5>4 DEF InsertPartition, AppendEvent
          <6>2. job[p] \in Responses
            BY <6>1, <1>i DEF PInv, ArtifactsStored
          <6>3. tx[p].row = MyRow(p) /\ MyRow(p) # None
            BY <6>1, <6>2, <1>i, TypedParts DEF PInv, TransactionHolds
          <6> QED BY <6>1, <6>3 DEF Fetched
        <5>5. CASE Commit(p) \/ ServerAborts(p)
          BY <4>1, <5>5, <1>i DEF Commit, ServerAborts, EndTransaction, NoInserts, TypeOK
        <5> QED BY <5>1, <5>2, <5>3, <5>4, <5>5 DEF ProcessStep, Step
      <4>3. job'[p] = job[p]
        BY <4>2 DEF ProcessStep, Step, PublishArtifact, Lookup, InsertRow, InsertPartition,
           AppendEvent, Commit, ReturnCreated, ServerAborts, StepFails, Crash
      <4> QED BY <4>2, <4>3
    <3> QED BY <3>1, <3>2, <3>3, <3>4
  <2> QED BY <2>3, <2>4
<1>4. IdIsFresh(q)'
  <2>1. CASE UNCHANGED tables
    BY <2>1, <1>i, <1>s DEF PInv, IdIsFresh, tables
  <2>2. CASE Commit(p)
    <3> SUFFICES ASSUME NEW n \in Names, rows'[n] # None, rows'[n].id[1] = q
                 PROVE  /\ rows'[n].id[2] <= calls[q]
                        /\ pc[q] \in Working => rows'[n].id[2] # calls[q]
      BY <1>s DEF IdIsFresh
    <3>1. n # MyName(p)
      <4>1. MyRow(p).id[1] = p  BY DEF MyRow
      <4> QED BY <4>1, <2>2, <1>i, CommitAdds DEF TypeOK
    <3>2. rows'[n] = rows[n]  BY <2>2, <3>1, <1>i, CommitAdds DEF TypeOK
    <3> QED BY <3>2, <1>i DEF PInv, IdIsFresh
  <2> QED BY <2>1, <2>2, OnlyCommitShows
<1>5. AnswerTrue(q)'
  <2>1. job[q] # None /\ rows[MyName(q)] # None
          => rows'[MyName(q)] = rows[MyName(q)]
    BY <1>n, <1>r
  <2>2. pc[q] = "committed" => job[q] # None
    BY <1>i, PublicationAssumption DEF PInv, ArtifactsStored
  <2>3. job[q] # None => MyRow(q) # None
    BY <1>i, TypedParts
  <2> QED BY <2>1, <2>2, <2>3, <1>s, <1>m, <1>i DEF PInv, AnswerTrue, SameManifest
<1> QED BY <1>1, <1>2, <1>3, <1>4, <1>5 DEF PInv
-----------------------------------------------------------------------------
(* A step establishes what its own process relies on next.                 *)

\* Until it ends, an import has stored what it has passed, and nothing else is
\* left to store.
LEMMA ArtifactsStoredKept ==
  ASSUME TypeOK, NEW p \in Procs, PInv(p), ProcessStep(p)
  PROVE  ArtifactsStored(p)'
<1>i. ArtifactsStored(p) /\ pc[p] \in Labels  BY TypedParts DEF PInv
<1>s. stored \subseteq stored'  BY OthersStay
<1>1. ASSUME NEW r \in Responses, Fetched(p, r) PROVE ArtifactsStored(p)'
  <2>1. pc'[p] = "publish" /\ job'[p] = r /\ left'[p] = Append(r.pages, r.csv)
    BY <1>1 DEF Fetched, Goto, TypeOK
  <2>2. left'[p] # <<>> /\ Range(left'[p]) = Needed(r)
    BY <2>1, RangeAppend, PublicationAssumption DEF Needed
  <2> QED BY <2>1, <2>2 DEF ArtifactsStored, Registering, Working
<1>2. CASE PublishArtifact(p)
  <2> DEFINE l == left[p]
  <2>1. /\ pc[p] = "publish" /\ job[p] \in Responses /\ l # <<>>
        /\ Needed(job[p]) \subseteq stored \cup Range(l)
    BY <1>2, <1>i DEF PublishArtifact, ArtifactsStored
  <2>2. l \in Seq(Artifacts)  BY TypedParts
  <2>3. /\ Range(l) = {Head(l)} \cup Range(Tail(l))
        /\ Len(l) = 1 => Range(Tail(l)) = {}
        /\ Len(l) # 1 => Tail(l) # <<>>
    BY <2>1, <2>2, RangeHeadTail
  <2>4. /\ stored' = stored \cup {Head(l)} /\ left'[p] = Tail(l) /\ job'[p] = job[p]
        /\ pc'[p] = IF Len(l) = 1 THEN "lookup" ELSE "publish"
    BY <1>2 DEF PublishArtifact, Goto, TypeOK
  <2> QED BY <2>1, <2>3, <2>4 DEF ArtifactsStored, Registering, Working
<1>3. CASE /\ pc'[p] \notin {"publish"} \cup Registering
           /\ pc'[p] = "idle" \/ (pc[p] # "idle" /\ job'[p] = job[p])
  BY <1>3, <1>i DEF ArtifactsStored, Registering, Working
<1>4. CASE pc[p] \in Registering /\ pc'[p] # "publish" /\ job'[p] = job[p]
  BY <1>4, <1>i, <1>s DEF ArtifactsStored, Registering, Working
<1>5. CASE Lookup(p) \/ InsertRow(p) \/ InsertPartition(p) \/ AppendEvent(p)
  <2>1. pc[p] \in Registering /\ pc'[p] # "publish" /\ job'[p] = job[p]
    BY <1>5 DEF Lookup, InsertRow, InsertPartition, AppendEvent, Answer, Goto, TypeOK,
       Registering, Working
  <2> QED BY <2>1, <1>4
<1>6. CASE Commit(p) \/ ReturnCreated(p) \/ ServerAborts(p) \/ StepFails(p) \/ Crash(p)
  <2>1. /\ pc'[p] \notin {"publish"} \cup Registering
        /\ pc'[p] = "idle" \/ (pc[p] # "idle" /\ job'[p] = job[p])
    BY <1>6 DEF Commit, ReturnCreated, ServerAborts, StepFails, Crash, Answer, Goto, TypeOK,
       Registering, Working
  <2> QED BY <2>1, <1>3
<1> QED BY <1>1, <1>2, <1>5, <1>6 DEF ProcessStep, Step

\* The transaction holds what its steps have flushed and nothing else.
LEMMA TransactionHoldsKept ==
  ASSUME TypeOK, NEW p \in Procs, PInv(p), ProcessStep(p)
  PROVE  TransactionHolds(p)'
<1>i. TransactionHolds(p) /\ pc[p] \in Labels  BY TypedParts DEF PInv
<1>t. tx \in [Procs -> [row : Row \cup {None}, partitions : SUBSET Partition,
                        events : SUBSET Event]]
  BY DEF TypeOK
<1>0. CASE tx'[p] = NoInserts /\ pc'[p] \notin {"insert_partition", "append_event", "commit"}
  BY <1>0 DEF TransactionHolds, NoInserts
<1>1. CASE \/ \E r \in Responses : Fetched(p, r)
           \/ PublishArtifact(p) \/ Lookup(p) \/ ReturnCreated(p)
  <2>1. pc[p] \in {"idle", "publish", "lookup", "committed"} /\ UNCHANGED tx
    BY <1>1 DEF Fetched, PublishArtifact, Lookup, ReturnCreated
  <2>2. pc'[p] \notin {"insert_partition", "append_event", "commit"}
    BY <1>1 DEF Fetched, PublishArtifact, Lookup, ReturnCreated, Answer, Goto, TypeOK
  <2> QED BY <1>0, <1>i, <2>1, <2>2 DEF TransactionHolds
<1>2. CASE Commit(p) \/ StepFails(p) \/ ServerAborts(p)
  <2>1. tx'[p] = NoInserts
    BY <1>2, <1>t DEF Commit, StepFails, ServerAborts, EndTransaction
  <2>2. pc'[p] \in {"committed", "idle"}
    BY <1>2 DEF Commit, StepFails, ServerAborts, Answer, Goto, TypeOK
  <2> QED BY <1>0, <2>1, <2>2
<1>3. CASE Crash(p)
  <2>1. pc'[p] = "dead" /\ tx'[p] = tx[p] /\ MyRow(p)' = MyRow(p)
    BY <1>3 DEF Crash, Goto, TypeOK, MyRow
  <2> QED BY <1>i, <2>1 DEF TransactionHolds
<1>4. CASE InsertRow(p)
  <2>1. pc[p] = "insert_row" /\ tx[p] = NoInserts /\ MyRow(p)' = MyRow(p)
    BY <1>4, <1>i DEF InsertRow, TransactionHolds, MyRow
  <2>2. CASE rows[MyName(p)] = None
    <3>1. pc'[p] = "insert_partition" /\ tx' = [tx EXCEPT ![p].row = MyRow(p)]
      BY <1>4, <2>2 DEF InsertRow, Goto, TypeOK
    <3>2. tx'[p] = [tx[p] EXCEPT !.row = MyRow(p)]  BY <1>t, <3>1
    <3>3. tx'[p] = [row |-> MyRow(p), partitions |-> {}, events |-> {}]
      BY <2>1, <3>2 DEF NoInserts
    <3> QED BY <2>1, <3>1, <3>3 DEF TransactionHolds
  <2>3. CASE rows[MyName(p)] # None
    <3>1. pc'[p] = "idle" /\ tx'[p] = tx[p]
      BY <1>4, <2>3 DEF InsertRow, Answer, Goto, TypeOK
    <3> QED BY <1>0, <2>1, <3>1
  <2> QED BY <2>2, <2>3
<1>5. CASE InsertPartition(p)
  <2>1. /\ tx[p] = [row |-> MyRow(p), partitions |-> {}, events |-> {}]
        /\ MyRow(p)' = MyRow(p) /\ MyPartition(p)' = MyPartition(p)
    BY <1>5, <1>i DEF InsertPartition, TransactionHolds, MyRow, MyPartition
  <2>2. /\ pc'[p] = "append_event"
        /\ tx' = [tx EXCEPT ![p].partitions = {MyPartition(p)}]
    BY <1>5, <2>1 DEF InsertPartition, Goto, TypeOK, MyPartition
  <2>3. tx'[p] = [tx[p] EXCEPT !.partitions = {MyPartition(p)}]  BY <1>t, <2>2
  <2>4. tx'[p] = [row |-> MyRow(p), partitions |-> {MyPartition(p)}, events |-> {}]
    BY <2>1, <2>3
  <2> QED BY <2>1, <2>2, <2>4 DEF TransactionHolds
<1>6. CASE AppendEvent(p)
  <2>1. /\ tx[p] = [row |-> MyRow(p), partitions |-> {MyPartition(p)}, events |-> {}]
        /\ MyRow(p)' = MyRow(p) /\ MyPartition(p)' = MyPartition(p) /\ MyEvent(p)' = MyEvent(p)
    BY <1>6, <1>i DEF AppendEvent, TransactionHolds, MyRow, MyPartition, MyEvent
  <2>2. /\ pc'[p] = "commit"
        /\ tx' = [tx EXCEPT ![p].events = {MyEvent(p)}]
    BY <1>6, <2>1 DEF AppendEvent, PublishedEvent, Goto, TypeOK, MyEvent
  <2>3. tx'[p] = [tx[p] EXCEPT !.events = {MyEvent(p)}]  BY <1>t, <2>2
  <2>4. tx'[p] = [row |-> MyRow(p), partitions |-> {MyPartition(p)}, events |-> {MyEvent(p)}]
    BY <2>1, <2>3
  <2> QED BY <2>1, <2>2, <2>4 DEF TransactionHolds
<1> QED BY <1>1, <1>2, <1>3, <1>4, <1>5, <1>6 DEF ProcessStep, Step

\* The first insert finds the name free, and nobody can take it before the
\* transaction ends.
LEMMA OwnsNameKept ==
  ASSUME IInv, NEW p \in Procs, ProcessStep(p)
  PROVE  OwnsName(p)'
<1>i. TypeOK /\ PInv(p) /\ pc[p] \in Labels  BY TypedParts DEF IInv
<1>q. ASSUME NEW q \in Procs \ {p}, tx'[q].row # None
      PROVE  /\ tx[q].row # None /\ MyName(q)' = MyName(q)
             /\ tx[q].row.doc.name = MyName(q)
  <2>1. tx'[q] = tx[q] /\ job'[q] = job[q]  BY <1>i, OthersStay
  <2>2. tx[q].row = MyRow(q)  BY <1>q, <2>1 DEF IInv, PInv, TransactionHolds
  <2> QED BY <1>q, <2>1, <2>2 DEF MyName, MyRow
<1>0. CASE tx'[p] = NoInserts  BY <1>0 DEF OwnsName, NoInserts
<1>1. CASE \/ \E r \in Responses : Fetched(p, r)
           \/ PublishArtifact(p) \/ Lookup(p) \/ ReturnCreated(p)
  <2>1. pc[p] \in {"idle", "publish", "lookup", "committed"} /\ UNCHANGED tx
    BY <1>1 DEF Fetched, PublishArtifact, Lookup, ReturnCreated
  <2> QED BY <1>0, <1>i, <2>1 DEF PInv, TransactionHolds
<1>2. CASE Commit(p) \/ StepFails(p) \/ ServerAborts(p)
  BY <1>0, <1>2, <1>i DEF Commit, StepFails, ServerAborts, EndTransaction, TypeOK
<1>3. CASE InsertRow(p) /\ rows[MyName(p)] = None
  <2>1. ~Blocked(p) /\ MyName(p)' = MyName(p) /\ UNCHANGED rows
    BY <1>3 DEF InsertRow, MyName, tables
  <2> QED BY <1>3, <1>q, <2>1 DEF OwnsName, Blocked
<1>4. CASE InsertRow(p) /\ rows[MyName(p)] # None
  <2>1. tx'[p] = NoInserts
    BY <1>4, <1>i DEF InsertRow, PInv, TransactionHolds
  <2> QED BY <1>0, <2>1
<1>5. CASE InsertPartition(p) \/ AppendEvent(p) \/ Crash(p)
  <2>1. tx'[p].row = tx[p].row /\ MyName(p)' = MyName(p) /\ UNCHANGED rows
    BY <1>5, <1>i DEF InsertPartition, AppendEvent, Crash, MyName, tables, TypeOK
  <2> QED BY <1>q, <1>i, <2>1 DEF OwnsName, PInv
<1> QED BY <1>1, <1>2, <1>3, <1>4, <1>5 DEF ProcessStep, Step

\* A new call draws an id that no row has, and only its own commit uses it.
LEMMA IdIsFreshKept ==
  ASSUME TypeOK, NEW p \in Procs, PInv(p), ProcessStep(p)
  PROVE  IdIsFresh(p)'
<1>i. IdIsFresh(p) /\ pc[p] \in Labels  BY TypedParts DEF PInv
<1>n. \A n \in Names : rows[n] # None => rows[n].id[2] \in Nat
  BY DEF TypeOK, Row, Ids
<1>c. calls[p] \in Nat  BY DEF TypeOK
<1>1. CASE \E r \in Responses : Fetched(p, r)
  <2>1. calls'[p] = calls[p] + 1 /\ UNCHANGED rows
    BY <1>1 DEF Fetched, tables, TypeOK
  <2> QED BY <1>i, <1>n, <1>c, <2>1 DEF IdIsFresh
<1>2. CASE Commit(p)
  <2>1. pc'[p] = "committed" /\ calls'[p] = calls[p]  BY <1>2 DEF Commit, Goto, TypeOK
  <2>2. ASSUME NEW n \in Names, rows'[n] # None, rows'[n].id[1] = p
        PROVE  rows'[n].id[2] <= calls[p]
    <3>1. CASE n = MyName(p)
      <4>1. rows'[n] = MyRow(p)  BY <1>2, <3>1, CommitAdds DEF TypeOK
      <4>2. rows'[n].id[2] = calls[p]  BY <4>1 DEF MyRow
      <4> QED BY <4>2, <1>c
    <3>2. CASE n # MyName(p)
      <4>1. rows'[n] = rows[n]  BY <1>2, <3>2, CommitAdds DEF TypeOK
      <4> QED BY <1>i, <2>2, <4>1 DEF IdIsFresh
    <3> QED BY <3>1, <3>2
  <2> QED BY <2>1, <2>2 DEF IdIsFresh, Working
<1>3. CASE /\ ~Commit(p)
           /\ ~\E r \in Responses : Fetched(p, r)
  <2>1. UNCHANGED rows  BY <1>3, OnlyCommitShows DEF tables
  <2>2. calls'[p] = calls[p] /\ (pc'[p] \in Working => pc[p] \in Working)
    BY <1>3 DEF ProcessStep, Step, PublishArtifact, Lookup, InsertRow, InsertPartition,
       AppendEvent, ReturnCreated, ServerAborts, StepFails, Crash, Answer, Goto, TypeOK,
       Working
  <2> QED BY <1>i, <2>1, <2>2 DEF IdIsFresh
<1> QED BY <1>1, <1>2, <1>3

\* An answer is read off a row that is there to stay.
LEMMA AnswerTrueKept ==
  ASSUME TypeOK, NEW p \in Procs, PInv(p), ProcessStep(p)
  PROVE  AnswerTrue(p)'
<1>i. /\ AnswerTrue(p) /\ ArtifactsStored(p) /\ IdIsFresh(p)
      /\ pc[p] \in Labels /\ answer[p] \in Answers
  BY TypedParts DEF PInv
<1>n. ASSUME job[p] # None
      PROVE  /\ job[p] \in Responses /\ MyName(p) \in Names /\ MyRow(p) # None
             /\ MyRow(p).id = <<p, calls[p]>>
             /\ rows[MyName(p)] # None => rows'[MyName(p)] = rows[MyName(p)]
  <2>1. /\ job[p] \in Responses /\ MyName(p) \in Names /\ MyRow(p) # None
        /\ MyRow(p).id = <<p, calls[p]>>
    BY <1>n, TypedParts
  <2> QED BY <2>1, RowsStay
<1>d. pc[p] # "idle" => job[p] \in Responses /\ job[p] # None
  BY <1>i, PublicationAssumption DEF ArtifactsStored
\* The row found under p's name is another call's.
<1>o. ASSUME pc[p] \in Working, rows[MyName(p)] # None
      PROVE  rows[MyName(p)].id # <<p, calls[p]>>
  <2>1. MyName(p) \in Names  BY <1>o, <1>d, <1>n DEF Working
  <2> QED BY <1>o, <1>i, <2>1 DEF IdIsFresh
<1>1. CASE \E r \in Responses : Fetched(p, r)
  <2>1. pc'[p] = "publish" /\ answer'[p] = "none"
    BY <1>1 DEF Fetched, Goto, TypeOK
  <2> QED BY <2>1 DEF AnswerTrue
<1>2. CASE Lookup(p)
  <2>1. /\ pc[p] = "lookup" /\ UNCHANGED <<rows, job, calls>>
        /\ MyName(p)' = MyName(p) /\ MyRow(p)' = MyRow(p)
    BY <1>2 DEF Lookup, tables, MyName, MyRow
  <2>2. CASE rows[MyName(p)] = None
    <3>1. pc'[p] = "insert_row" /\ answer'[p] = answer[p]
      BY <1>2, <2>2 DEF Lookup, Goto, TypeOK
    <3> QED BY <1>i, <2>1, <3>1 DEF AnswerTrue, SameManifest
  <2>3. CASE rows[MyName(p)] # None
    <3>1. /\ pc'[p] = "idle"
          /\ answer'[p] = IF SameManifest(rows[MyName(p)], job[p]) THEN "existing" ELSE "duplicate"
      BY <1>2, <2>3 DEF Lookup, Answer, Goto, TypeOK
    <3>2. rows[MyName(p)].id # <<p, calls[p]>>
      BY <1>o, <2>1, <2>3 DEF Working
    <3> QED BY <2>1, <2>3, <3>1, <3>2 DEF AnswerTrue, SameManifest
  <2> QED BY <2>2, <2>3
<1>3. CASE InsertRow(p)
  <2>1. /\ pc[p] = "insert_row" /\ UNCHANGED <<rows, job, calls>>
        /\ MyName(p)' = MyName(p) /\ MyRow(p)' = MyRow(p)
    BY <1>3 DEF InsertRow, tables, MyName, MyRow
  <2>2. CASE rows[MyName(p)] = None
    <3>1. pc'[p] = "insert_partition" /\ answer'[p] = answer[p]
      BY <1>3, <2>2 DEF InsertRow, Goto, TypeOK
    <3> QED BY <1>i, <2>1, <3>1 DEF AnswerTrue, SameManifest
  <2>3. CASE rows[MyName(p)] # None
    <3>1. pc'[p] = "idle" /\ answer'[p] = "unique_violation"
      BY <1>3, <2>3 DEF InsertRow, Answer, Goto, TypeOK
    <3>2. rows[MyName(p)].id # <<p, calls[p]>>
      BY <1>o, <2>1, <2>3 DEF Working
    <3> QED BY <2>1, <2>3, <3>1, <3>2 DEF AnswerTrue, SameManifest
  <2> QED BY <2>2, <2>3
<1>4. CASE Commit(p)
  <2>1. /\ pc'[p] = "committed" /\ answer'[p] = answer[p] /\ UNCHANGED <<job, calls>>
        /\ MyName(p)' = MyName(p) /\ MyRow(p)' = MyRow(p)
    BY <1>4 DEF Commit, Goto, TypeOK, MyName, MyRow
  <2>2. rows'[MyName(p)] = MyRow(p)  BY <1>4, CommitAdds DEF TypeOK
  <2> QED BY <1>i, <1>n, <2>1, <2>2 DEF AnswerTrue, SameManifest
<1>5. CASE ReturnCreated(p)
  <2>1. /\ pc[p] = "committed" /\ pc'[p] = "idle" /\ answer'[p] = "created"
        /\ UNCHANGED <<rows, job, calls>>
        /\ MyName(p)' = MyName(p) /\ MyRow(p)' = MyRow(p)
    BY <1>5 DEF ReturnCreated, Answer, Goto, TypeOK, tables, MyName, MyRow
  <2> QED BY <1>i, <2>1 DEF AnswerTrue
<1>6. CASE StepFails(p)
  <2>1. pc'[p] = "idle" /\ answer'[p] = "error"
    BY <1>6 DEF StepFails, Answer, Goto, TypeOK
  <2> QED BY <2>1 DEF AnswerTrue
<1>7. CASE \/ PublishArtifact(p) \/ InsertPartition(p) \/ AppendEvent(p)
           \/ ServerAborts(p) \/ Crash(p)
  <2>1. pc'[p] # "committed" /\ UNCHANGED <<rows, job, calls, answer>>
    BY <1>7 DEF PublishArtifact, InsertPartition, AppendEvent, ServerAborts, Crash, Goto,
       TypeOK, tables
  <2>2. MyName(p)' = MyName(p) /\ MyRow(p)' = MyRow(p)  BY <2>1 DEF MyName, MyRow
  <2> QED BY <1>i, <2>1, <2>2 DEF AnswerTrue, SameManifest
<1> QED BY <1>1, <1>2, <1>3, <1>4, <1>5, <1>6, <1>7 DEF ProcessStep, Step
-----------------------------------------------------------------------------
(* What everybody sees.                                                    *)

\* A commit makes a complete snapshot visible and leaves the others complete.
LEMMA SnapshotsKept ==
  ASSUME IInv, NEW p \in Procs, ProcessStep(p)
  PROVE  SnapshotsComplete' /\ NoPhantoms'
<1>i. TypeOK /\ PInv(p) /\ SnapshotsComplete /\ NoPhantoms  BY DEF IInv
<1>s. stored \subseteq stored'  BY <1>i, OthersStay
<1>1. CASE UNCHANGED tables
  BY <1>i, <1>s, <1>1 DEF SnapshotsComplete, NoPhantoms, tables
<1>2. CASE Commit(p)
  <2> DEFINE new == <<p, calls[p]>>
             N == MyName(p)
  <2>c. /\ job[p] \in Responses /\ N \in Names
        /\ MyRow(p) # None /\ rows[N] = None
        /\ rows' = [rows EXCEPT ![N] = MyRow(p)]
        /\ partitions' = partitions \cup {MyPartition(p)}
        /\ events' = events \cup {MyEvent(p)}
        /\ Needed(job[p]) \subseteq stored'
    BY <1>i, <1>s, <1>2, CommitAdds
  <2>r. /\ MyRow(p).id = new /\ MyRow(p).doc = job[p]
        /\ MyPartition(p) = [id |-> new, csv |-> job[p].csv]
        /\ MyEvent(p) = [entity |-> new, manifest |-> job[p]]
    BY DEF MyRow, MyPartition, MyEvent
  <2>f. \A n \in Names : rows[n] # None => rows[n].id # new
    BY <1>i, <1>2 DEF PInv, IdIsFresh, Commit, Working
  <2>p. /\ \A x \in partitions : x.id # new
        /\ \A e \in events : e.entity # new
    BY <1>i, <2>f DEF NoPhantoms
  <2>1. rows'[N] = MyRow(p) /\ \A n \in Names \ {N} : rows'[n] = rows[n]
    BY <2>c, <1>i DEF TypeOK
  <2>2. ASSUME NEW n \in Names, rows'[n] # None
        PROVE  LET id == rows'[n].id  doc == rows'[n].doc IN
               /\ doc.name = n
               /\ Range(doc.pages) \cup {doc.csv} \subseteq stored'
               /\ {x \in partitions' : x.id = id} = {[id |-> id, csv |-> doc.csv]}
               /\ {e \in events' : e.entity = id} = {[entity |-> id, manifest |-> doc]}
    <3>1. CASE n = N
      <4>1. rows'[n].id = new /\ rows'[n].doc = job[p]  BY <2>1, <2>r, <3>1
      <4>2. {x \in partitions' : x.id = new} = {[id |-> new, csv |-> job[p].csv]}
        BY <2>c, <2>p, <2>r
      <4>3. {e \in events' : e.entity = new} = {[entity |-> new, manifest |-> job[p]]}
        BY <2>c, <2>p, <2>r
      <4>4. job[p].name = n  BY <3>1 DEF MyName
      <4> QED BY <4>1, <4>2, <4>3, <4>4, <2>c DEF Needed
    <3>2. CASE n # N
      <4>1. rows'[n] = rows[n] /\ rows[n].id # new  BY <2>1, <2>2, <2>f, <3>2
      <4>2. {x \in partitions' : x.id = rows[n].id} = {x \in partitions : x.id = rows[n].id}
        BY <4>1, <2>c, <2>r
      <4>3. {e \in events' : e.entity = rows[n].id} = {e \in events : e.entity = rows[n].id}
        BY <4>1, <2>c, <2>r
      <4> QED BY <4>1, <4>2, <4>3, <2>2, <1>i, <1>s DEF SnapshotsComplete
    <3> QED BY <3>1, <3>2
  <2>3. NoPhantoms'
    <3> SUFFICES ASSUME NEW id \in {x.id : x \in partitions'} \cup {e.entity : e \in events'}
                 PROVE  \E n \in Names : rows'[n] # None /\ rows'[n].id = id
      BY DEF NoPhantoms
    <3>1. CASE id = new  BY <3>1, <2>1, <2>c, <2>r
    <3>2. CASE id # new
      <4>1. id \in {x.id : x \in partitions} \cup {e.entity : e \in events}
        BY <3>2, <2>c, <2>r
      <4>2. PICK n \in Names : rows[n] # None /\ rows[n].id = id
        BY <4>1, <1>i DEF NoPhantoms
      <4>3. n # N  BY <4>2, <2>c
      <4> QED BY <4>2, <4>3, <2>1
    <3> QED BY <3>1, <3>2
  <2> QED BY <2>2, <2>3 DEF SnapshotsComplete
<1> QED BY <1>1, <1>2, OnlyCommitShows
-----------------------------------------------------------------------------
(* The theorems.                                                           *)

\* An empty registry satisfies the invariant.
LEMMA InitInv == Init => IInv
<1> SUFFICES ASSUME Init PROVE IInv
  OBVIOUS
<1>1. TypeOK  BY InitTyped
<1>2. SnapshotsComplete /\ NoPhantoms  BY DEF Init, SnapshotsComplete, NoPhantoms
<1>3. ASSUME NEW p \in Procs PROVE PInv(p)
  BY DEF Init, PInv, ArtifactsStored, TransactionHolds, OwnsName, IdIsFresh, AnswerTrue,
     NoInserts, Registering, Working
<1> QED BY <1>1, <1>2, <1>3 DEF IInv

\* Every step of the system preserves it.
LEMMA NextInv == IInv /\ [Next]_vars => IInv'
<1> SUFFICES ASSUME IInv, [Next]_vars PROVE IInv'
  OBVIOUS
<1>1. ASSUME NEW p \in Procs, ProcessStep(p) PROVE IInv'
  <2>i. TypeOK /\ PInv(p)  BY DEF IInv
  <2>1. TypeOK'  BY <1>1, <2>i, StepTyped
  <2>2. SnapshotsComplete' /\ NoPhantoms'  BY <1>1, SnapshotsKept
  <2>3. PInv(p)'
    BY <1>1, <2>i, ArtifactsStoredKept, TransactionHoldsKept, OwnsNameKept, IdIsFreshKept,
       AnswerTrueKept DEF PInv
  <2>4. ASSUME NEW q \in Procs \ {p} PROVE PInv(q)'  BY <1>1, OthersKeepPInv
  <2> QED BY <2>1, <2>2, <2>3, <2>4 DEF IInv
<1>2. CASE UNCHANGED vars
  BY <1>2 DEF vars, tables, IInv, TypeOK, SnapshotsComplete, NoPhantoms, PInv,
     ArtifactsStored, TransactionHolds, OwnsName, IdIsFresh, AnswerTrue, MyPartition, MyEvent,
     MyRow, MyName
<1> QED BY <1>1, <1>2 DEF Next, ProcessStep

\* The invariant holds of every reachable state.
LEMMA Invariance == Spec => []IInv
BY InitInv, NextInv, PTL DEF Spec

\* The variables keep their types: PostgreSQL's rows, partitions and events are
\* only ever written with values an import has fetched.
THEOREM TypeCorrect == Spec => []TypeOK
<1>1. IInv => TypeOK  BY DEF IInv
<1> QED BY <1>1, Invariance, PTL

\* Whatever fails and whoever is killed, a visible snapshot has its artifacts,
\* its partition and its one audit event.
THEOREM SnapshotsAlwaysComplete == Spec => []SnapshotsComplete
<1>1. IInv => SnapshotsComplete  BY DEF IInv
<1> QED BY <1>1, Invariance, PTL

\* An import that failed, lost or was killed leaves no row behind.
THEOREM NeverPhantoms == Spec => []NoPhantoms
<1>1. IInv => NoPhantoms  BY DEF IInv
<1> QED BY <1>1, Invariance, PTL

\* What the import command answered is true and stays true.
THEOREM AnswersAlwaysTrue == Spec => []AnswersTrue
<1>1. IInv => AnswersTrue
  BY DEF IInv, PInv, AnswerTrue, AnswersTrue, MyRow
<1> QED BY <1>1, Invariance, PTL

\* No import rewrites or removes a published snapshot, a partition or an audit
\* event.
THEOREM AlwaysFinal == Spec => PublishedIsFinal
<1> DEFINE Final == /\ \A n \in Names : rows[n] # None => rows'[n] = rows[n]
                    /\ partitions \subseteq partitions'
                    /\ events \subseteq events'
<1>1. IInv /\ [Next]_vars => [Final]_tables
  <2> SUFFICES ASSUME IInv, Next, ~UNCHANGED tables PROVE Final
    BY DEF vars
  <2>1. PICK p \in Procs : ProcessStep(p)  BY DEF Next, ProcessStep
  <2>2. TypeOK /\ PInv(p)  BY DEF IInv
  <2>3. \A n \in Names : rows[n] # None => rows'[n] = rows[n]  BY <2>1, <2>2, RowsStay
  <2>4. Commit(p)  BY <2>1, OnlyCommitShows
  <2> QED BY <2>2, <2>3, <2>4, CommitAdds
<1> QED BY <1>1, Invariance, PTL DEF Spec, PublishedIsFinal
=============================================================================
