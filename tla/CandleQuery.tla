----------------------------- MODULE CandleQuery -----------------------------
(***************************************************************************)
(* Reading a published candle dataset: a client walks the candles page by  *)
(* page with an open-time cursor, or verifies the snapshot, or asks for    *)
(* its manifest or detail; every request verifies the stored row, the raw  *)
(* pages and the canonical CSV again before it answers.  Between any two   *)
(* steps of a request the import may commit, a file may rot or vanish, and *)
(* an operator may restore it.                                             *)
(*                                                                         *)
(* Times are counted so that a candle lasts Duration units.  A content     *)
(* stands for its own digest, size and key; a manifest hash is the payload *)
(* that was hashed.  The stored row is the one the import writes, or that  *)
(* row with one field altered by another writer, and the CSV any sequence  *)
(* of open times.                                                          *)
(***************************************************************************)
EXTENDS Integers, Sequences, SequencesExt, FiniteSets

CONSTANTS
  None,         \* Python's None
  Junk,         \* a JSON value that is not a number
  Duration,     \* length of a candle
  Horizon,      \* times are 0..Horizon
  MaxRows,      \* bound on the rows of a CSV, two at least
  Bounds,       \* times a client names in a query
  Limits,       \* page limits a client asks for
  MaxDamages    \* bound on the files that rot or vanish

ASSUME QueryAssumption ==
  /\ Duration \in Nat \ {0} /\ Horizon \in Nat /\ MaxRows \in Nat \ {0, 1}
  /\ Bounds \subseteq Nat /\ Limits \subseteq Int /\ MaxDamages \in Nat
  /\ None # Junk /\ None \notin Int /\ Junk \notin Int

VARIABLES
  csv,          \* content of the partition: [opens, canonical]
  row,          \* the snapshot row with its provenance and partitions
  hash,         \* the row's content_hash
  published,    \* the row has been committed
  media,        \* media type in each artifact's metadata
  files,        \* state of each artifact's file
  damages,
  first,        \* the client's original request
  req,          \* the request being served
  pc,           \* "idle", "load", "pages", "partition" or "answered"
  verified,     \* source pages verified by this request
  reads,        \* history: the files this request has read, with their states
  answer,       \* outcome of the last request
  received,     \* open times the client has received
  cursor        \* next_cursor of the last page, None when it was the last

stored == <<csv, row, hash, media>>
client == <<first, req, pc, verified, reads, answer, received, cursor>>
vars == <<stored, published, files, damages, client>>

Times == 0..Horizon
Keys == {"csv", "page1", "page2"}

IsAligned(t) == t % Duration = 0

Page(c) == [key |-> c, sha |-> c, size |-> c]
Partition(opens) ==
  [timeframe |-> "own", key |-> "csv", sha |-> "csv", size |-> "csv",
   rows |-> Len(opens),
   min |-> IF opens = <<>> THEN None ELSE Head(opens),
   max |-> IF opens = <<>> THEN None ELSE Last(opens)]

\* The row the import writes for a CSV of these open times.
Written(opens) ==
  [status |-> "published", exchange |-> "binance_futures", version |-> "2",
   total |-> Len(opens),
   min |-> Partition(opens).min, max |-> Partition(opens).max,
   prov |-> [format |-> "contract_klines", endpoint |-> "klines",
             timeframe |-> "own",
             pages |-> <<Page("page1"), Page("page2")>>,
             norm |-> [key |-> "csv", sha |-> "csv", size |-> "csv",
                       rows |-> Len(opens), media |-> "csv"],
             expected |-> Len(opens), actual |-> Len(opens)],
   parts |-> <<Partition(opens)>>]

\* None and Junk are told apart from what the import writes.
ASSUME NoneAssumption ==
  /\ Junk \notin Keys
  /\ \A opens \in SeqOf(Times, MaxRows) :
       LET prov == Written(opens).prov IN None \notin {prov, prov.pages, prov.norm}

\* What another writer may have made of one part of that row.
AlteredPages(pages) ==
  { None, <<>>, [pages EXCEPT ![2].key = "gone"], [pages EXCEPT ![2].sha = "gone"],
    [pages EXCEPT ![2].size = Junk], [pages EXCEPT ![1].key = "page2"] }

AlteredNorm(norm) ==
  { None, [norm EXCEPT !.key = "gone"], [norm EXCEPT !.sha = "gone"],
    [norm EXCEPT !.size = "gone"], [norm EXCEPT !.size = Junk],
    [norm EXCEPT !.rows = @ + 1], [norm EXCEPT !.media = "json"] }

AlteredProv(prov) ==
  { None, [prov EXCEPT !.format = "index_klines"], [prov EXCEPT !.endpoint = "other"],
    [prov EXCEPT !.timeframe = "other"],
    [prov EXCEPT !.expected = @ + 1], [prov EXCEPT !.actual = @ - 1] }
  \cup {[prov EXCEPT !.pages = x] : x \in AlteredPages(prov.pages)}
  \cup {[prov EXCEPT !.norm = x] : x \in AlteredNorm(prov.norm)}

AlteredPart(part) ==
  { [part EXCEPT !.timeframe = "other"], [part EXCEPT !.key = "gone"],
    [part EXCEPT !.sha = "gone"], [part EXCEPT !.rows = @ + 1], [part EXCEPT !.max = None] }

AlteredRows(w) ==
  LET part == w.parts[1] IN
  { [w EXCEPT !.status = "draft"], [w EXCEPT !.exchange = "binance_spot"],
    [w EXCEPT !.version = "1"], [w EXCEPT !.total = @ + 1],
    [w EXCEPT !.min = None], [w EXCEPT !.max = None],
    [w EXCEPT !.min = @ + Duration], [w EXCEPT !.max = @ + Duration],
    [w EXCEPT !.parts = <<>>], [w EXCEPT !.parts = <<>>, !.total = 0],
    [w EXCEPT !.parts = <<[part EXCEPT !.rows = @ + 1]>>,
              !.prov.norm.rows = @ + 1, !.total = @ + 1],
    [w EXCEPT !.parts = <<[part EXCEPT !.min = @ + Duration]>>, !.min = None],
    [w EXCEPT !.parts = <<part, [part EXCEPT !.timeframe = "other"]>>, !.total = 2 * @] }

\* That row after another writer altered one field, or several in agreement.
Altered(opens) ==
  LET w == Written(opens) IN
  AlteredRows(w)
  \cup {[w EXCEPT !.prov = x] : x \in AlteredProv(w.prov)}
  \cup {[w EXCEPT !.parts = <<x>>] : x \in AlteredPart(w.parts[1])}

\* build_manifest_document without the fields the hash leaves out.
Payload(r) ==
  [exchange |-> r.exchange, version |-> r.version, total |-> r.total,
   min |-> r.min, max |-> r.max, prov |-> r.prov, parts |-> r.parts]

\* What closed_candle parsing, order and completeness leave of the CSV's bytes.
Complete(opens) ==
  /\ opens # <<>>
  /\ \A i \in DOMAIN opens : IsAligned(opens[i])
  /\ \A i \in 1..(Len(opens) - 1) : opens[i + 1] = opens[i] + Duration

\* Faulty variant: a gap is accepted.
ParsesWithGaps(c) ==
  /\ c.canonical /\ c.opens # <<>> /\ \A i \in DOMAIN c.opens : IsAligned(c.opens[i])
  /\ \A i \in 1..(Len(c.opens) - 1) : c.opens[i + 1] > c.opens[i]

ParseCanonicalCandlesCsv(c) == c.canonical /\ Complete(c.opens)

ProperMedia == [k \in Keys |-> IF k = "csv" THEN "csv" ELSE "json"]

\* A row the import wrote, over any CSV.
WrittenRow ==
  /\ csv \in [opens : SeqOf(Times, MaxRows), canonical : {TRUE}]
  /\ row = Written(csv.opens)
  /\ hash = Payload(row)
  /\ media = ProperMedia

\* A row, a hash or media types that somebody altered.
AlteredRow ==
  /\ csv \in [opens : {o \in SeqOf(Times, 2) : Len(o) = 2 /\ Complete(o)},
              canonical : BOOLEAN]
  /\ row \in Altered(csv.opens) \cup {Written(csv.opens)}
  /\ hash \in {Payload(row), Payload(Written(csv.opens))}
  /\ media \in {ProperMedia} \cup
       IF row \in Altered(csv.opens) THEN {}
       ELSE {[k \in Keys |-> "json"], [k \in Keys |-> "csv"]}

Init ==
  /\ WrittenRow \/ AlteredRow
  /\ published \in BOOLEAN
  /\ files = [k \in Keys |-> "whole"]
  /\ damages = 0
  /\ first = None /\ req = None /\ pc = "idle" /\ verified = 0 /\ reads = {} /\ answer = None
  /\ received = <<>> /\ cursor = None

----------------------------------------------------------------------------
(* Verification of the row. *)

Known(bounds) == bounds \ {None}
Least(S) == CHOOSE x \in S : \A y \in S : x <= y
Greatest(S) == CHOOSE x \in S : \A y \in S : y <= x

PartitionRows(parts) ==
  LET rows[n \in 0..Len(parts)] == IF n = 0 THEN 0 ELSE rows[n - 1] + parts[n].rows
  IN rows[Len(parts)]

TotalsAgree ==
  LET mins == Known({row.parts[i].min : i \in DOMAIN row.parts})
      maxs == Known({row.parts[i].max : i \in DOMAIN row.parts})
  IN /\ PartitionRows(row.parts) = row.total
     /\ row.parts # <<>>
     /\ mins # {} => row.min \in {None, Least(mins)}
     /\ maxs # {} => row.max \in {None, Greatest(maxs)}

Support ==
  IF row.exchange # "binance_futures" \/ row.version # "2" THEN "unsupported"
  ELSE IF row.prov = None THEN "integrity"
  ELSE IF row.prov.format # "contract_klines" THEN "unsupported"
  ELSE IF row.prov.endpoint # "klines" THEN "integrity"
  ELSE "ok"

\* The partitions of a timeframe; the symbol is compared in the same way.
Matches(timeframe) == {i \in DOMAIN row.parts : row.parts[i].timeframe = timeframe}
PartitionOf(timeframe) == row.parts[CHOOSE i \in Matches(timeframe) : TRUE]

AgreesWithProvenance(part) ==
  LET norm == row.prov.norm IN
  IF norm = None THEN "integrity"
  ELSE IF norm.key # part.key \/ norm.sha # part.sha THEN "integrity"
  ELSE IF norm.size = Junk THEN "unavailable"  \* int() raises ValueError
  ELSE IF /\ norm.size = part.size /\ norm.rows = part.rows
          /\ norm.media = "csv" /\ row.prov.timeframe = part.timeframe
       THEN "ok" ELSE "integrity"

VerifyMetadata(timeframe) ==
  IF Support # "ok" THEN Support
  ELSE IF hash # Payload(row) \/ ~TotalsAgree THEN "integrity"
  ELSE IF Matches(timeframe) = {} THEN "noPartition"
  ELSE IF \E i, j \in Matches(timeframe) : i # j THEN "integrity"
  ELSE AgreesWithProvenance(PartitionOf(timeframe))

\* get_metadata and open_bytes, which both hash the file's bytes.
Readable(key) == key \in Keys /\ files[key] = "whole"

\* Faulty variant: the page's metadata is believed, its bytes are not read.
PageVerifiedUnread(page) ==
  /\ page.key \in Keys /\ media[page.key] = "json"
  /\ page.sha = page.key /\ page.size = page.key

PageVerified(page) ==
  /\ Readable(page.key) /\ media[page.key] = "json"
  /\ page.sha = page.key /\ page.size = page.key

\* Faulty variant: the maximum is the end of the range.
PartitionVerifiedToEnd(part) ==
  /\ Readable(part.key) /\ media[part.key] = "csv"
  /\ part.sha = part.key /\ part.size = part.key
  /\ ParseCanonicalCandlesCsv(csv)
  /\ part.rows = Len(csv.opens)
  /\ part.min = Head(csv.opens) /\ part.max = Last(csv.opens) + Duration

PartitionVerified(part) ==
  /\ Readable(part.key) /\ media[part.key] = "csv"
  /\ part.sha = part.key /\ part.size = part.key
  /\ ParseCanonicalCandlesCsv(csv)
  /\ part.rows = Len(csv.opens)
  /\ part.min = Head(csv.opens) /\ part.max = Last(csv.opens)

CountsAgree ==
  row.prov.expected = Len(csv.opens) /\ row.prov.actual = Len(csv.opens)

----------------------------------------------------------------------------
(* Queries. *)

Query == [kind : {"query"}, timeframe : {"own", "other"}, start : Bounds \cup {None},
          end : Bounds \cup {None}, after : Bounds \cup {None}, limit : Limits]
Lookup == [kind : {"verify", "manifest", "detail"}]

MinCandleLimit == 1
MaxCandleLimit == 5000

\* Faulty variant: a cursor equal to the start is refused.
ValidQueryStrict(q) ==
  /\ q.limit \in MinCandleLimit..MaxCandleLimit
  /\ \A t \in Known({q.start, q.end, q.after}) : IsAligned(t)
  /\ q.start # None /\ q.end # None => q.start < q.end
  /\ q.after # None /\ q.start # None => q.start < q.after
  /\ q.after # None /\ q.end # None => q.after < q.end

ValidQuery(q) ==
  /\ q.limit \in MinCandleLimit..MaxCandleLimit
  /\ \A t \in Known({q.start, q.end, q.after}) : IsAligned(t)
  /\ q.start # None /\ q.end # None => q.start < q.end
  /\ q.after # None /\ q.start # None => q.start <= q.after
  /\ q.after # None /\ q.end # None => q.after < q.end

Wanted(q) ==
  { t \in Times : /\ q.start # None => q.start <= t
                  /\ q.end # None => t < q.end
                  /\ q.after # None => q.after < t }

\* The elements of s that are in S, in their order.
Kept(s, S) ==
  LET kept[n \in 0..Len(s)] ==
        IF n = 0 THEN <<>>
        ELSE IF s[n] \in S THEN Append(kept[n - 1], s[n]) ELSE kept[n - 1]
  IN kept[Len(s)]

Prefix(s, n) == SubSeq(s, 1, IF n < Len(s) THEN n ELSE Len(s))

\* Faulty variant: no row of lookahead.
CollectMatchingPageShort(opens, q) ==
  Prefix(Kept(opens, Wanted(q)), q.limit)

\* The lookahead: one candle more than the page holds.
CollectMatchingPage(opens, q) ==
  Prefix(Kept(opens, Wanted(q)), q.limit + 1)

HasMore(q) == Len(CollectMatchingPage(csv.opens, q)) > q.limit
PageOf(q) == Prefix(CollectMatchingPage(csv.opens, q), q.limit)

NextCursor(q) == IF HasMore(q) /\ PageOf(q) # <<>> THEN Last(PageOf(q)) ELSE None

----------------------------------------------------------------------------
(* The program. *)

Answer(outcome) ==
  /\ pc' = "answered" /\ answer' = outcome
  /\ UNCHANGED <<first, req, verified, received, cursor>>

Outside == UNCHANGED <<stored, published, files, damages>>

\* A request arrives; build_candle_query refuses an invalid one.
Submit(r) ==
  /\ req' = r /\ verified' = 0 /\ reads' = {} /\ answer' = None
  /\ pc' = "load"

Refuse(r) ==
  /\ req' = r /\ verified' = 0 /\ reads' = {} /\ answer' = "invalid" /\ pc' = "answered"

Request(r) ==
  /\ IF r.kind = "query" /\ ~ValidQuery(r) THEN Refuse(r) ELSE Submit(r)
  /\ UNCHANGED <<received, cursor>>

Ask ==
  /\ pc = "idle" /\ Outside
  /\ \E r \in Query \cup Lookup : first' = r /\ Request(r)

\* The client follows the cursor of the last page, or repeats a request that
\* failed for a reason that may have gone.
FollowCursor ==
  /\ pc = "answered" /\ answer = "ok" /\ req.kind = "query" /\ cursor # None
  /\ Outside /\ UNCHANGED first
  /\ Request([req EXCEPT !.after = cursor])

Repeat ==
  /\ pc = "answered" /\ answer \in {"notFound", "integrity", "unavailable"}
  /\ Outside /\ UNCHANGED first
  /\ Request(req)

\* get_published: only a committed row whose status is published.
Visible == published /\ row.status = "published"

\* The partition a verification asks for is the row's only one.
Target == IF req.kind = "query" THEN req.timeframe ELSE row.parts[1].timeframe

LoadOutcome ==
  IF ~Visible THEN "notFound"
  ELSE IF req.kind = "manifest" THEN IF hash = Payload(row) THEN "ok" ELSE "unavailable"
  ELSE IF req.kind = "detail" THEN "ok"
  ELSE IF req.kind = "verify" /\ Support # "ok" THEN Support
  ELSE IF req.kind = "verify" /\ Len(row.parts) # 1 THEN "integrity"
  ELSE VerifyMetadata(Target)

Load ==
  /\ pc = "load" /\ Outside
  /\ IF LoadOutcome = "ok" /\ req.kind \in {"query", "verify"}
     THEN pc' = "pages" /\ UNCHANGED <<first, req, verified, answer, received, cursor>>
     ELSE Answer(LoadOutcome)
  /\ UNCHANGED reads

\* The database does not answer.
DatabaseFails == pc = "load" /\ Outside /\ Answer("unavailable") /\ UNCHANGED reads

Pages == row.prov.pages

\* The file of a key, as a read of it finds it.
Found(key) == IF key \in Keys THEN {<<key, files[key]>>} ELSE {}

\* verify_source_page_artifacts, one page at a time.
VerifyPage ==
  /\ pc = "pages" /\ Outside
  /\ IF Pages \in {None, <<>>} THEN Answer("integrity") /\ UNCHANGED reads
     ELSE /\ reads' = reads \cup Found(Pages[verified + 1].key)
          /\ IF ~PageVerified(Pages[verified + 1]) THEN Answer("integrity")
             ELSE /\ verified' = verified + 1
                  /\ pc' = IF verified' = Len(Pages) THEN "partition" ELSE "pages"
                  /\ UNCHANGED <<first, req, answer, received, cursor>>

Part == PartitionOf(Target)

\* read_verified, the provenance counts, and the page or the result.
ReadPartition ==
  /\ pc = "partition" /\ Outside
  /\ reads' = reads \cup Found(Part.key)
  /\ IF ~PartitionVerified(Part) \/ ~CountsAgree THEN Answer("integrity")
     ELSE /\ pc' = "answered" /\ answer' = "ok"
          /\ IF req.kind = "query"
             THEN received' = received \o PageOf(req) /\ cursor' = NextCursor(req)
             ELSE UNCHANGED <<received, cursor>>
          /\ UNCHANGED <<first, req, verified>>

\* What the route and the command line make of an outcome.
Status ==
  [ok |-> 200, invalid |-> 422, notFound |-> 404, noPartition |-> 404,
   unsupported |-> 409, integrity |-> 409, unavailable |-> 503]
ExitCode ==
  [ok |-> 0, notFound |-> 1, unavailable |-> 1, noPartition |-> 1,
   unsupported |-> 2, integrity |-> 3]
Reported == IF req.kind = "verify" THEN ExitCode[answer] ELSE Status[answer]

----------------------------------------------------------------------------
(* The environment. *)

\* An import commits the row.
Publish ==
  ~published /\ published' = TRUE /\ UNCHANGED <<stored, files, damages, client>>

\* Only these steps of a request look at the files.
Reading == pc \in {"pages", "partition"}

Damage(k, how) ==
  /\ Reading /\ files[k] = "whole" /\ damages < MaxDamages
  /\ files' = [files EXCEPT ![k] = how] /\ damages' = damages + 1
  /\ UNCHANGED <<stored, published, client>>

Restore(k) ==
  /\ files[k] # "whole"
  /\ files' = [files EXCEPT ![k] = "whole"]
  /\ UNCHANGED <<stored, published, damages, client>>

Next ==
  \/ Ask \/ FollowCursor \/ Repeat
  \/ Load \/ DatabaseFails \/ VerifyPage \/ ReadPartition
  \/ Publish
  \/ \E k \in Keys : Restore(k) \/ \E how \in {"rotten", "absent"} : Damage(k, how)

Spec == Init /\ [][Next]_vars

----------------------------------------------------------------------------
(* Properties. *)

\* The pages a client collects by following cursors are, in order, the
\* candles of its original request with none lost and none repeated, and the
\* page without a cursor is the last (paginate_candles, collect_matching_page).
PagesTile ==
  first # None /\ first.kind = "query" =>
    LET wanted == Kept(csv.opens, Wanted(first)) IN
    /\ IsPrefix(received, wanted)
    /\ pc = "answered" /\ answer = "ok" /\ cursor = None => received = wanted

\* A cursor the service handed out is a valid query and brings at least one
\* candle, whatever bounds it is combined with (validate_candle_query_fields).
CursorsServed ==
  pc = "answered" /\ req # first =>
    answer # "invalid" /\ (answer = "ok" => PageOf(req) # <<>>)

\* Candles are served, and a snapshot is reported verified, only when the CSV
\* is a gapless aligned series, the row is the one an import writes for it, and
\* this very request has found each raw page and the CSV whole, though files rot
\* and are restored between its checks and an earlier request had verified them.
\* A row may lack its extremes, and a query tolerates a second partition, which
\* the verification does not (verify_candle_dataset, read_verified).
OnlyWhatWasWritten ==
  pc = "answered" /\ req.kind \in {"query", "verify"} /\ Reported \in {200, 0} =>
    LET written == Written(csv.opens) IN
    /\ csv.canonical /\ Complete(csv.opens)
    /\ hash = Payload(row)
    /\ row.prov = written.prov
    /\ row.min \in {None, written.min} /\ row.max \in {None, written.max}
    /\ Head(row.parts) = Head(written.parts)
    /\ req.kind = "verify" => row.parts = written.parts /\ row.total = written.total
    /\ reads = {<<k, "whole">> : k \in Keys}

\* A row that an import wrote over undamaged files is never reported corrupt
\* or unsupported, and lacks a partition only for a timeframe it has not.
SoundDataServed ==
  /\ pc = "answered" /\ damages = 0
  /\ csv.canonical /\ Complete(csv.opens) /\ row = Written(csv.opens)
  /\ hash = Payload(row)
  /\ media = ProperMedia
  =>
  /\ Reported \notin {409, 2, 3}
  /\ answer = "noPartition" => req.timeframe = "other"

=============================================================================
