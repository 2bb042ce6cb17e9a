------------------------------ MODULE EdgarIngest ------------------------------
(***************************************************************************)
(* The daily ingest of SEC EDGAR filings: the daemon starts a script over  *)
(* yesterday and today, the script asks the full-text search, which        *)
(* answers a page at a time and the newest filings first, drops the hits   *)
(* it cannot parse and builds rows for the rest.  A parsed filing may give *)
(* no row: its body could not be fetched, which the script notes on its    *)
(* stderr and passes over, or it holds nothing the table keeps.  The       *)
(* daemon learns whether the script ended well and how many filings it     *)
(* parsed, not how many rows it built; it warns if the run failed or if    *)
(* that number reaches a full page.                                        *)
(*                                                                         *)
(* The 8-K scripts read one page, the Form 4 and 13D/G scripts go on to    *)
(* the next while a page parses to a full one.  Filings are numbered in    *)
(* the order EDGAR accepts them.                                           *)
(***************************************************************************)
EXTENDS Integers, FiniteSets, Sequences

CONSTANTS
  PageCap,      \* hits on a page
  CatchupDays,  \* length of the window of a catch-up started by hand
  MaxDay,       \* bound: last day
  MaxFilings    \* bound: filings

Days == 1 .. MaxDay

ASSUME EdgarAssumption ==
  /\ PageCap \in Nat \ {0} /\ CatchupDays \in Nat \ {0}
  /\ MaxDay \in Nat \ {0} /\ MaxFilings \in Nat

VARIABLES
  paged,      \* whether the script reads more than the first page
  day,        \* the current day
  filings,    \* filing -> the day EDGAR accepted it, and whether its hit parses
  table,      \* the script's table: filings it has a row for
  quietUpTo,  \* day -> filings there were at the day's last run without a warning
  skipped     \* day -> filings that run parsed and left without a row (history)

ingestVars == <<paged, day, filings, table, quietUpTo, skipped>>

Filing == [accepted : Days, parses : BOOLEAN]

IngestTypeOK ==
  /\ paged \in BOOLEAN
  /\ day \in Days
  /\ filings \in Seq(Filing)
  /\ \A i \in DOMAIN filings : filings[i].accepted <= day
  /\ \A i, j \in DOMAIN filings : i <= j => filings[i].accepted <= filings[j].accepted
  /\ table \subseteq {i \in DOMAIN filings : filings[i].parses}
  /\ quietUpTo \in [Days -> 0 .. Len(filings)]
  /\ skipped \in [Days -> SUBSET {i \in DOMAIN filings : filings[i].parses}]

-------------------------------------------------------------------------------
InWindow(from, to) == {i \in DOMAIN filings : filings[i].accepted \in from .. to}

Unparsed == {i \in DOMAIN filings : ~ filings[i].parses}

\* P is the n newest filings of W, or all of them if there are fewer.
IsNewest(P, W, n) ==
  /\ P \subseteq W
  /\ Cardinality(P) = IF n < Cardinality(W) THEN n ELSE Cardinality(W)
  /\ \A i \in P, j \in W \ P : j < i

\* fetch_edgar, or fetch_edgar_search_paginated: further pages are read as long
\* as every hit so far has parsed, and there are any.
Pages(P, W) ==
  IF ~ paged THEN IsNewest(P, W, PageCap)
  ELSE \E n \in 1 .. (Cardinality(W) + 1) :
         /\ IsNewest(P, W, n * PageCap)
         /\ \A m \in 1 .. (n - 1), Q \in SUBSET P :
              IsNewest(Q, W, m * PageCap) => Q \cap Unparsed = {}
         /\ P = W \/ P \cap Unparsed # {}

\* Mutant: a hit without a form or a date is kept.
ParsedAnyway(P) == P

\* parse_edgar_search_response leaves out what it cannot read.
Parsed(P) == P \ Unparsed

\* build_form_4_rows and its like, with _xml_for: the filings that get a row.
RowsBuilt(P) == SUBSET Parsed(P)

\* Mutant: a full page is not yet a reason to warn.
CapHitBeyond(P) == Cardinality(Parsed(P)) > PageCap

\* parseEdgarHitCount: the script prints how many hits it parsed.
CapHit(P) == Cardinality(Parsed(P)) >= PageCap

\* buildEdgarIngestArgs: yesterday and today.
DaemonWindow == InWindow(day - 1, day)

-------------------------------------------------------------------------------
IngestInit ==
  /\ paged \in BOOLEAN
  /\ day = 1
  /\ filings = <<>>
  /\ table = {}
  /\ quietUpTo = [d \in Days |-> 0]
  /\ skipped = [d \in Days |-> {}]

\* EDGAR accepts a filing; a hit without a CIK, a form or a date does not parse.
Accept ==
  /\ Len(filings) < MaxFilings
  /\ \E parses \in BOOLEAN :
       filings' = Append(filings, [accepted |-> day, parses |-> parses])
  /\ UNCHANGED <<paged, day, table, quietUpTo, skipped>>

\* The day ends, with or without a run of the daemon.
NewDay ==
  /\ day < MaxDay
  /\ day' = day + 1
  /\ UNCHANGED <<paged, filings, table, quietUpTo, skipped>>

\* spawnEdgarIngest, and the daemon's step around it: a run that exits well
\* raises no warning unless a page came out full, whatever rows it built.
DailyRun ==
  /\ \E P \in SUBSET DaemonWindow : \E S \in RowsBuilt(P) :
       /\ Pages(P, DaemonWindow)
       /\ table' = table \cup S
       /\ IF CapHit(P) THEN UNCHANGED <<quietUpTo, skipped>>
          ELSE /\ quietUpTo' = [quietUpTo EXCEPT ![day] = Len(filings)]
               /\ skipped' = [skipped EXCEPT ![day] = Parsed(P) \ S]
  /\ UNCHANGED <<paged, day, filings>>

\* The script is killed or fails after its insert; before it, nothing changes.
DailyRunFails ==
  /\ \E P \in SUBSET DaemonWindow : \E S \in RowsBuilt(P) :
       /\ Pages(P, DaemonWindow)
       /\ table' = table \cup S
  /\ UNCHANGED <<paged, day, filings, quietUpTo, skipped>>

\* The catch-up command the warning names: the same script, a longer window.
Catchup ==
  /\ \E P \in SUBSET InWindow(day - CatchupDays, day) : \E S \in RowsBuilt(P) :
       /\ Pages(P, InWindow(day - CatchupDays, day))
       /\ table' = table \cup S
  /\ UNCHANGED <<paged, day, filings, quietUpTo, skipped>>

IngestNext == Accept \/ NewDay \/ DailyRun \/ DailyRunFails \/ Catchup

IngestSpec == IngestInit /\ [][IngestNext]_ingestVars
-------------------------------------------------------------------------------
Known(d) == {i \in DOMAIN filings : filings[i].accepted \in (d - 1) .. d}

\* No page is cut silently (EDGAR_PAGE_CAP and the capHit warning, against the
\* scripts' paging): of the filings EDGAR had for its two days, a run that raised
\* no warning has left out only those that it parsed itself and built no row for,
\* unless one did not parse.
QuietRunIsWhole ==
  \A d \in Days :
    LET seen == {i \in Known(d) : i <= quietUpTo[d]}
    IN  seen \cap Unparsed = {} => seen \subseteq table \cup skipped[d]

==============================================================================
