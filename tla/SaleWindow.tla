----------------------------- MODULE SaleWindow -----------------------------
(***************************************************************************)
(* app/salewindow.py: checkouts outside a sale's window are refused by a    *)
(* middleware that keeps the windows in memory and reads them again every   *)
(* RefreshS seconds -- in a thread of its own, or, serverless, while the    *)
(* checkout that finds them old waits.  One sale; time in seconds.          *)
(***************************************************************************)
EXTENDS Integers, Sequences, FiniteSets

CONSTANTS WindowPosts,      \* checkouts
          RefreshS,   \* SALE_WINDOW_REFRESH_S
          QueryS,     \* longest query for the windows
          EndOfTime,  \* bound on the clock
          MaxEdits,   \* bound on changes of the sale's times
          Sales,      \* windows the sale may have, [start, end]
          Refresher,  \* the thread
          NoWindow    \* nothing loaded: an empty dictionary

ASSUME SaleWindowAssumption ==
    /\ IsFiniteSet(WindowPosts) /\ Refresher \notin WindowPosts
    /\ RefreshS \in Nat /\ QueryS \in Nat /\ EndOfTime \in Nat /\ MaxEdits \in Nat
    /\ Sales \subseteq [start : Int, end : Int] /\ Sales # {}

VARIABLES lazy,      \* IS_SERVERLESS
          clock,
          edits,     \* the windows in force, [from, sale], the last one now
          windows,   \* SaleWindows._windows of the sale
          loadedAt,  \* SaleWindows._loaded_at
          query,     \* the refresh of a checkout or of the thread
          answer,    \* what the middleware has said to a checkout
          failed     \* a refresh has failed

windowVars == <<lazy, clock, edits, windows, loadedAt, query, answer, failed>>

Askers == WindowPosts \cup {Refresher}
NoQuery == [step |-> "idle", since |-> 0, rows |-> NoWindow]
SaleNow == edits[Len(edits)].sale

WindowTypeOK ==
    /\ lazy \in BOOLEAN /\ failed \in BOOLEAN
    /\ clock \in 0..EndOfTime /\ loadedAt \in Int /\ loadedAt <= clock
    /\ edits \in Seq([from : 0..EndOfTime, sale : Sales]) /\ Len(edits) \in 1..(1 + MaxEdits)
    /\ windows \in Sales \cup {NoWindow}
    /\ query \in [Askers -> [step : {"idle", "sent", "read", "sleep"},
                             since : 0..EndOfTime, rows : Sales \cup {NoWindow}]]
    /\ answer \in [WindowPosts -> {"none", "asking", "open", "not_started", "ended", "unknown"}]

\* install: a first refresh, at best; the thread starts, or there is none.
WindowInit ==
    /\ lazy \in BOOLEAN
    /\ clock = 0
    /\ \E s \in Sales : edits = <<[from |-> 0, sale |-> s]>>
    /\ \/ windows = SaleNow /\ loadedAt = 0 /\ failed = FALSE
       \/ windows = NoWindow /\ loadedAt = -RefreshS - 1 /\ failed = TRUE
    /\ query = [a \in Askers |->
                  IF a = Refresher /\ ~lazy THEN [NoQuery EXCEPT !.step = "sleep"] ELSE NoQuery]
    /\ answer = [p \in WindowPosts |-> "none"]

-----------------------------------------------------------------------------
(* refresh *)

BeginQuery(a) == query' = [query EXCEPT ![a] = [NoQuery EXCEPT !.step = "sent", !.since = clock]]
EndsIn(a, s) == query' = [query EXCEPT ![a] = [NoQuery EXCEPT !.step = s, !.since = clock]]
AfterRefresh(a) == IF a = Refresher THEN "sleep" ELSE "idle"

\* The statement sees the rows as they are committed then.
ReadRows(a) ==
    /\ query[a].step = "sent"
    /\ query' = [query EXCEPT ![a].step = "read", ![a].rows = SaleNow]
    /\ UNCHANGED <<lazy, clock, edits, windows, loadedAt, answer, failed>>

\* set_windows, under the lock
SetWindows(a) ==
    /\ query[a].step = "read"
    /\ windows' = query[a].rows
    /\ loadedAt' = clock
    /\ EndsIn(a, AfterRefresh(a))
    /\ UNCHANGED <<lazy, clock, edits, answer, failed>>

\* Swallowed: the windows stay as they are.
RefreshFails(a) ==
    /\ query[a].step \in {"sent", "read"}
    /\ EndsIn(a, AfterRefresh(a))
    /\ failed' = TRUE
    /\ UNCHANGED <<lazy, clock, edits, windows, loadedAt, answer>>

\* start_thread's loop
WakeUp ==
    /\ query[Refresher].step = "sleep"
    /\ clock - query[Refresher].since >= RefreshS
    /\ BeginQuery(Refresher)
    /\ UNCHANGED <<lazy, clock, edits, windows, loadedAt, answer, failed>>

-----------------------------------------------------------------------------
(* dispatch *)

StaleOnlyOnce == windows = NoWindow
IsStale == clock - loadedAt > RefreshS

\* A checkout waits for a refresh of its own.
AskFirst(p) ==
    /\ lazy /\ answer[p] = "none"
    /\ IsStale
    /\ answer' = [answer EXCEPT ![p] = "asking"]
    /\ BeginQuery(p)
    /\ UNCHANGED <<lazy, clock, edits, windows, loadedAt, failed>>

\* state
WindowState(w) ==
    IF w = NoWindow THEN "unknown"
    ELSE IF clock < w.start THEN "not_started"
    ELSE IF clock >= w.end THEN "ended" ELSE "open"

\* Refused with 403 before the start and from the end on; everything else is
\* passed on to the handler, which has its own 404 for an unknown sale.
AnswerPost(p) ==
    /\ \/ answer[p] = "none" /\ ~(lazy /\ IsStale)
       \/ answer[p] = "asking" /\ query[p].step = "idle"
    /\ answer' = [answer EXCEPT ![p] = WindowState(windows)]
    /\ UNCHANGED <<lazy, clock, edits, windows, loadedAt, query, failed>>

-----------------------------------------------------------------------------

\* Somebody changes the times of the sale.
EditTimes(s) ==
    /\ Len(edits) <= MaxEdits /\ s # SaleNow
    /\ edits' = Append(edits, [from |-> clock, sale |-> s])
    /\ UNCHANGED <<lazy, clock, windows, loadedAt, query, answer, failed>>

\* No query takes longer than QueryS, the thread wakes up in time, and whoever
\* has its refresh answers in the same second.
NobodyLate ==
    /\ \A a \in Askers : query[a].step \in {"sent", "read"} => clock - query[a].since < QueryS
    /\ query[Refresher].step = "sleep" => clock - query[Refresher].since < RefreshS
    /\ \A p \in WindowPosts : ~(answer[p] = "asking" /\ query[p].step = "idle")

SecondPasses ==
    /\ clock < EndOfTime /\ NobodyLate
    /\ clock' = clock + 1
    /\ UNCHANGED <<lazy, edits, windows, loadedAt, query, answer, failed>>

WindowNext ==
    \/ \E a \in Askers : ReadRows(a) \/ SetWindows(a) \/ RefreshFails(a)
    \/ WakeUp
    \/ \E p \in WindowPosts : AskFirst(p) \/ AnswerPost(p)
    \/ \E s \in Sales : EditTimes(s)
    \/ SecondPasses

WindowSpec == WindowInit /\ [][WindowNext]_windowVars

-----------------------------------------------------------------------------
(* Properties *)

\* The windows the sale has had in the last n seconds.
InForceWithin(n) ==
    {edits[i].sale : i \in {j \in 1..Len(edits) :
        j = Len(edits) \/ edits[j + 1].from >= clock - n}}

\* As long as no refresh fails, no checkout is let in or refused by times that
\* were changed longer ago than a period and two queries: not by the thread's
\* last round, nor by a slow refresh that overwrites a newer one and makes the old
\* times look fresh.
AnswersAreRecent ==
    [][~failed => \A p \in WindowPosts :
          answer'[p] \notin {answer[p], "asking"} =>
              \E w \in InForceWithin(RefreshS + 2 * QueryS) : answer'[p] = WindowState(w)]_windowVars

=============================================================================
