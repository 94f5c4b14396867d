------------------------------ MODULE TraceOps ------------------------------
(***************************************************************************)
(* The records of the Network Lab as operators: the trace of network       *)
(* events (NetworkTraceBuffer) and its summary per request, the log of     *)
(* filter decisions (FilterDecisionLog), the content filter, the           *)
(* structured query (NetworkFilterQuery) and the recorder of a trace file  *)
(* (ObtraceRecorder).                                                      *)
(*                                                                         *)
(* An event is [id, tab, kind, url, status, error, seq]; seq is its number *)
(* in the trace.  Headers, bodies, sizes, times, protocols and             *)
(* attributions, which are copied and shown only, are left out.            *)
(***************************************************************************)
EXTENDS Integers, Sequences

CONSTANTS
  MaxEvents,     \* CapturePolicy::max_events, 5000 in the program
  LogCapacity,   \* FilterDecisionLog::kDefaultCapacity, 2000 in the program
  NoStatus,      \* an event without a status
  NoError        \* an event without an error

ASSUME TraceAssumption == MaxEvents \in Nat \ {0} /\ LogCapacity \in Nat \ {0}

Newest(s, n) == IF Len(s) <= n THEN s ELSE SubSeq(s, Len(s) - n + 1, Len(s))

-----------------------------------------------------------------------------
\* NetworkTraceBuffer.

EmptyTrace == [events |-> <<>>, next |-> 1, dropped |-> 0]

Stamped(trace, event) == [event EXCEPT !.seq = trace.next]

Add(trace, event) ==
  LET kept == Newest(trace.events, MaxEvents - 1)
  IN  [events  |-> Append(kept, Stamped(trace, event)),
       next    |-> trace.next + 1,
       dropped |-> trace.dropped + Len(trace.events) - Len(kept)]

\* Mutant: clearing goes on counting.
ClearCounting(trace) == [EmptyTrace EXCEPT !.next = trace.next]

Clear(trace) == EmptyTrace

StateAfter(kind, state) ==
  CASE kind = "Finished" -> "Finished" [] kind = "Failed" -> "Failed" [] OTHER -> state

NewRow(event) ==
  [id |-> event.id, tab |-> event.tab, url |-> event.url, status |-> event.status,
   error |-> event.error, state |-> StateAfter(event.kind, "Active"),
   blocked |-> FALSE, layer |-> "none"]

\* Mutant: the address of a row stays the one it was first seen with.
UpdatedRowSameUrl(row, event) ==
  [row EXCEPT !.tab = event.tab,
              !.status = IF event.status = NoStatus THEN @ ELSE event.status,
              !.state = StateAfter(event.kind, @),
              !.error = IF event.kind = "Failed" THEN event.error ELSE @]

UpdatedRow(row, event) ==
  [row EXCEPT !.tab = event.tab,
              !.url = IF event.kind = "Redirect" THEN event.url ELSE @,
              !.status = IF event.status = NoStatus THEN @ ELSE event.status,
              !.state = StateAfter(event.kind, @),
              !.error = IF event.kind = "Failed" THEN event.error ELSE @]

\* One row per request id, in the order the ids are first met.
Summarised(rows, event) ==
  IF \E i \in DOMAIN rows : rows[i].id = event.id
  THEN [i \in DOMAIN rows |->
          IF rows[i].id = event.id THEN UpdatedRow(rows[i], event) ELSE rows[i]]
  ELSE Append(rows, NewRow(event))

\* FilterDecisionLog::FindByRequestId: the newest decision about a request.
About(log, id) == {i \in DOMAIN log : log[i].id = id}
FindByRequestId(log, id) == log[CHOOSE i \in About(log, id) :
                                  \A j \in About(log, id) : j <= i]

WithDecision(row, log) ==
  LET found == FindByRequestId(log, row.id) IN
  IF About(log, row.id) = {} THEN row
  ELSE [row EXCEPT !.blocked = found.blocked, !.layer = found.layer]

\* tabs: the tabs whose events count.
AggregateRequests(trace, log, tabs) ==
  LET after[i \in 0 .. Len(trace.events)] ==
        IF i = 0 THEN <<>>
        ELSE IF trace.events[i].tab \in tabs THEN Summarised(after[i - 1], trace.events[i])
        ELSE after[i - 1]
      rows == after[Len(trace.events)]
  IN  [i \in DOMAIN rows |-> WithDecision(rows[i], log)]

HasStatus(row, from, to) == row.status # NoStatus /\ from <= row.status /\ row.status < to

QueryRequests(trace, log, tabs, filter) ==
  LET matches(row) ==
        CASE filter = "ALL" -> TRUE
          [] filter = "2XX" -> HasStatus(row, 200, 300)
          [] filter = "ERR" -> \/ row.state = "Failed"
                               \/ row.status # NoStatus /\ row.status >= 400
  IN  SelectSeq(AggregateRequests(trace, log, tabs), matches)

-----------------------------------------------------------------------------
\* NetworkFilterQuery: a query is a set of clauses, all of which must hold.

EvaluateTerm(clause, row) ==
  CASE clause.field = "is" ->
         (row.state = clause.value) \/ (clause.value = "Blocked" /\ row.error \in {"policy", "filter"})
    [] clause.field \in {"blocked", "decision"} -> row.blocked = clause.value
    [] clause.field = "status" -> HasStatus(row, clause.from, clause.to)
    [] OTHER -> FALSE

Matches(query, row) == \A clause \in query : EvaluateTerm(clause, row) # clause.negate

Filtered(query, rows) == LET matches(row) == Matches(query, row) IN SelectSeq(rows, matches)

-----------------------------------------------------------------------------
\* FilterDecisionLog::AddDecision and ContentFilter::Evaluate.

AddDecision(log, decision) == Append(Newest(log, LogCapacity - 1), decision)

Decision(id, blocked, layer) == [id |-> id, blocked |-> blocked, layer |-> layer]

Evaluate(filter, url) ==
  IF url \in filter.trackers /\ url \notin filter.allowed THEN "Block" ELSE "Allow"

-----------------------------------------------------------------------------
\* ObtraceRecorder: of the file, its last line and how many events it holds.

Line(kind, number) == [kind |-> kind, number |-> number]

NewRecorder ==
  [recording |-> FALSE, private |-> FALSE, count |-> 0, last |-> Line("none", 0), events |-> 0]

StartRecording(recorder) ==
  IF recorder.recording \/ recorder.private THEN recorder
  ELSE [recorder EXCEPT !.recording = TRUE, !.count = 0, !.last = Line("start", 0), !.events = 0]

StopRecording(recorder) ==
  IF ~recorder.recording THEN recorder
  ELSE [recorder EXCEPT !.recording = FALSE, !.last = Line("end", recorder.count)]

SetPrivateMode(recorder, private) ==
  LET set == [recorder EXCEPT !.private = private]
  IN  IF private THEN StopRecording(set) ELSE set

RecordEvent(recorder, event) ==
  IF ~recorder.recording \/ recorder.private THEN recorder
  ELSE [recorder EXCEPT !.count = @ + 1, !.last = Line("event", event.seq), !.events = @ + 1]

OnTraceCleared(recorder) ==
  IF ~recorder.recording THEN recorder
  ELSE [recorder EXCEPT !.last = Line("cleared", 0)]
=============================================================================
