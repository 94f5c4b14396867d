---------------------------- MODULE NetworkTrace ----------------------------
(***************************************************************************)
(* The Network Lab: the resource handlers that Chromium calls on its IO    *)
(* thread, the events they post to the UI thread, the trace, the recorder  *)
(* and the panel there, and private mode.                                  *)
(*                                                                         *)
(* External: the life of a request, and the tasks of the UI thread, which  *)
(* run in the order they are posted.  An address is a record of a scheme   *)
(* and an origin.  A persistent tab and a private one, which is there      *)
(* while the mode is on, stand for all tabs.                               *)
(***************************************************************************)
EXTENDS TraceOps, CapabilityOps

CONSTANTS
  Requests,        \* the requests of pages and frames
  MainFrame,       \* those that load the page of a tab
  TabOfRequest,    \* TabOfRequest[r]: the tab of request r
  PublicTab, PrivateTab,
  UrlsOf,          \* UrlsOf[r]: the addresses request r may be for
  Trackers,        \* addresses that a rule of the filter matches
  Excused,         \* addresses a mitigation frees of tracker protection
  Policy,          \* the rules of CapabilityPolicy
  Queries,         \* structured queries that are typed
  Statuses,        \* statuses of responses
  Pressed,         \* bound: the buttons of the panel that are pressed
  NoId,            \* no request id
  MaxRows,         \* rows of the panel, 7 in the program
  MaxTasks,        \* bound: tasks of the UI thread that wait
  MaxGestures,     \* bound: how often the user does something
  ReportsCancelled \* whether Chromium reports the end of what a handler cancelled

Tabs == {PublicTab, PrivateTab}

ASSUME TabOfRequestAssumption == TabOfRequest \in [Requests -> Tabs]

Filter == [trackers |-> Trackers, allowed |-> {}]

VARIABLES
  net,       \* external: each request, where it stands and its address
  clients,   \* CefTabClient: trace_request_ids_ and next_trace_request_id_
  fate,      \* history: what became of each request id, and its last address
  tasks,     \* tasks posted to the UI thread
  trace,     \* network_trace_
  log,       \* filter_decision_log_
  recorder,  \* obtrace_recorder_
  private,   \* whether the active profile is ephemeral
  panel,     \* NetworkLabPanel
  turns      \* bound: what the user has done so far

traceVars == <<net, clients, fate, tasks, trace, log, recorder, private, panel, turns>>
uiVars == <<trace, recorder, private, panel, turns>>

\* f with k mapped to v.
With(f, k, v) == [x \in DOMAIN f \cup {k} |-> IF x = k THEN v ELSE f[x]]

ActiveTab == IF private THEN PrivateTab ELSE PublicTab

\* What the panel shows: a table of rows, a request, or the decisions.
EmptyTable == [kind |-> "table", rows |-> <<>>]

TraceInit ==
  /\ net = [r \in Requests |-> [at |-> "none", url |-> CHOOSE u \in UrlsOf[r] : TRUE, hops |-> 0]]
  /\ clients = [t \in Tabs |-> [next |-> 1, ids |-> <<>>]]
  /\ fate = <<>> /\ tasks = <<>>
  /\ trace = EmptyTrace /\ log = <<>> /\ recorder = NewRecorder
  /\ private = FALSE /\ turns = 0
  /\ panel = [visible |-> FALSE, told |-> FALSE, tab |-> "Requests", selected |-> NoId,
              scoped |-> FALSE, status |-> "ALL", query |-> {},
              view |-> EmptyTable]

-----------------------------------------------------------------------------
\* The IO thread.  Every handler names the request by its trace id, which is
\* given at the first call and forgotten at the last.

Client(r) == clients[TabOfRequest[r]]

TraceRequestId(r) ==
  IF r \in DOMAIN Client(r).ids THEN Client(r).ids[r] ELSE <<TabOfRequest[r], Client(r).next>>

Remembering(r) ==
  [clients EXCEPT ![TabOfRequest[r]] =
     IF r \in DOMAIN @.ids THEN @
     ELSE [next |-> @.next + 1, ids |-> With(@.ids, r, <<TabOfRequest[r], @.next>>)]]

Forgetting(r) ==
  [Remembering(r) EXCEPT ![TabOfRequest[r]].ids = [q \in DOMAIN @ \ {r} |-> @[q]]]

Event(r, kind, url, status, error) ==
  [id |-> TraceRequestId(r), tab |-> TabOfRequest[r], kind |-> kind, url |-> url,
   status |-> status, error |-> error, seq |-> 0]

\* PostNetworkEvent: delivery is a task of the UI thread.
Delivery(event) == [kind |-> "deliver", event |-> event]

Post(deliveries) ==
  /\ Len(tasks) + Len(deliveries) <= MaxTasks
  /\ tasks' = tasks \o deliveries

Fate(r, end, url) == fate' = With(fate, TraceRequestId(r), [end |-> end, url |-> url])

\* OnBeforeResourceLoad cancels the request.
Block(r, reason, decision) ==
  LET url == net[r].url IN
  /\ Post(<<Delivery(Event(r, "Started", url, NoStatus, NoError)),
             Delivery(Event(r, "Failed", url, NoStatus, reason))>>)
  /\ log' = AddDecision(log, decision)
  /\ Fate(r, reason, url)
  /\ clients' = Forgetting(r)
  /\ net' = [net EXCEPT ![r].at = IF ReportsCancelled THEN "cancelled" ELSE "over"]
  /\ UNCHANGED uiVars

Load(r, decision) ==
  /\ Post(<<Delivery(Event(r, "Started", net[r].url, NoStatus, NoError))>>)
  /\ log' = AddDecision(log, decision)
  /\ Fate(r, "open", net[r].url)
  /\ clients' = Remembering(r)
  /\ net' = [net EXCEPT ![r].at = "loading"]
  /\ UNCHANGED uiVars

OnBeforeResourceLoad(r) ==
  LET url == net[r].url  id == TraceRequestId(r)
      verdict == Evaluate(Filter, url) IN
  /\ net[r].at = "starting"
  /\ IF ~CanLoadResource(Policy, url)
     THEN Block(r, "policy", Decision(id, TRUE, "CapabilityPolicy"))
     ELSE IF url \in Excused
     THEN Load(r, Decision(id, FALSE, "UserAgentPolicy"))
     ELSE IF verdict = "Block"
     THEN Block(r, "filter", Decision(id, TRUE, "ContentFilter"))
     ELSE Load(r, Decision(id, FALSE, "ContentFilter"))

\* OnBeforeBrowse lets the navigation of a main frame begin or refuses it.
Begin(r) ==
  /\ net[r].at = "none" /\ (TabOfRequest[r] = PrivateTab => private)
  /\ \E u \in UrlsOf[r] :
       /\ r \in MainFrame => CanNavigate(Policy, u)
       /\ net' = [net EXCEPT ![r] = [at |-> "starting", url |-> u, hops |-> 0]]
  /\ UNCHANGED <<clients, fate, tasks, log, uiVars>>

\* A redirect starts the request over, under the same id.
OnResourceRedirect(r) ==
  /\ net[r].at = "loading" /\ net[r].hops = 0
  /\ \E u \in UrlsOf[r] \ {net[r].url} :
       /\ Post(<<Delivery(Event(r, "Redirect", u, 302, NoError))>>)
       /\ Fate(r, "open", u)
       /\ net' = [net EXCEPT ![r] = [at |-> "starting", url |-> u, hops |-> 1]]
  /\ clients' = Remembering(r)
  /\ UNCHANGED <<log, uiVars>>

OnResourceResponse(r) ==
  /\ net[r].at = "loading"
  /\ \E s \in Statuses : Post(<<Delivery(Event(r, "Response", net[r].url, s, NoError))>>)
  /\ net' = [net EXCEPT ![r].at = "answered"]
  /\ clients' = Remembering(r)
  /\ UNCHANGED <<fate, log, uiVars>>

\* Of what a handler cancelled Chromium may report the end, under a new id.
OnResourceLoadComplete(r) ==
  /\ net[r].at \in {"loading", "answered", "cancelled"}
  /\ \E kind \in {"Finished", "Failed"} :
       /\ kind = "Finished" => net[r].at = "answered"
       /\ Post(<<Delivery(Event(r, kind, net[r].url, NoStatus,
                               IF kind = "Failed" THEN "net" ELSE NoError))>>)
       /\ Fate(r, IF kind = "Finished" THEN "finished" ELSE "net", net[r].url)
  /\ clients' = Forgetting(r)
  /\ net' = [net EXCEPT ![r].at = "over"]
  /\ UNCHANGED <<log, uiVars>>

-----------------------------------------------------------------------------
\* RebuildView, given the trace and the active tab it finds.

Scope(p, active) == IF p.scoped THEN {active} ELSE Tabs

FindRequest(theTrace, id) ==
  SelectSeq(AggregateRequests(theTrace, log, Tabs), LAMBDA row : row.id = id)

Rebuilt(p, theTrace, active) ==
  LET found == FindRequest(theTrace, p.selected)
      rows  == Filtered(p.query, QueryRequests(theTrace, log, Scope(p, active), p.status))
  IN  CASE p.tab = "Decisions" -> [p EXCEPT !.view = [kind |-> "decisions", rows |-> log]]
        [] p.tab = "Requests" /\ p.selected # NoId /\ found # <<>> ->
             [p EXCEPT !.view = [kind |-> "details", rows |-> found]]
        [] OTHER -> [p EXCEPT !.view = [kind |-> "table", rows |-> Newest(rows, MaxRows)],
                              !.selected = NoId]

\* What is shown is kept while the panel is shown and has been rebuilt since: a
\* panel that is shown again still shows what it did, which may be anything.
Refreshed(p, theTrace, active) ==
  IF p.visible THEN [Rebuilt(p, theTrace, active) EXCEPT !.told = TRUE]
  ELSE [Rebuilt(p, theTrace, active) EXCEPT !.view = EmptyTable]

\* What the panel does when the trace or the session tells it of a change.
Told(p, theTrace, active) == IF p.visible THEN Refreshed(p, theTrace, active) ELSE p

\* Mutant: the panel looks at the session only when its own scope changes.
SessionToldNever(p, theTrace, active) == p

SessionTold(p, theTrace, active) == IF p.scoped THEN Told(p, theTrace, active) ELSE p

Others == UNCHANGED <<net, clients, fate, log>>

\* DeliverNetworkEventOnUi: the trace, then the recorder, then the panel.
Deliver(event) ==
  /\ trace' = Add(trace, event)
  /\ recorder' = RecordEvent(recorder, Stamped(trace, event))
  /\ panel' = Told(panel, trace', ActiveTab)
  /\ UNCHANGED private

\* SetVisible rebuilds nothing.
Turned(visible) == [panel EXCEPT !.visible = visible, !.told = FALSE, !.view = EmptyTable]

\* A press on the panel; every press but Close and Clear rebuilds.
HandleAction(press) ==
  LET p == [panel EXCEPT !.selected = IF press.action = "Select" THEN press.id
                                      ELSE IF press.action \in {"Deselect", "Requests", "Apply"}
                                      THEN NoId ELSE @,
                         !.scoped = IF press.action = "Scope" THEN ~@ ELSE @,
                         !.status = IF press.action # "Status" THEN @
                                    ELSE CASE @ = "ALL" -> "2XX" [] @ = "2XX" -> "ERR"
                                           [] OTHER -> "ALL",
                         !.tab = IF press.action \in {"Requests", "Decisions"}
                                 THEN press.action ELSE @,
                         !.query = IF press.action = "Apply" THEN press.query ELSE @]
  IN  IF press.action = "Close"
      THEN panel' = Turned(FALSE) /\ UNCHANGED <<trace, recorder, private>>
      ELSE IF press.action = "Clear"
      THEN /\ trace' = Clear(trace)
           /\ recorder' = OnTraceCleared(recorder)
           /\ panel' = Told([panel EXCEPT !.selected = NoId], trace', ActiveTab)
           /\ UNCHANGED private
      ELSE panel' = Refreshed(p, trace, ActiveTab) /\ UNCHANGED <<trace, recorder, private>>

RunTask ==
  /\ tasks # <<>> /\ tasks' = Tail(tasks)
  /\ IF Head(tasks).kind = "deliver" THEN Deliver(Head(tasks).event) ELSE HandleAction(Head(tasks))
  /\ Others /\ UNCHANGED turns

\* A button of what is shown is pressed: its action is a task.
Kinds == IF panel.told THEN {panel.view.kind} ELSE {"table", "details", "decisions"}

PanelButtons ==
  {"Requests", "Decisions", "Close"} \cup
  (IF "table" \in Kinds THEN {"Scope", "Status", "Clear", "Select", "Apply"} ELSE {}) \cup
  (IF "details" \in Kinds THEN {"Deselect"} ELSE {})

ListedIds == IF panel.told THEN {panel.view.rows[i].id : i \in DOMAIN panel.view.rows} ELSE DOMAIN fate

\* Whatever the user does is counted.
Gesture == turns < MaxGestures /\ turns' = turns + 1 /\ Others

PressPanel ==
  /\ panel.visible /\ Len(tasks) < MaxTasks
  /\ \E action \in PanelButtons \cap Pressed, id \in {NoId} \cup ListedIds, query \in Queries :
       /\ action = "Select" <=> id # NoId
       /\ action = "Apply" \/ query = {}
       /\ tasks' = Append(tasks, [kind |-> "press", action |-> action, id |-> id, query |-> query])
  /\ UNCHANGED <<trace, recorder, private, panel>> /\ Gesture

\* ToggleNetworkLab, and another panel that takes its place.
Toggle ==
  /\ panel' = Turned(~panel.visible)
  /\ UNCHANGED <<tasks, trace, recorder, private>> /\ Gesture

ToggleLiveTraceRecording ==
  /\ recorder.recording \/ ~private
  /\ recorder' = IF recorder.recording THEN StopRecording(recorder) ELSE StartRecording(recorder)
  /\ UNCHANGED <<tasks, trace, private, panel>> /\ Gesture

\* The orchestrator tells the recorder, and the session its observers.
SwitchProfile ==
  /\ private' = ~private
  /\ recorder' = SetPrivateMode(recorder, private')
  /\ panel' = SessionTold(panel, trace, IF private' THEN PrivateTab ELSE PublicTab)
  /\ UNCHANGED <<tasks, trace>> /\ Gesture

TraceNext ==
  \/ \E r \in Requests :
       \/ Begin(r) \/ OnBeforeResourceLoad(r) \/ OnResourceRedirect(r)
       \/ OnResourceResponse(r) \/ OnResourceLoadComplete(r)
  \/ RunTask
  \/ PressPanel
  \/ Toggle
  \/ ToggleLiveTraceRecording
  \/ SwitchProfile

TraceSpec == TraceInit /\ [][TraceNext]_traceVars

-----------------------------------------------------------------------------
Waiting(id) == \E i \in DOMAIN tasks : tasks[i].kind = "deliver" /\ tasks[i].event.id = id

Rows == AggregateRequests(trace, log, Tabs)

StateOf(end) == CASE end = "open" -> "Active" [] end = "finished" -> "Finished" [] OTHER -> "Failed"

\* Whatever was dropped or cleared, a request that is listed, and of which no
\* event is on its way, is listed as what became of it: its state, its last
\* address, and a decision to block it, if the log still has it.
RowsTellFate ==
  \A i \in DOMAIN Rows :
    LET row == Rows[i]  end == fate[row.id].end  blocked == end \in {"policy", "filter"} IN
    /\ ~Waiting(row.id) => /\ row.state = StateOf(end)
                           /\ row.url = fate[row.id].url
                           /\ blocked => row.error = end
    /\ row.blocked => blocked
    /\ blocked /\ About(log, row.id) # {} => row.blocked
    /\ blocked /\ Len(log) < LogCapacity => row.blocked

\* A recording misses no event: between two clearings its numbers follow each
\* other, after one they start again, and its last line counts them.
RecordingIsWhole ==
  [][LET last == recorder.last  line == recorder'.last
         written == recorder'.events = recorder.events + 1
     IN  /\ written => /\ recorder.recording /\ line.kind = "event"
                       /\ last.kind = "event"   => line.number = last.number + 1
                       /\ last.kind = "cleared" => line.number = 1
         /\ recorder.recording /\ ~recorder'.recording
              => line.kind = "end" /\ line.number = recorder.events
         /\ recorder.recording /\ recorder'.recording /\ trace'.next # trace.next
              => written \/ line.kind = "cleared"]_traceVars

\* The panel shows what it would build now: once it has been told of something
\* since it was last shown, nothing changes behind its back, except that a
\* decision is in the log before the event that tells of it.
ViewIsCurrent ==
  panel.visible /\ panel.told /\ (\A i \in DOMAIN tasks : tasks[i].kind = "press")
    => panel = Rebuilt(panel, trace, ActiveTab)
=============================================================================
