---------------------------- MODULE Permissions ----------------------------
(***************************************************************************)
(* Permission prompts: the requests of pages, the prompts the engine       *)
(* adapter keeps pending, the banner of the chrome, which shows one prompt *)
(* of the active tab, and the rules that remembered answers leave in the   *)
(* policy and its file; and the address field, whose origin the security   *)
(* details show and reset.                                                 *)
(*                                                                         *)
(* Tabs are reduced to which are open, closing and active; which tab comes *)
(* up after another is left to the modules about the session.  External:   *)
(* when pages and the frames in them ask, when Chromium withdraws a        *)
(* prompt, and how it spells the origin of a request.                      *)
(***************************************************************************)
EXTENDS CapabilityOps, Integers, FiniteSetsExt

CONSTANTS
  Persistent,    \* tabs outside private mode
  Ephemeral,     \* tabs of private mode
  NoTab,
  Origins,       \* origins pages have, as ExtractOrigin gives them
  Spelled,       \* Spelled[o]: origin o as a request names it
  MediaIds,      \* prompt ids the adapter numbers, for media access
  PromptIds,     \* prompt ids Chromium gives
  NoPrompt,
  LateRequests   \* whether a browser that is closing may still ask

Tabs == Persistent \cup Ephemeral
Prompts == PromptIds \cup MediaIds

ASSUME TabsAssumption == Persistent \cap Ephemeral = {} /\ NoTab \notin Tabs
ASSUME PromptsAssumption == Prompts \subseteq Nat /\ NoPrompt \notin Prompts
ASSUME OriginsAssumption == NoName \notin Origins

VARIABLES
  tabs,      \* the session and the surfaces: open, closing, active
  site,      \* the origin of the address each tab is at or on its way to
  private,   \* private_mode_ of the chrome, and the profile
  pending,   \* CefBrowserEngine::pending_prompts_
  banner,    \* BrowserChrome::current_prompt_id_
  address,   \* address_editing_ and current_origin_
  policy,    \* CapabilityPolicy
  file,      \* permissions.json: its origin rules, and whether the last save failed
  answers    \* external: how often each callback was called, -1 before it exists

vars == <<tabs, site, private, pending, banner, address, policy, file, answers>>

IsVisible(t) == t \in (IF private THEN Ephemeral ELSE Persistent)

Init ==
  /\ \E t \in Persistent : tabs = [open |-> {t}, closing |-> {}, active |-> t]
  /\ site \in [Tabs -> Origins]
  /\ private = FALSE
  /\ pending = <<>> /\ banner = NoPrompt
  /\ address = [editing |-> FALSE, origin |-> site[tabs.active]]
  /\ policy = DefaultPolicy
  /\ file = [rules |-> <<>>, stale |-> FALSE]
  /\ answers = [p \in Prompts |-> 0 - 1]

-----------------------------------------------------------------------------
\* The pending prompts and the banner.

Pick(ids) == CHOOSE p \in ids : \A q \in ids : p <= q

\* FindPromptForTab walks the map in the order of the ids.
FindPromptForTab(prompts, t) ==
  LET of == {p \in DOMAIN prompts : prompts[p].tab = t}
  IN  IF of = {} THEN NoPrompt ELSE Pick(of)

\* What a session change leaves in the banner; without an active tab it stays.
BannerAfterChange(active, prompts, shown) ==
  IF active = NoTab THEN shown ELSE FindPromptForTab(prompts, active)

\* DismissPermissionPrompt and the observer it tells, for a set of prompts.
Without(prompts, ids) == [p \in DOMAIN prompts \ ids |-> prompts[p]]
BannerWithout(shown, ids) == IF shown \in ids THEN NoPrompt ELSE shown

PromptsOf(ts) == {p \in DOMAIN pending : pending[p].tab \in ts}

\* SyncAddressFromSession leaves the field alone while it is being edited.
Synced(field, active, sites) ==
  IF field.editing THEN field
  ELSE [field EXCEPT !.origin = IF active = NoTab THEN NoName ELSE sites[active]]

\* Mutant: closing a tab forgets its prompts and tells nobody.
SessionBecomesQuietly(open, closed, active) ==
  /\ tabs' = [open |-> open, closing |-> (tabs.closing \ open) \cup closed, active |-> active]
  /\ pending' = Without(pending, PromptsOf(closed))
  /\ banner' = banner
  /\ address' = Synced(address, active, site)

\* The session changed: tabs closed went away, active came up.
SessionBecomes(open, closed, active) ==
  LET left == Without(pending, PromptsOf(closed)) IN
  /\ tabs' = [open |-> open, closing |-> (tabs.closing \ open) \cup closed, active |-> active]
  /\ pending' = left
  /\ banner' = BannerAfterChange(active, left, BannerWithout(banner, PromptsOf(closed)))
  /\ address' = Synced(address, active, site)

-----------------------------------------------------------------------------
\* Pages and Chromium.

Register(p, t, origin, capabilities) ==
  /\ pending' = [q \in {p} \cup DOMAIN pending |->
                   IF q = p THEN [tab |-> t, origin |-> origin, caps |-> capabilities]
                   ELSE pending[q]]
  /\ banner' = IF tabs.active = t THEN p ELSE banner

\* OnShowPermissionPrompt and OnRequestMediaAccessPermission.
Request(p, t, origin, capabilities) ==
  /\ t \in tabs.open \cup (IF LateRequests THEN tabs.closing ELSE {})
  /\ answers[p] = 0 - 1
  /\ \A q \in Prompts : answers[q] = 0 - 1 /\ (q \in MediaIds <=> p \in MediaIds) => p <= q
  /\ IF Outcome(policy, origin, capabilities) = "Ask"
     THEN /\ Register(p, t, origin, capabilities)
          /\ answers' = [answers EXCEPT ![p] = 0]
     ELSE /\ answers' = [answers EXCEPT ![p] = 1]
          /\ UNCHANGED <<pending, banner>>
  /\ UNCHANGED <<tabs, site, private, address, policy, file>>

\* Chromium withdraws the prompts it numbered, answered or not.
OnDismissPermissionPrompt(p) ==
  /\ p \in PromptIds /\ answers[p] # 0 - 1
  /\ p \in DOMAIN pending
  /\ pending' = Without(pending, {p})
  /\ banner' = BannerWithout(banner, {p})
  /\ UNCHANGED <<tabs, site, private, address, policy, file, answers>>

\* A tab goes to another address: the session tells the chrome.
Arrive(t, field) ==
  /\ t \in tabs.open
  /\ \E o \in Origins :
       /\ site' = [site EXCEPT ![t] = o]
       /\ address' = Synced(field, tabs.active, site')
  /\ banner' = BannerAfterChange(tabs.active, pending, banner)
  /\ UNCHANGED <<tabs, private, pending, policy, file, answers>>

Commit(t) == Arrive(t, address)

BrowserGone(t) ==
  /\ t \in tabs.closing
  /\ tabs' = [tabs EXCEPT !.closing = @ \ {t}]
  /\ UNCHANGED <<site, private, pending, banner, address, policy, file, answers>>

-----------------------------------------------------------------------------
\* The shell.  A tab id comes up again once its old browser is gone.

OpenTab(t) ==
  /\ t \notin tabs.open \cup tabs.closing /\ IsVisible(t)
  /\ SessionBecomes(tabs.open \cup {t}, {}, t)
  /\ UNCHANGED <<site, private, policy, file, answers>>

ActivateTab(t) ==
  /\ t \in tabs.open \ {tabs.active} /\ IsVisible(t)
  /\ SessionBecomes(tabs.open, {}, t)
  /\ UNCHANGED <<site, private, policy, file, answers>>

CloseTab(t) ==
  LET others == {u \in tabs.open \ {t} : IsVisible(u)} IN
  /\ t \in tabs.open /\ IsVisible(t)
  /\ private => others # {}
  /\ \E next \in (IF tabs.active # t THEN {tabs.active}
                  ELSE IF others = {} THEN {NoTab} ELSE others) :
       SessionBecomes(tabs.open \ {t}, {t}, next)
  /\ UNCHANGED <<site, private, policy, file, answers>>

EnterPrivateMode ==
  /\ ~private /\ private' = TRUE
  /\ \E t \in Ephemeral \ (tabs.open \cup tabs.closing) : SessionBecomes(tabs.open \cup {t}, {}, t)
  /\ UNCHANGED <<site, policy, file, answers>>

\* Leaving closes the private tabs and goes back to a persistent one.
ExitPrivateMode ==
  /\ private /\ private' = FALSE
  /\ \E t \in Persistent \ tabs.closing :
       /\ t \in tabs.open \/ tabs.open \subseteq Ephemeral
       /\ SessionBecomes((tabs.open \ Ephemeral) \cup {t}, tabs.open \cap Ephemeral, t)
  /\ UNCHANGED <<site, policy, file, answers>>

-----------------------------------------------------------------------------
\* The banner's buttons and the security details.

\* Mutant: what is saved is what the rules were before.
SavedLater(rules) == file' = [rules |-> policy.origin, stale |-> FALSE]

\* TriggerAutoSave: the rules reach the file, or the write fails and nobody is told.
Saved(rules) ==
  \/ file' = [rules |-> rules, stale |-> FALSE]
  \/ file' = [rules |-> file.rules, stale |-> TRUE]

\* One rule for each capability of the prompt.
Remember(prompt, decision) ==
  FoldSet(LAMBDA c, rules : SetOrigin(rules, prompt.origin, c, decision), policy, prompt.caps)

RespondToPermission(p, decision, remember) ==
  /\ p \in DOMAIN pending
  /\ answers' = [answers EXCEPT ![p] = @ + 1]
  /\ IF remember
     THEN policy' = Remember(pending[p], decision) /\ Saved(policy'.origin)
     ELSE UNCHANGED <<policy, file>>
  /\ pending' = Without(pending, {p})
  /\ banner' = BannerWithout(banner, {p})
  /\ UNCHANGED <<tabs, site, private, address>>

AllowPermissionOnce == banner # NoPrompt /\ RespondToPermission(banner, "Allow", FALSE)
AlwaysAllowPermission == banner # NoPrompt /\ ~private /\ RespondToPermission(banner, "Allow", TRUE)

\* Mutant: blocking is remembered in private mode too.
BlockPermissionAlways == banner # NoPrompt /\ RespondToPermission(banner, "Deny", TRUE)

BlockPermission == banner # NoPrompt /\ RespondToPermission(banner, "Deny", ~private)

\* The button clears what the field last showed.
ResetOriginPermissions ==
  /\ ~private /\ address.origin \in DOMAIN policy.origin
  /\ policy' = ClearOriginRules(policy, address.origin)
  /\ Saved(policy'.origin)
  /\ UNCHANGED <<tabs, site, private, pending, banner, address, answers>>

-----------------------------------------------------------------------------
\* The address field.

HandleAddressUserAction ==
  /\ ~address.editing
  /\ address' = [address EXCEPT !.editing = TRUE]
  /\ UNCHANGED <<tabs, site, private, pending, banner, policy, file, answers>>

NotEditing == [address EXCEPT !.editing = FALSE]

\* Escape, the loss of the focus, and Enter on what is no address.
GiveUpEditing ==
  /\ address' = Synced(NotEditing, tabs.active, site)
  /\ UNCHANGED <<tabs, site, private, pending, banner, policy, file, answers>>

\* Mutant: what is no address is left standing.
EnterAddressAnyway ==
  /\ address.editing
  /\ \/ tabs.active # NoTab /\ Arrive(tabs.active, NotEditing)
     \/ /\ address' = NotEditing
        /\ UNCHANGED <<tabs, site, private, pending, banner, policy, file, answers>>

\* Enter on an address: a tab that is active is navigated, which tells the chrome.
EnterAddress ==
  /\ address.editing
  /\ \/ tabs.active # NoTab /\ Arrive(tabs.active, NotEditing)
     \/ /\ tabs.active = NoTab
        /\ address' = NotEditing
        /\ UNCHANGED <<tabs, site, private, pending, banner, policy, file, answers>>

\* The program ends, by itself or not, and starts again: the constructor of the
\* chrome loads the rules, and the callbacks of the old process are gone.
Restart ==
  /\ \E t \in Persistent : tabs' = [open |-> {t}, closing |-> {}, active |-> t]
  /\ private' = FALSE
  /\ pending' = <<>> /\ banner' = NoPrompt
  /\ address' = [editing |-> FALSE, origin |-> site[tabs'.active]]
  /\ policy' = [DefaultPolicy EXCEPT !.origin = file.rules]
  /\ file' = [file EXCEPT !.stale = FALSE]
  /\ UNCHANGED <<site, answers>>

Edit == HandleAddressUserAction \/ GiveUpEditing \/ EnterAddress

Press == AllowPermissionOnce \/ AlwaysAllowPermission \/ BlockPermission \/ ResetOriginPermissions

Next ==
  \/ \E p \in Prompts, t \in Tabs, o \in Origins, caps \in SUBSET Capabilities \ {{}} :
       Request(p, t, Spelled[o], caps)
  \/ \E p \in Prompts : OnDismissPermissionPrompt(p)
  \/ \E t \in Tabs : Commit(t) \/ BrowserGone(t) \/ OpenTab(t) \/ ActivateTab(t) \/ CloseTab(t)
  \/ EnterPrivateMode
  \/ ExitPrivateMode
  \/ Press
  \/ Edit
  \/ Restart

Spec == Init /\ [][Next]_vars

-----------------------------------------------------------------------------
\* The banner shows a prompt that is still pending, of the active tab, and a
\* prompt is pending only for an open tab: it goes with the tab, whoever closes
\* it and whatever comes up instead (hazard at the dismissal of prompts).
BannerIsPending ==
  /\ banner # NoPrompt => /\ banner \in DOMAIN pending
                          /\ pending[banner].tab = tabs.active
  /\ \A p \in DOMAIN pending : pending[p].tab \in tabs.open

\* No request is answered twice, by a rule, a press or a press after a
\* withdrawal, and what is pending has not been answered.
AnsweredOnce ==
  /\ \A p \in Prompts : answers[p] <= 1
  /\ \A p \in DOMAIN pending : answers[p] = 0

\* Both: what is asked, shown and answered belong together.
PromptsAreSound == BannerIsPending /\ AnsweredOnce

\* The chrome shows, and resets, the rules of the origin of the active tab, but
\* for the time the address is being edited: then it keeps the one it had.
OriginIsCurrent ==
  tabs.active # NoTab /\ ~address.editing => address.origin = site[tabs.active]

\* Neither a private session nor a prompt of a private tab adds, changes or
\* removes a rule, in memory or in the file; a restart goes back to the file's.
NothingPrivateIsRemembered ==
  [][private \/ (banner # NoPrompt /\ pending[banner].tab \in Ephemeral)
       => /\ file'.rules = file.rules
          /\ policy'.origin \in {policy.origin, file.rules}]_vars

\* A rule lasts: the program starts with the rules it ended with, unless the
\* last write failed.
RulesSurviveRestart == ~file.stale => file.rules = policy.origin
=============================================================================
