--------------------------- MODULE CapabilityOps ---------------------------
(***************************************************************************)
(* CapabilityPolicy as operators on a record of four tables of rules:      *)
(* global maps a capability to a decision, and workspace, origin and       *)
(* session map a name to such a table.  A table holds no key it has no     *)
(* rule for.  An address is a record of its scheme and its origin, which   *)
(* are none where ExtractScheme and ExtractOrigin find nothing.            *)
(***************************************************************************)
EXTENDS Naturals, TLC

CONSTANTS
  Capabilities,  \* the capabilities that are told apart
  NoName         \* an empty scheme, origin, workspace or session

Decisions == {"Allow", "Deny", "Ask"}

\* The rules of CreateDefault for what pages ask for, and for loading pages.
Asking == {"Camera", "Microphone", "Geolocation", "Notifications", "ClipboardRead",
           "ClipboardWrite"}
Allowed == {"PageNetwork", "UpdateCheck", "FilterUpdate", "Dns", "PersistentStorage"}
Denied == {"ThirdPartyStorage", "ExternalService", "Automation", "Torrent", "CrashReport"}

DefaultPolicy ==
  [global    |-> [c \in Capabilities \cap (Asking \cup Allowed \cup Denied) |->
                    IF c \in Asking THEN "Ask" ELSE IF c \in Allowed THEN "Allow" ELSE "Deny"],
   workspace |-> <<>>, origin |-> <<>>, session |-> <<>>]

RulesOf(table, name) == IF name \in DOMAIN table THEN table[name] ELSE <<>>

WithRule(table, name, capability, decision) ==
  (name :> ((capability :> decision) @@ RulesOf(table, name))) @@ table

SetOrigin(policy, origin, capability, decision) ==
  IF origin = NoName THEN policy
  ELSE [policy EXCEPT !.origin = WithRule(@, origin, capability, decision)]

ClearOriginRules(policy, origin) ==
  [policy EXCEPT !.origin = [o \in DOMAIN @ \ {origin} |-> @[o]]]

\* The narrowest scope that has a rule decides; nothing decided is denied.
Resolve(policy, capability, context) ==
  LET scopes == <<RulesOf(policy.session, context.session),
                  RulesOf(policy.origin, context.origin),
                  RulesOf(policy.workspace, context.workspace),
                  policy.global>>
      deciding == {i \in 1 .. 4 : capability \in DOMAIN scopes[i]}
  IN  IF deciding = {} THEN "Deny"
      ELSE scopes[CHOOSE i \in deciding : \A j \in deciding : i <= j][capability]

ByOrigin(origin) == [session |-> NoName, origin |-> origin, workspace |-> NoName]

Scripts == {"javascript", "vbscript"}

CanNavigate(policy, url) ==
  \/ url.scheme = "about"
  \/ /\ url.scheme \notin Scripts \cup {NoName}
     /\ Resolve(policy, "PageNetwork", ByOrigin(url.origin)) = "Allow"

CanLoadResource(policy, url) ==
  \/ url.scheme \in {"data", "blob", "about"}
  \/ /\ url.scheme \notin Scripts \cup {NoName}
     /\ Resolve(policy, "PageNetwork", ByOrigin(url.origin)) = "Allow"

\* What a request for several capabilities comes to before anybody is asked.
Outcome(policy, origin, capabilities) ==
  LET decided == {Resolve(policy, c, ByOrigin(origin)) : c \in capabilities}
  IN  IF decided = {} \/ "Deny" \in decided THEN "Deny"
      ELSE IF decided = {"Allow"} THEN "Allow" ELSE "Ask"
=============================================================================
