------------------------- MODULE PrivateModeProofs -------------------------
(***************************************************************************)
(* Private mode for any set of ids and addresses and any number of tabs,   *)
(* browsers and private sessions: the modes share nothing, no address of   *)
(* private mode is recorded, and the persistent tabs are kept.             *)
(***************************************************************************)
EXTENDS PrivateMode, SessionLemmas, FiniteSetTheorems

\* The ids the program makes: "private-tab-n", "restored-n" and "tab-n" are different
\* strings and none is the first tab's, two numbers give two ids, and a number of "tab-n"
\* comes up again only when its old browser is gone.
FreshIds ==
  /\ ~HastyReuse
  /\ DOMAIN NumberedId \cup DOMAIN PrivateId \cup DOMAIN RestoredId \subseteq Nat
  /\ \A n \in DOMAIN PrivateId :
       /\ PrivateId[n] # InitialId
       /\ \A m \in DOMAIN NumberedId : PrivateId[n] # NumberedId[m]
       /\ \A m \in DOMAIN RestoredId : PrivateId[n] # RestoredId[m]
       /\ \A m \in DOMAIN PrivateId : PrivateId[n] = PrivateId[m] => n = m
  /\ \A n \in DOMAIN RestoredId :
       /\ RestoredId[n] # InitialId
       /\ \A m \in DOMAIN NumberedId : RestoredId[n] # NumberedId[m]
       /\ \A m \in DOMAIN RestoredId : RestoredId[n] = RestoredId[m] => n = m

\* The new-tab page is no secret.
PublicNewTab == NewTabUrl \notin SecretUrls

\* Closed records that betray nothing, and those that may stay outside private mode.
HarmlessRecords == {rec \in Memorable : rec.eph \/ rec.url \notin SecretUrls}
DurableRecords == {rec \in Memorable : ~rec.eph /\ rec.url \notin SecretUrls}

\* A page is where its tab's privacy says, and shows no secret unless it is private.
PageSafe(s, t) ==
  /\ s.engine.context[t] = IF s.tab[t].eph THEN s.engine.shared ELSE Profile
  /\ s.tab[t].eph => s.engine.shared # Profile
  /\ ~s.tab[t].eph => s.tab[t].url \notin SecretUrls

\* What holds of a session at every moment, between the calls of one transition too.
PagesSafe(s) ==
  /\ Follows(s)
  /\ \A t \in Open(s) : PageSafe(s, t)
  /\ s.closed \in Seq(HarmlessRecords)

\* What holds of it between two transitions, in private mode or outside.
ModeSafe(s, p) ==
  /\ PagesSafe(s)
  /\ s.engine.private = p
  /\ s.active # NoTabId => s.tab[s.active].eph = p
  /\ ~p => /\ \A t \in Open(s) : ~s.tab[t].eph
           /\ s.engine.shared = Profile
           /\ s.closed \in Seq(DurableRecords)

Counters == [app: Nat, strip: Nat, private: Nat, persistent: Nat]

\* No surface has a name that is still to be given.
NamesUnused(s, c) ==
  /\ \A n \in DOMAIN RestoredId : n > s.restored => s.engine.phase[RestoredId[n]] = "absent"
  /\ \A n \in DOMAIN PrivateId : n > c.private => s.engine.phase[PrivateId[n]] = "absent"
  /\ s.clock = 0 => \A t \in TabIds : s.engine.phase[t] = "absent"
  /\ c \in Counters

DiskSafe(s, p, d) ==
  /\ d.history \cap SecretUrls = {}
  /\ \A entry \in d.saved : entry[2] \notin SecretUrls
  /\ ~p /\ s.active # NoTabId => d.saved = Snapshot(s)

\* The inductive invariant.
PrivateSafe ==
  /\ ModeSafe(session, private)
  /\ NamesUnused(session, counters)
  /\ DiskSafe(session, private, disk)

-----------------------------------------------------------------------------
(***************************************************************************)
(* What the commands do to contexts.                                       *)
(***************************************************************************)

\* A new page gets the context of its mode, and an ephemeral context that exists is
\* not replaced.
LEMMA CreateModes ==
  ASSUME OverCef, NEW e \in CefStates, ~e.destroyed, NEW t \in TabIds, e.phase[t] = "absent",
         NEW tab, tab.eph \in BOOLEAN, tab.eph = e.private
  PROVE  LET f == EngineCreate(e, t, tab) IN
         /\ f.private = e.private
         /\ \A x \in TabIds \ {t} : f.context[x] = e.context[x]
         /\ f.context[t] = IF tab.eph THEN f.shared ELSE Profile
         /\ tab.eph => f.shared # Profile
         /\ ~tab.eph \/ e.shared # Profile => f.shared = e.shared
<1> DEFINE ctx == ContextFor(e, tab.eph)
           all == IF ctx > e.contexts THEN ctx ELSE e.contexts
           now == IF ctx = Profile THEN e.shared ELSE ctx
           f   == [e EXCEPT !.phase[t] = "pending", !.queued[t] = NoAddress,
                            !.context[t] = ctx, !.contexts = all, !.shared = now]
<1>1. EngineCreate(e, t, tab) = f
  BY DEF OverCef, CefCreate, CefStates
<1>2. /\ e.context \in [TabIds -> Nat] /\ e.contexts \in Nat /\ e.shared \in Nat
      /\ e.private \in BOOLEAN
  BY DEF CefStates
<1>3. /\ ~tab.eph => ctx = 0
      /\ tab.eph => ctx # 0 /\ (e.shared # 0 => ctx = e.shared)
  BY <1>2 DEF ContextFor, Profile
<1> HIDE DEF ctx
<1>4. /\ ~tab.eph => now = e.shared
      /\ tab.eph => now = ctx
  BY <1>3 DEF Profile
<1> HIDE DEF all, now
<1>5. /\ f.private = e.private /\ f.shared = now
      /\ f.context = [e.context EXCEPT ![t] = ctx]
  BY DEF CefStates
<1> HIDE DEF f
<1>6. f.context[t] = ctx /\ \A x \in TabIds \ {t} : f.context[x] = e.context[x]
  BY <1>2, <1>5
<1> QED BY <1>1, <1>3, <1>4, <1>5, <1>6 DEF Profile

LEMMA CommandModes ==
  ASSUME OverCef, NEW e \in CefStates, NEW t, NEW url
  PROVE  /\ SameModes(e, EngineActivate(e, t))
         /\ SameModes(e, EngineClose(e, t))
         /\ SameModes(e, EngineNavigate(e, t, url))
<1>1. SameModes(e, EngineActivate(e, t))
  BY DEF OverCef, CefActivate, CefStates, SameModes
<1>2. SameModes(e, EngineClose(e, t))
  <2> DEFINE left == IF e.phase[t] = "live" THEN "closing" ELSE "absent"
             f    == [e EXCEPT !.prompts = {p \in e.prompts : p.tab # t},
                               !.visible = @ \ {t},
                               !.active = IF @ = t THEN NoTabId ELSE @, !.phase[t] = left]
  <2>1. EngineClose(e, t) = IF ~Usable(e, t) THEN e ELSE f
    BY DEF OverCef, CefClose, DismissPromptsOf, CefStates
  <2> HIDE DEF left
  <2>2. SameModes(e, f)
    BY DEF CefStates, SameModes
  <2> QED BY <2>1, <2>2 DEF SameModes
<1>3. SameModes(e, EngineNavigate(e, t, url))
  BY DEF OverCef, CefNavigate, CefStates, SameModes
<1> QED BY <1>1, <1>2, <1>3

-----------------------------------------------------------------------------
(***************************************************************************)
(* The operations of the session keep pages safe.                          *)
(***************************************************************************)

\* A change that makes no page keeps pages safe when no address appears in a persistent
\* tab that a private page could have sent.
LEMMA StaysSafe ==
  ASSUME NEW s, PagesSafe(s), NEW d, Follows(d), Open(d) \subseteq Open(s),
         SameModes(s.engine, d.engine),
         \A x \in Open(d) : d.tab[x].eph = s.tab[x].eph /\
                            (d.tab[x].url = s.tab[x].url \/ d.tab[x].url \notin SecretUrls \/ d.tab[x].eph),
         d.closed \in Seq(HarmlessRecords)
  PROVE  PagesSafe(d)
<1>1. ASSUME NEW x \in Open(d) PROVE PageSafe(d, x)
  <2>1. PageSafe(s, x)
    BY DEF PagesSafe
  <2> QED BY <2>1 DEF PageSafe, SameModes
<1> QED BY <1>1 DEF PagesSafe

\* What a safe session is.
LEMMA SafeFacts ==
  ASSUME NEW s, PagesSafe(s)
  PROVE  /\ Follows(s) /\ SessionInvariant(s) /\ IsSession(s) /\ NoneRests(s)
         /\ Open(s) \subseteq TabIds /\ s.engine \in CefStates /\ ~s.engine.destroyed
         /\ s.active \in Open(s) \cup {NoTabId} /\ s.clock \in Nat /\ s.restored \in Nat
         /\ \A t \in Open(s) : s.tab[t] \in TabRecords /\ s.tab[t].eph \in BOOLEAN
<1>1. /\ Follows(s) /\ SessionInvariant(s) /\ IsSession(s) /\ NoneRests(s)
      /\ s.engine \in CefStates /\ ~s.engine.destroyed
  BY DEF PagesSafe, Follows, SessionInvariant, CefHas
<1>2. Open(s) \subseteq TabIds /\ s.clock \in Nat /\ s.restored \in Nat
      /\ s.active \in TabIds \cup {NoTabId} /\ s.tab \in [TabIds -> TabRecords]
  BY <1>1, OpenAreIds, SessionFields
<1>3. s.active \in TabIds => s.active \in Open(s)
  BY <1>1 DEF SessionInvariant, HasOneActive, IsOpen
<1>4. \A t \in Open(s) : s.tab[t] \in TabRecords /\ s.tab[t].eph \in BOOLEAN
  BY <1>2 DEF TabRecords
<1> QED BY <1>1, <1>2, <1>3, <1>4

LEMMA RaiseSafe ==
  ASSUME OverCef, NEW s, PagesSafe(s), NEW t \in Open(s)
  PROVE  LET d == Raise(s, t) IN PagesSafe(d) /\ SameModes(s.engine, d.engine)
<1> DEFINE d == Raise(s, t)
<1>0. SessionInvariant(s) /\ s.engine \in CefStates /\ Follows(s) /\ Open(s) \subseteq TabIds
  BY SafeFacts
<1>1. /\ d.closed = s.closed /\ Open(d) = Open(s) /\ d.engine = EngineActivate(s.engine, t)
      /\ \A x \in TabIds : SamePage(s.tab[x], d.tab[x])
  BY <1>0, RaiseEffect
<1>2. Follows(d)
  BY <1>0, RaiseFollows
<1> HIDE DEF d
<1>3. SameModes(s.engine, d.engine)
  BY <1>0, <1>1, CommandModes
<1>4. \A x \in Open(d) : d.tab[x].eph = s.tab[x].eph /\ d.tab[x].url = s.tab[x].url
  BY <1>0, <1>1 DEF SamePage
<1>5. d.closed \in Seq(HarmlessRecords)
  BY <1>1 DEF PagesSafe
<1>6. PagesSafe(d)
  BY <1>1, <1>2, <1>3, <1>4, <1>5, StaysSafe
<1> QED BY <1>3, <1>6 DEF d

LEMMA ActivateSafe ==
  ASSUME OverCef, NEW s, PagesSafe(s), NEW t
  PROVE  LET d == ActivateTab(s, t) IN PagesSafe(d) /\ SameModes(s.engine, d.engine)
<1>1. CASE ~IsOpen(s, t) \/ s.active = t
  BY <1>1 DEF ActivateTab, SameModes
<1>2. CASE IsOpen(s, t) /\ s.active # t
  <2>1. Revived(s, t) = s /\ t \in Open(s)
    BY <1>2, SafeFacts DEF Revived, NoneRests, IsOpen
  <2>2. ActivateTab(s, t) = Raise(s, t)
    BY <1>2, <2>1 DEF ActivateTab
  <2> QED BY <2>1, <2>2, RaiseSafe
<1> QED BY <1>1, <1>2

LEMMA SameModesChain ==
  ASSUME NEW e, NEW f, NEW g, SameModes(e, f), SameModes(f, g)
  PROVE  SameModes(e, g)
BY DEF SameModes

\* What a safe tab leaves behind when it closes betrays nothing.
LEMMA ClosedIsHarmless ==
  ASSUME NEW s, PagesSafe(s), NEW t \in Open(s), ~IsBlankOrNewTabUrl(s.tab[t].url)
  PROVE  /\ ClosedRecord(s.tab[t]) \in HarmlessRecords
         /\ ~s.tab[t].eph => ClosedRecord(s.tab[t]) \in DurableRecords
<1>1. s.tab[t] \in TabRecords /\ IsCoherent(s.tab[t])
  BY SafeFacts DEF SessionInvariant, HasCoherentTabs
<1>2. ~s.tab[t].eph => s.tab[t].url \notin SecretUrls
  BY DEF PagesSafe, PageSafe
<1>3. ClosedRecord(s.tab[t]) \in Memorable
  BY <1>1 DEF Memorable, Templates, TabRecords, ClosedRecord, IsCoherent
<1> QED BY <1>2, <1>3 DEF HarmlessRecords, DurableRecords, ClosedRecord

LEMMA CloseSafe ==
  ASSUME OverCef, NEW s, PagesSafe(s), NEW t \in Open(s), NEW fallback
  PROVE  LET d == CloseTab(s, t, fallback) IN
         /\ PagesSafe(d) /\ SameModes(s.engine, d.engine)
         /\ \A x \in Open(d) : SamePage(s.tab[x], d.tab[x])
         /\ ~fallback => /\ d.active = IF s.active = t THEN NoTabId ELSE s.active
                         /\ \A x \in Open(d) : d.tab[x] = s.tab[x]
<1> DEFINE gone == RemoveTab(RememberClosed(s, t), t)
           d    == CloseTab(s, t, fallback)
<1>0. SessionInvariant(s) /\ s.engine \in CefStates /\ Follows(s) /\ Open(s) \subseteq TabIds
  BY SafeFacts
<1>1. /\ SessionInvariant(gone)
      /\ Open(gone) = Open(s) \ {t}
      /\ gone.active = IF s.active = t THEN NoTabId ELSE s.active
      /\ gone.closed = RememberClosed(s, t).closed
      /\ gone.engine = EngineClose(s.engine, t)
      /\ \A x \in TabIds \ {t} : gone.tab[x] = s.tab[x]
      /\ \/ d = gone
         \/ fallback /\ \E y \in Open(gone) : d = ActivateTab(gone, y)
  BY <1>0, CloseTabEffect
<1>2. Follows(gone) /\ Open(d) = Open(s) \ {t}
  BY <1>0, RemoveFollows, CloseFollows
<1>3. CloseTab(s, t, FALSE) = gone
  BY DEF CloseTab, IsOpen
<1>4. gone.closed \in Seq(HarmlessRecords)
  <2>1. s.closed \in Seq(HarmlessRecords)
    BY DEF PagesSafe
  <2>2. ~IsBlankOrNewTabUrl(s.tab[t].url) => ClosedRecord(s.tab[t]) \in HarmlessRecords
    BY ClosedIsHarmless
  <2>3. PICK fb : fb = FALSE
    OBVIOUS
  <2>4. CloseTab(s, t, fb).closed \in Seq(HarmlessRecords)
    BY <1>0, <2>1, <2>2, CloseKeepsRecords
  <2> QED BY <1>3, <2>3, <2>4
<1> HIDE DEF gone, d
<1>5. SameModes(s.engine, gone.engine)
  BY <1>0, <1>1, CommandModes
<1>6. \A x \in Open(gone) : gone.tab[x] = s.tab[x]
  BY <1>0, <1>1
<1>7. PagesSafe(gone)
  <2>1. \A x \in Open(gone) : gone.tab[x].eph = s.tab[x].eph /\ gone.tab[x].url = s.tab[x].url
    BY <1>6
  <2>2. Open(gone) \subseteq Open(s)
    BY <1>1
  <2> QED BY <1>2, <1>4, <1>5, <2>1, <2>2, StaysSafe
<1>8. CASE d = gone
  BY <1>1, <1>5, <1>6, <1>7, <1>8 DEF d, SamePage
<1>9. ASSUME fallback, NEW y \in Open(gone), d = ActivateTab(gone, y)
      PROVE  /\ PagesSafe(d) /\ SameModes(s.engine, d.engine)
             /\ \A x \in Open(d) : SamePage(s.tab[x], d.tab[x])
  <2>1. PagesSafe(d) /\ SameModes(gone.engine, d.engine)
    BY <1>7, <1>9, ActivateSafe
  <2>2. /\ \A x \in TabIds : SamePage(gone.tab[x], d.tab[x])
        /\ Open(d) = Open(gone)
    BY <1>1, <1>9, ActivateTabEffect
  <2>3. \A x \in Open(d) : SamePage(s.tab[x], d.tab[x])
    BY <1>0, <1>1, <1>6, <2>2
  <2> QED BY <1>5, <2>1, <2>3, SameModesChain
<1> QED BY <1>1, <1>8, <1>9 DEF d

\* A tab of the engine's mode, at an address that is no secret or not to be recorded.
LEMMA OpenSafe ==
  ASSUME OverCef, PublicNewTab, NEW s, PagesSafe(s),
         NEW t \in TabIds, s.engine.phase[t] = "absent",
         NEW tpl \in Templates, tpl.eph = s.engine.private,
         tpl.eph \/ tpl.url \notin SecretUrls \/ IsLegacySyntheticNewTab(tpl), NEW activate
  PROVE  LET d == OpenTab(s, t, tpl, activate) IN
         /\ PagesSafe(d) /\ d.engine.private = s.engine.private
         /\ d.tab[t].eph = tpl.eph
         /\ ~tpl.eph => d.engine.shared = s.engine.shared
         /\ \A x \in Open(s) : SamePage(s.tab[x], d.tab[x])
<1> DEFINE norm  == Normalised(tpl)
           fresh == FreshTab(norm)
           added == AddTab(s, t, norm)
           d     == OpenTab(s, t, tpl, activate)
           e     == EngineCreate(s.engine, t, fresh)
<1>0. /\ SessionInvariant(s) /\ s.engine \in CefStates /\ ~s.engine.destroyed /\ Follows(s)
      /\ Open(s) \subseteq TabIds /\ tpl.eph \in BOOLEAN
  BY SafeFacts DEF Templates
<1>1. norm \in Templates /\ norm.eph = tpl.eph /\ (norm.eph \/ norm.url \notin SecretUrls)
  <2>1. norm \in Templates
    BY NormalisedType
  <2> QED BY <2>1 DEF Normalised, PublicNewTab, Templates
<1>a. d = IF ~AcceptsId(s, t) THEN s
          ELSE IF s.tabs = <<>> \/ activate THEN Raise(added, t) ELSE added
  BY DEF OpenTab
<1> HIDE DEF norm
<1>2. fresh.eph = tpl.eph /\ fresh.url = norm.url
  BY <1>1 DEF FreshTab
<1> HIDE DEF fresh
<1>3. /\ ~IsOpen(s, t) /\ Follows(added) /\ Open(added) = Open(s) \cup {t}
  BY <1>0, <1>1, AddFollows
<1>4. /\ SessionInvariant(added) /\ added.active = s.active /\ added.closed = s.closed
      /\ added.engine = e
      /\ \A x \in TabIds : added.tab[x] = IF x = t THEN fresh ELSE s.tab[x]
  BY <1>0, <1>1, <1>3, AddTabEffect DEF fresh
<1>5. /\ e.private = s.engine.private
      /\ \A x \in TabIds \ {t} : e.context[x] = s.engine.context[x]
      /\ e.context[t] = IF fresh.eph THEN e.shared ELSE Profile
      /\ fresh.eph => e.shared # Profile
      /\ ~fresh.eph \/ s.engine.shared # Profile => e.shared = s.engine.shared
  BY <1>0, <1>2, CreateModes
<1> HIDE DEF added, d, e
<1>6. ASSUME NEW x \in Open(added) PROVE PageSafe(added, x)
  <2>1. CASE x = t
    BY <1>1, <1>2, <1>4, <1>5, <2>1 DEF PageSafe
  <2>2. CASE x # t
    <3>1. x \in Open(s) /\ x \in TabIds \ {t} /\ added.tab[x] = s.tab[x]
      BY <1>0, <1>3, <1>4, <2>2
    <3>2. PageSafe(s, x)
      BY <3>1 DEF PagesSafe
    <3>3. s.tab[x].eph => e.shared = s.engine.shared
      BY <1>5, <3>2 DEF PageSafe
    <3> QED BY <1>4, <1>5, <3>1, <3>2, <3>3 DEF PageSafe
  <2> QED BY <2>1, <2>2
<1>7. PagesSafe(added)
  BY <1>3, <1>4, <1>6 DEF PagesSafe
<1>8. d = added \/ d = Raise(added, t)
  BY <1>3, <1>a DEF AcceptsId
<1>9. PagesSafe(d) /\ SameModes(added.engine, d.engine)
  <2>1. PagesSafe(Raise(added, t)) /\ SameModes(added.engine, Raise(added, t).engine)
    BY <1>3, <1>7, RaiseSafe
  <2> QED BY <1>7, <1>8, <2>1 DEF SameModes
<1>10. \A x \in TabIds : SamePage(added.tab[x], d.tab[x])
  <2>1. \A x \in TabIds : SamePage(added.tab[x], Raise(added, t).tab[x])
    BY <1>3, <1>4, RaiseEffect
  <2> QED BY <1>8, <2>1, SMTT(40), ZenonT(40) DEF SamePage
<1>11. \A x \in Open(s) : SamePage(s.tab[x], d.tab[x])
  BY <1>0, <1>3, <1>4, <1>10 DEF IsOpen
<1>12. d.tab[t].eph = tpl.eph
  BY <1>2, <1>4, <1>10 DEF SamePage
<1> QED BY <1>2, <1>4, <1>5, <1>9, <1>11, <1>12 DEF SameModes, d

-----------------------------------------------------------------------------
(***************************************************************************)
(* The calls of one mode.                                                  *)
(***************************************************************************)

\* A call of mode p leaves the session safe in that mode, and in private mode the
\* persistent tabs are as they were.
ModeMoves(s, p, d) == ModeSafe(d, p) /\ (p => PersistentTabs(d) = PersistentTabs(s))

\* Outside private mode every page has the profile's context.
LEMMA PersistentContext ==
  ASSUME NEW s, PagesSafe(s), NEW t \in Open(s)
  PROVE  s.engine.context[t] = Profile <=> ~s.tab[t].eph
BY DEF PagesSafe, PageSafe

LEMMA OpenMode ==
  ASSUME OverCef, PublicNewTab, NEW s, NEW p \in BOOLEAN, ModeSafe(s, p),
         NEW t \in TabIds, s.engine.phase[t] = "absent",
         NEW tpl \in Templates, tpl.eph = p,
         tpl.eph \/ tpl.url \notin SecretUrls \/ IsLegacySyntheticNewTab(tpl), NEW activate
  PROVE  LET d == OpenTab(s, t, tpl, activate) IN
         /\ ModeMoves(s, p, d)
         /\ SameBrowsers(s.engine, d.engine)
         /\ Open(d) = Open(s) \cup {t} /\ d.restored = s.restored
<1> DEFINE d == OpenTab(s, t, tpl, activate)
<1>0. /\ PagesSafe(s) /\ s.engine.private = p
      /\ Follows(s) /\ SessionInvariant(s) /\ s.active \in Open(s) \cup {NoTabId}
  BY SafeFacts DEF ModeSafe
<1>1. /\ Follows(d) /\ SameBrowsers(s.engine, d.engine)
      /\ Open(d) = Open(s) \cup {t} /\ d.restored = s.restored
  BY <1>0, OpenFollows
<1>2. /\ PagesSafe(d) /\ d.engine.private = p
      /\ d.tab[t].eph = p
      /\ ~p => d.engine.shared = s.engine.shared
      /\ \A x \in Open(s) : SamePage(s.tab[x], d.tab[x])
  BY <1>0, OpenSafe
<1>3. t \notin Open(s)
  BY <1>0 DEF Follows, CefHas, Usable
<1>4. d.closed = s.closed /\ d.active \in {t, s.active}
  BY <1>0, <1>3, OpenTabEffect DEF IsOpen
<1> HIDE DEF d
<1>5. \A x \in Open(s) : d.tab[x].eph = s.tab[x].eph
  BY <1>2 DEF SamePage
<1>6. d.active # NoTabId => d.tab[d.active].eph = p
  BY <1>0, <1>2, <1>4, <1>5 DEF ModeSafe
<1>7. ~p => /\ \A x \in Open(d) : ~d.tab[x].eph
            /\ d.engine.shared = Profile
            /\ d.closed \in Seq(DurableRecords)
  BY <1>1, <1>2, <1>4, <1>5 DEF ModeSafe
<1>8. p => PersistentTabs(d) = PersistentTabs(s)
  BY <1>1, <1>2, <1>3, <1>5 DEF PersistentTabs
<1> QED BY <1>1, <1>2, <1>6, <1>7, <1>8 DEF ModeSafe, ModeMoves, d

\* A tab of the mode closes; in private mode nobody takes over yet.
LEMMA CloseMode ==
  ASSUME OverCef, NEW s, NEW p \in BOOLEAN, ModeSafe(s, p), NEW t \in Open(s),
         s.tab[t].eph = p
  PROVE  LET d == CloseTab(s, t, ~p) IN
         /\ ModeMoves(s, p, d)
         /\ SameBrowsers(s.engine, d.engine)
         /\ Open(d) = Open(s) \ {t} /\ d.restored = s.restored /\ NoEarlier(s, d)
<1> DEFINE d == CloseTab(s, t, ~p)
<1>0. PagesSafe(s) /\ s.engine.private = p /\ Follows(s) /\ SessionInvariant(s)
  BY SafeFacts DEF ModeSafe
<1>1. /\ SameBrowsers(s.engine, d.engine)
      /\ Open(d) = Open(s) \ {t} /\ d.restored = s.restored /\ NoEarlier(s, d)
  BY <1>0, CloseFollows, CloseTime
<1>2. /\ PagesSafe(d) /\ SameModes(s.engine, d.engine)
      /\ \A x \in Open(d) : SamePage(s.tab[x], d.tab[x])
      /\ p => d.active = IF s.active = t THEN NoTabId ELSE s.active
  <2>1. PICK fallback : fallback = ~p
    OBVIOUS
  <2> DEFINE c == CloseTab(s, t, fallback)
  <2>2. /\ PagesSafe(c) /\ SameModes(s.engine, c.engine)
        /\ \A x \in Open(c) : SamePage(s.tab[x], c.tab[x])
        /\ ~fallback => c.active = IF s.active = t THEN NoTabId ELSE s.active
    BY <1>0, CloseSafe
  <2>3. c = d
    BY <2>1
  <2> HIDE DEF c, d
  <2> QED BY <2>1, <2>2, <2>3
<1>3. ~p => d.closed \in Seq(DurableRecords)
  <2> SUFFICES ASSUME ~p PROVE d.closed \in Seq(DurableRecords)
    OBVIOUS
  <2>1. s.closed \in Seq(DurableRecords)
    BY DEF ModeSafe
  <2>2. ~IsBlankOrNewTabUrl(s.tab[t].url) => ClosedRecord(s.tab[t]) \in DurableRecords
    BY <1>0, ClosedIsHarmless
  <2> QED BY <1>0, <2>1, <2>2, CloseKeepsRecords
<1> HIDE DEF d
<1>4. \A x \in Open(d) : d.tab[x].eph = s.tab[x].eph
  BY <1>2 DEF SamePage
<1>5. d.active \in Open(d) \cup {NoTabId} /\ \A x \in Open(d) : d.tab[x].eph \in BOOLEAN
  BY <1>2, SafeFacts
<1>6. d.active # NoTabId => d.tab[d.active].eph = p
  <2>1. CASE p
    BY <1>2, <1>4, <1>5, <2>1 DEF ModeSafe
  <2>2. CASE ~p
    BY <1>1, <1>4, <1>5, <2>2 DEF ModeSafe
  <2> QED BY <2>1, <2>2
<1>7. ~p => (\A x \in Open(d) : ~d.tab[x].eph) /\ d.engine.shared = Profile
  BY <1>1, <1>2, <1>4 DEF ModeSafe, SameModes
<1>8. p => PersistentTabs(d) = PersistentTabs(s)
  BY <1>1, <1>4 DEF PersistentTabs
<1>9. d.engine.private = p
  BY <1>0, <1>2 DEF SameModes
<1> QED BY <1>1, <1>2, <1>3, <1>6, <1>7, <1>8, <1>9 DEF ModeSafe, ModeMoves, d

\* A change of no page and no closed record stays safe in its mode.
LEMMA StaysInMode ==
  ASSUME NEW s, NEW p \in BOOLEAN, ModeSafe(s, p), NEW d, PagesSafe(d),
         SameModes(s.engine, d.engine), Open(d) = Open(s),
         \A x \in Open(s) : d.tab[x].eph = s.tab[x].eph,
         d.closed = s.closed, d.active # NoTabId => d.tab[d.active].eph = p
  PROVE  ModeMoves(s, p, d)
<1>1. d.engine.private = p /\ d.engine.shared = s.engine.shared
  BY DEF ModeSafe, SameModes
<1>2. ~p => /\ \A x \in Open(d) : ~d.tab[x].eph
            /\ d.engine.shared = Profile
            /\ d.closed \in Seq(DurableRecords)
  BY <1>1 DEF ModeSafe
<1>3. PersistentTabs(d) = PersistentTabs(s)
  BY DEF PersistentTabs
<1> QED BY <1>1, <1>2, <1>3 DEF ModeSafe, ModeMoves

LEMMA ActivateMode ==
  ASSUME OverCef, NEW s, NEW p \in BOOLEAN, ModeSafe(s, p), NEW t,
         IsOpen(s, t) => s.tab[t].eph = p
  PROVE  LET d == ActivateTab(s, t) IN
         /\ ModeMoves(s, p, d)
         /\ SameBrowsers(s.engine, d.engine)
         /\ Open(d) = Open(s) /\ d.restored = s.restored /\ NoEarlier(s, d)
         /\ PersistentTabs(d) = PersistentTabs(s)
<1> DEFINE d == ActivateTab(s, t)
<1>0. /\ PagesSafe(s) /\ Follows(s) /\ SessionInvariant(s)
      /\ s.active \in Open(s) \cup {NoTabId} /\ Open(s) \subseteq TabIds
  BY SafeFacts DEF ModeSafe
<1>1. SameBrowsers(s.engine, d.engine) /\ NoEarlier(s, d)
  BY <1>0, ActivateFollows, ActivateTime
<1>2. /\ Open(d) = Open(s) /\ d.restored = s.restored /\ d.closed = s.closed
      /\ d.active = IF IsOpen(s, t) THEN t ELSE s.active
      /\ \A x \in TabIds : SamePage(s.tab[x], d.tab[x])
  BY <1>0, ActivateTabEffect
<1>3. PagesSafe(d) /\ SameModes(s.engine, d.engine)
  BY <1>0, ActivateSafe
<1> HIDE DEF d
<1>4. \A x \in Open(s) : d.tab[x].eph = s.tab[x].eph
  BY <1>0, <1>2 DEF SamePage
<1>5. d.active # NoTabId => d.tab[d.active].eph = p
  BY <1>0, <1>2, <1>4 DEF ModeSafe, IsOpen
<1>6. ModeMoves(s, p, d)
  BY <1>2, <1>3, <1>4, <1>5, StaysInMode
<1>7. PersistentTabs(d) = PersistentTabs(s)
  BY <1>2, <1>4 DEF PersistentTabs
<1> QED BY <1>1, <1>2, <1>6, <1>7 DEF d

\* A reopening brings back a tab of the mode, under the next restored id.
LEMMA ReopenMode ==
  ASSUME OverCef, PublicNewTab, NEW s, NEW p \in BOOLEAN, ModeSafe(s, p),
         NEW mode, mode = IF p THEN "EphemeralOnly" ELSE "PersistentOnly",
         s.restored + 1 \in DOMAIN RestoredId,
         s.engine.phase[RestoredId[s.restored + 1]] = "absent", Reopenable(s, mode) # {}
  PROVE  LET d == ReopenLastClosedTab(s, mode) IN
         /\ ModeMoves(s, p, d)
         /\ SameBrowsers(s.engine, d.engine) /\ NoEarlier(s, d)
         /\ Open(d) = Open(s) \cup {RestoredId[s.restored + 1]}
         /\ d.restored = s.restored + 1
<1> DEFINE k   == NewestReopenable(s, mode)
           id  == RestoredId[s.restored + 1]
           tpl == s.closed[k]
           u   == Unlisted(s, k)
           d   == ReopenLastClosedTab(s, mode)
<1>0. PagesSafe(s) /\ Follows(s) /\ SessionInvariant(s) /\ s.active \in Open(s) \cup {NoTabId}
  BY SafeFacts DEF ModeSafe
<1>1. k \in Reopenable(s, mode) /\ k \in 1 .. Len(s.closed)
  BY <1>0, NewestReopenableEffect
<1>2. d = OpenTab(u, id, tpl, TRUE) /\ id \in TabIds /\ tpl \in Templates
  BY <1>0, ReopenCases DEF Memorable
<1>3. NoEarlier(s, d)
  BY <1>0, ReopenTime
<1>4. tpl.eph = p
  BY <1>1, <1>2 DEF Reopenable, Templates
<1>5. tpl.eph \/ tpl.url \notin SecretUrls
  <2>1. s.closed \in Seq(HarmlessRecords)
    BY <1>0 DEF PagesSafe
  <2>2. tpl \in HarmlessRecords
    BY <1>1, <2>1, ElementOfSeq
  <2> QED BY <2>2 DEF HarmlessRecords
<1>6. u.closed = RemoveAt(s.closed, k)
  BY <1>0, <1>1, UnlistedEffect
<1>7. /\ u.closed \in Seq(HarmlessRecords)
      /\ ~p => u.closed \in Seq(DurableRecords)
  <2> HIDE DEF k
  <2>1. s.closed \in Seq(HarmlessRecords) /\ (~p => s.closed \in Seq(DurableRecords))
    BY <1>0 DEF PagesSafe, ModeSafe
  <2> QED BY <1>1, <1>6, <2>1, RemoveAtProperties
<1> HIDE DEF k
<1>8. /\ SessionInvariant(u)
      /\ u.tab = s.tab /\ u.active = s.active /\ u.engine = s.engine /\ Open(u) = Open(s)
      /\ u.restored = s.restored + 1
  BY <1>0, <1>1, UnlistedEffect
<1> HIDE DEF u, id, tpl, d
<1>9. ModeSafe(u, p)
  <2>1. Follows(u)
    BY <1>0, <1>8 DEF Follows, NoneRests, QueueIsShown
  <2>2. \A x \in Open(u) : PageSafe(u, x)
    BY <1>0, <1>8 DEF PagesSafe, PageSafe
  <2>3. PagesSafe(u)
    BY <1>7, <2>1, <2>2 DEF PagesSafe
  <2> QED BY <1>7, <1>8, <2>3 DEF ModeSafe
<1>10. u.engine.phase[id] = "absent"
  BY <1>8 DEF id
<1>11. PICK activate : activate = TRUE
  OBVIOUS
<1>12. d = OpenTab(u, id, tpl, activate)
  BY <1>2, <1>11
<1>13. /\ ModeMoves(u, p, d) /\ SameBrowsers(u.engine, d.engine)
       /\ Open(d) = Open(u) \cup {id} /\ d.restored = u.restored
  <2> DEFINE c == OpenTab(u, id, tpl, activate)
  <2>1. /\ ModeMoves(u, p, c) /\ SameBrowsers(u.engine, c.engine)
        /\ Open(c) = Open(u) \cup {id} /\ c.restored = u.restored
    BY <1>2, <1>4, <1>5, <1>9, <1>10, OpenMode
  <2> QED BY <1>12, <2>1
<1>14. PersistentTabs(u) = PersistentTabs(s)
  BY <1>8 DEF PersistentTabs
<1> QED BY <1>3, <1>8, <1>13, <1>14 DEF ModeMoves, d, id

LEMMA NavigateMode ==
  ASSUME OverCef, NEW s, NEW p \in BOOLEAN, ModeSafe(s, p), NEW t \in Open(s), NEW url \in Urls
  PROVE  LET d == Navigate(s, t, url) IN
         /\ ModeMoves(s, p, d)
         /\ SameBrowsers(s.engine, d.engine)
         /\ Open(d) = Open(s) /\ d.restored = s.restored /\ NoEarlier(s, d)
<1> DEFINE d   == Navigate(s, t, url)
           rec == Requested(WokenTab(s.tab[t]), url)
           e   == EngineNavigate(WokenEngine(s, t), t, url)
<1>0. /\ PagesSafe(s) /\ Follows(s) /\ SessionInvariant(s) /\ NoneRests(s)
      /\ s.active \in Open(s) \cup {NoTabId} /\ s.engine \in CefStates
      /\ Open(s) \subseteq TabIds /\ s.tab[t] \in TabRecords
  BY SafeFacts DEF ModeSafe
<1>1. /\ Follows(d) /\ SameBrowsers(s.engine, d.engine) /\ NoEarlier(s, d)
      /\ Open(d) = Open(s) /\ d.restored = s.restored
  BY <1>0, NavigateFollows, NavigateTime
<1>2. Alive(s, t) /\ WokenTab(s.tab[t]) = s.tab[t] /\ WokenEngine(s, t) = s.engine
  BY <1>0 DEF NoneRests, Alive, IsOpen, WokenTab, WokenEngine
<1>3. CallOnTab(s, d, t, rec, e)
  BY <1>0, <1>2, NavigateEffect
<1>4. rec.eph = s.tab[t].eph /\ rec.url = s.tab[t].url
  BY <1>0, <1>2 DEF Requested, TabRecords
<1>5. SameModes(s.engine, e)
  BY <1>0, <1>2, CommandModes
<1> HIDE DEF rec, e, d
<1>6. /\ SameModes(s.engine, d.engine) /\ d.closed = s.closed /\ d.active = s.active
      /\ \A x \in Open(s) : d.tab[x].eph = s.tab[x].eph /\ d.tab[x].url = s.tab[x].url
  BY <1>0, <1>3, <1>4, <1>5 DEF CallOnTab
<1>7. PagesSafe(d)
  BY <1>0, <1>1, <1>6, StaysSafe DEF PagesSafe
<1>8. d.active # NoTabId => d.tab[d.active].eph = p
  BY <1>0, <1>6 DEF ModeSafe
<1>9. ModeMoves(s, p, d)
  BY <1>1, <1>6, <1>7, <1>8, StaysInMode
<1> QED BY <1>1, <1>9 DEF d

\* An event may come from a browser whose tab has closed; one from the page of a
\* persistent tab brings no secret.
LEMMA EventMode ==
  ASSUME NEW s, NEW p \in BOOLEAN, ModeSafe(s, p), NEW t \in TabIds, HasBrowser(s.engine, t),
         NEW url \in Urls, s.engine.context[t] = Profile => url \notin SecretUrls,
         NEW d, d \in {OnNavigationStarted(s, t, url), OnNavigationCommitted(s, t, url)}
  PROVE  /\ ModeMoves(s, p, d) /\ d.engine = s.engine
         /\ Open(d) = Open(s) /\ d.restored = s.restored /\ NoEarlier(s, d)
<1>0. /\ PagesSafe(s) /\ Follows(s) /\ SessionInvariant(s) /\ s.active \in Open(s) \cup {NoTabId}
      /\ Open(s) \subseteq TabIds /\ "page" \in Titles
  BY SafeFacts DEF ModeSafe, Titles
<1>1. Consistent(s)
  BY <1>0 DEF Consistent, Follows, CefHas
<1>2. /\ Consistent(d) /\ Open(d) = Open(s)
      /\ d.engine = s.engine /\ d.active = s.active /\ d.restored = s.restored
  BY <1>1, EventStaysConsistent
<1>3. NoEarlier(s, d)
  BY <1>0, EventTime
<1>4. Follows(d)
  BY <1>0, <1>2 DEF Follows, Consistent
<1>5. /\ d.closed = s.closed
      /\ \A x \in Open(s) : /\ d.tab[x].eph = s.tab[x].eph
                            /\ d.tab[x].url = s.tab[x].url \/ (x = t /\ d.tab[x].url = url)
  <2>1. CASE ~Alive(s, t)
    BY <2>1 DEF OnNavigationStarted, OnNavigationCommitted
  <2>2. CASE Alive(s, t)
    <3>1. EventOnTab(s, d, t, url, "page")
      BY <1>0, <2>2, EventEffect
    <3>2. PICK rec \in TabRecords :
            CallOnTab(s, d, t, rec, s.engine) /\ EventRecord(s.tab[t], rec, url, "page")
      BY <3>1 DEF EventOnTab
    <3> QED BY <1>0, <3>2 DEF CallOnTab, EventRecord
  <2> QED BY <2>1, <2>2
<1>6. PagesSafe(d)
  <2>1. \A x \in Open(d) : d.tab[x].eph = s.tab[x].eph /\
          (d.tab[x].url = s.tab[x].url \/ d.tab[x].url \notin SecretUrls \/ d.tab[x].eph)
    <3> SUFFICES ASSUME NEW x \in Open(s)
                 PROVE  d.tab[x].eph = s.tab[x].eph /\
                        (d.tab[x].url = s.tab[x].url \/ d.tab[x].url \notin SecretUrls \/ d.tab[x].eph)
      BY <1>2
    <3>1. s.engine.context[x] = Profile <=> ~s.tab[x].eph
      BY <1>0, PersistentContext
    <3> QED BY <1>5, <3>1
  <2>2. SameModes(s.engine, d.engine)
    BY <1>2 DEF SameModes
  <2> QED BY <1>0, <1>2, <1>4, <1>5, <2>1, <2>2, StaysSafe DEF PagesSafe
<1>7. d.active # NoTabId => d.tab[d.active].eph = p
  BY <1>0, <1>2, <1>5 DEF ModeSafe
<1>8. ModeMoves(s, p, d)
  <2>1. SameModes(s.engine, d.engine)
    BY <1>2 DEF SameModes
  <2> QED BY <1>2, <1>5, <1>6, <1>7, <2>1, StaysInMode
<1> QED BY <1>2, <1>3, <1>8

\* A browser that comes or goes leaves modes and tabs alone.
LEMMA BrowserMode ==
  ASSUME NEW s, NEW p \in BOOLEAN, ModeSafe(s, p), NEW f, SameModes(s.engine, f),
         Consistent(Tell(s, f)), CefHas(f, Open(s), s.active)
  PROVE  LET d == Tell(s, f) IN ModeMoves(s, p, d) /\ d.active = s.active /\ d.tab = s.tab
<1> DEFINE d == Tell(s, f)
<1>0. /\ PagesSafe(s) /\ Follows(s) /\ SessionInvariant(s) /\ s.active \in Open(s) \cup {NoTabId}
  BY SafeFacts DEF ModeSafe
<1>1. /\ d.tab = s.tab /\ d.active = s.active /\ d.closed = s.closed
      /\ Open(d) = Open(s) /\ d.engine = f
  BY <1>0, TellEffect
<1> HIDE DEF d
<1>2. Follows(d)
  BY <1>1 DEF Follows, Consistent, d
<1>3. PagesSafe(d)
  BY <1>0, <1>1, <1>2, StaysSafe DEF PagesSafe
<1>4. d.active # NoTabId => d.tab[d.active].eph = p
  BY <1>1 DEF ModeSafe
<1>5. ModeMoves(s, p, d)
  BY <1>1, <1>3, <1>4, StaysInMode
<1> QED BY <1>1, <1>5 DEF d

-----------------------------------------------------------------------------
(***************************************************************************)
(* Entering and leaving private mode.                                      *)
(***************************************************************************)

LEMMA LegacyTabFacts ==
  ASSUME NEW eph \in BOOLEAN
  PROVE  /\ LegacyTab(eph) \in Templates /\ LegacyTab(eph).eph = eph
         /\ IsLegacySyntheticNewTab(LegacyTab(eph))
BY UrlsAssumption DEF LegacyTab, Templates, Titles, IsLegacySyntheticNewTab

LEMMA FirstIsOne ==
  ASSUME NEW s, SessionInvariant(s), NEW ts, Open(s) \cap ts # {}
  PROVE  FirstOf(s, ts) \in Open(s) \cap ts
<1> DEFINE in == {i \in DOMAIN s.tabs : s.tabs[i] \in ts}
<1>1. DOMAIN s.tabs = 1 .. Len(s.tabs) /\ Len(s.tabs) \in Nat
  BY SessionFields, LenProperties DEF SessionInvariant
<1>2. in # {} /\ in \in SUBSET Nat
  BY <1>1 DEF Open
<1>3. PICK i \in in : \A j \in in : i <= j
  BY <1>2, LeastElement
<1>4. \A j \in 1 .. i - 1 : s.tabs[j] \notin ts
  <2> SUFFICES ASSUME NEW j \in 1 .. i - 1, s.tabs[j] \in ts PROVE FALSE
    OBVIOUS
  <2>1. j \in in
    BY <1>1, <1>3
  <2> QED BY <1>1, <1>3, <2>1
<1>5. i \in DOMAIN s.tabs /\ s.tabs[i] \in ts
  BY <1>3
<1> QED BY <1>4, <1>5 DEF FirstOf, Open

\* The first private tab, in a session that has only persistent ones so far.
LEMMA EnterMode ==
  ASSUME OverCef, PublicNewTab, NEW s, ModeSafe(s, FALSE), NEW t \in TabIds,
         s.engine.phase[t] = "absent"
  PROVE  LET d == OpenTab(Tell(s, SetEphemeralMode(s.engine, TRUE)), t, LegacyTab(TRUE), TRUE) IN
         /\ ModeSafe(d, TRUE)
         /\ SameBrowsers(s.engine, d.engine)
         /\ Open(d) = Open(s) \cup {t} /\ d.restored = s.restored /\ NoEarlier(s, d)
<1> DEFINE e   == SetEphemeralMode(s.engine, TRUE)
           u   == Tell(s, e)
           tpl == LegacyTab(TRUE)
           d   == OpenTab(u, t, tpl, TRUE)
<1>0. /\ PagesSafe(s) /\ Follows(s) /\ SessionInvariant(s) /\ s.engine \in CefStates
  BY SafeFacts DEF ModeSafe
<1>1. /\ e \in CefStates /\ e.private = TRUE /\ e.context = s.engine.context
      /\ e.shared = s.engine.shared /\ e.phase = s.engine.phase /\ e.queued = s.engine.queued
      /\ e.visible = s.engine.visible /\ e.active = s.engine.active
      /\ e.destroyed = s.engine.destroyed /\ SameBrowsers(s.engine, e)
  BY <1>0 DEF SetEphemeralMode, CefStates, SameBrowsers, HasBrowser
<1> HIDE DEF e
<1>2. /\ SessionInvariant(u)
      /\ u.tab = s.tab /\ u.active = s.active /\ u.closed = s.closed
      /\ u.restored = s.restored /\ u.clock = s.clock /\ Open(u) = Open(s) /\ u.engine = e
  BY <1>0, TellEffect
<1>3. tpl \in Templates /\ tpl.eph = TRUE
  BY LegacyTabFacts
<1> HIDE DEF u, tpl
<1>4. Follows(u)
  BY <1>0, <1>1, <1>2 DEF Follows, NoneRests, QueueIsShown, CefHas, Usable
<1>5. PagesSafe(u)
  <2>1. \A x \in Open(u) : PageSafe(u, x)
    BY <1>0, <1>1, <1>2 DEF PagesSafe, PageSafe
  <2> QED BY <1>0, <1>2, <1>4, <2>1 DEF PagesSafe
<1>6. u.engine.phase[t] = "absent" /\ u.engine.private = TRUE
  BY <1>1, <1>2
<1>7. PICK activate : activate = TRUE
  OBVIOUS
<1> DEFINE c == OpenTab(u, t, tpl, activate)
<1>8. c = d
  BY <1>7
<1>9. PagesSafe(c) /\ c.engine.private = u.engine.private /\ c.tab[t].eph = tpl.eph
  BY <1>3, <1>5, <1>6, OpenSafe
<1>10. /\ SameBrowsers(u.engine, c.engine)
       /\ Open(c) = Open(u) \cup {t} /\ c.restored = u.restored
  BY <1>3, <1>4, <1>6, OpenFollows
<1>11. c.active = t
  <2>1. ~IsOpen(u, t)
    BY <1>4, <1>6 DEF Follows, CefHas, Usable, IsOpen
  <2> QED BY <1>2, <1>3, <1>7, <2>1, OpenTabEffect, SMTT(40), ZenonT(40)
<1>12. NoEarlier(u, c)
  BY <1>2, <1>3, OpenTime
<1> HIDE DEF c, d
<1>13. ModeSafe(c, TRUE)
  BY <1>3, <1>6, <1>9, <1>11 DEF ModeSafe
<1>14. SameBrowsers(s.engine, c.engine)
  BY <1>1, <1>2, <1>10, SameBrowsersChain
<1>15. NoEarlier(s, c)
  BY <1>2, <1>12 DEF NoEarlier
<1> QED BY <1>2, <1>8, <1>10, <1>13, <1>14, <1>15 DEF d, u, e, tpl

\* One step of the recursion WithoutPrivateTabs is defined by.
CloseStep(g, i) ==
  IF i = 0 THEN session
  ELSE IF session.tab[session.tabs[i]].eph
    THEN CloseQuietly(g[i - 1], session.tabs[i]) ELSE g[i - 1]

\* The recursive function it is made of exists.
LEMMA ClosingExists ==
  ASSUME session.tabs \in Seq(TabIds)
  PROVE  \E g : g = [i \in 0 .. Len(session.tabs) |-> CloseStep(g, i)]
<1> DEFINE IsUpTo(n, g) == g = [i \in 0 .. n |-> CloseStep(g, i)]
           Bad == {n \in 0 .. Len(session.tabs) : ~ \E g : IsUpTo(n, g)}
<1>1. SUFFICES ASSUME Bad # {} PROVE FALSE
  OBVIOUS
<1>2. PICK m \in Bad : \A y \in Bad : m <= y
  <2>1. Len(session.tabs) \in Nat
    OBVIOUS
  <2>2. Bad \in SUBSET Nat
    BY <2>1
  <2> QED BY <1>1, <2>2, LeastElement
<1>3. CASE m = 0
  <2> DEFINE h == [i \in 0 .. 0 |-> session]
  <2>1. h = [i \in 0 .. 0 |-> CloseStep(h, i)]
    BY DEF CloseStep
  <2> QED BY <1>3, <2>1
<1>4. CASE m # 0
  <2>1. PICK g : IsUpTo(m - 1, g)
    BY <1>2, <1>4, SMTT(40), ZenonT(40)
  <2> DEFINE h == [i \in 0 .. m |-> IF i = m THEN CloseStep(g, m) ELSE g[i]]
  <2>a. m \in Nat \ {0}
    BY <1>2, <1>4
  <2>2. \A i \in 0 .. m : h[i] = CloseStep(h, i)
    <3> SUFFICES ASSUME NEW i \in 0 .. m PROVE h[i] = CloseStep(h, i)
      OBVIOUS
    <3>1. i # 0 => h[i - 1] = g[i - 1]
      BY <2>a
    <3>2. CloseStep(h, i) = CloseStep(g, i)
      BY <3>1 DEF CloseStep
    <3>3. i # m => g[i] = CloseStep(g, i)
      BY <2>1, <2>a
    <3> QED BY <3>2, <3>3
  <2>3. h = [i \in 0 .. m |-> CloseStep(h, i)]
    BY <2>2
  <2> QED BY <2>3
<1> QED BY <1>3, <1>4

\* The session when the first i tabs have been looked at.
Emptied(i, d) ==
  /\ PagesSafe(d) /\ SameModes(session.engine, d.engine) /\ SameBrowsers(session.engine, d.engine)
  /\ Open(d) = {t \in Open(session) :
                  ~session.tab[t].eph \/ \A j \in 1 .. i : session.tabs[j] # t}
  /\ \A x \in Open(d) : d.tab[x] = session.tab[x]
  /\ d.restored = session.restored /\ NoEarlier(session, d)
  /\ d.active \in {session.active, NoTabId}

LEMMA OneMoreEmptied ==
  ASSUME OverCef, ModeSafe(session, TRUE), NEW i \in 1 .. Len(session.tabs), NEW c,
         Emptied(i - 1, c), session.tab[session.tabs[i]].eph
  PROVE  Emptied(i, CloseQuietly(c, session.tabs[i]))
<1> DEFINE t == session.tabs[i]
           d == CloseQuietly(c, t)
<1>0. PagesSafe(c) /\ SessionInvariant(c) /\ Follows(c)
  BY SafeFacts DEF Emptied
<1>a. i \in Nat \ {0}
  BY SessionFields, LenProperties, SafeFacts DEF ModeSafe
<1>b. d = CloseTab(c, t, FALSE)
  BY DEF CloseQuietly
<1> HIDE DEF t
<1>1. \A x \in Open(session) :
        (~session.tab[x].eph \/ \A j \in 1 .. i : session.tabs[j] # x)
          <=> x # t /\ (~session.tab[x].eph \/ \A j \in 1 .. i - 1 : session.tabs[j] # x)
  <2> SUFFICES ASSUME NEW x \in Open(session)
               PROVE  (~session.tab[x].eph \/ \A j \in 1 .. i : session.tabs[j] # x)
                        <=> x # t /\ (~session.tab[x].eph \/ \A j \in 1 .. i - 1 : session.tabs[j] # x)
    OBVIOUS
  <2>1. 1 .. i = (1 .. i - 1) \cup {i}
    BY <1>a
  <2> QED BY <2>1 DEF t
<1>2. CASE ~IsOpen(c, t)
  <2>1. d = c
    BY <1>2, <1>b DEF CloseTab
  <2>2. Open(c) = {x \in Open(session) :
                     ~session.tab[x].eph \/ \A j \in 1 .. i : session.tabs[j] # x}
    BY <1>1, <1>2 DEF Emptied, IsOpen
  <2> QED BY <2>1, <2>2 DEF Emptied, t
<1>3. CASE IsOpen(c, t)
  <2>0. t \in Open(c)
    BY <1>3 DEF IsOpen
  <2>1. PICK fallback : fallback = FALSE
    OBVIOUS
  <2>2. d = CloseTab(c, t, fallback)
    BY <1>b, <2>1
  <2> DEFINE b == CloseTab(c, t, fallback)
  <2>3. /\ PagesSafe(b) /\ SameModes(c.engine, b.engine)
        /\ ~fallback => /\ b.active = IF c.active = t THEN NoTabId ELSE c.active
                        /\ \A x \in Open(b) : b.tab[x] = c.tab[x]
    BY <1>0, <2>0, CloseSafe
  <2>4. /\ SameBrowsers(c.engine, b.engine)
        /\ Open(b) = Open(c) \ {t} /\ b.restored = c.restored /\ NoEarlier(c, b)
    BY <1>0, <2>0, CloseFollows, CloseTime
  <2> HIDE DEF b, d
  <2>5. /\ SameModes(session.engine, b.engine) /\ SameBrowsers(session.engine, b.engine)
    BY <2>3, <2>4, SameModesChain, SameBrowsersChain DEF Emptied
  <2>6. Open(b) = {x \in Open(session) :
                     ~session.tab[x].eph \/ \A j \in 1 .. i : session.tabs[j] # x}
    BY <1>1, <2>4 DEF Emptied
  <2>7. NoEarlier(session, b)
    BY <1>0, <2>4, SafeFacts DEF Emptied, NoEarlier, ModeSafe
  <2>8. /\ \A x \in Open(b) : b.tab[x] = session.tab[x]
        /\ b.active \in {session.active, NoTabId} /\ b.restored = session.restored
    BY <2>1, <2>3, <2>4 DEF Emptied
  <2>9. Emptied(i, b)
    BY <2>3, <2>5, <2>6, <2>7, <2>8 DEF Emptied
  <2> QED BY <2>2, <2>9 DEF b, d, t
<1> QED BY <1>2, <1>3

LEMMA EmptiedIsPersistent ==
  ASSUME OverCef, ModeSafe(session, TRUE)
  PROVE  LET d == WithoutPrivateTabs IN
         /\ PagesSafe(d) /\ SameModes(session.engine, d.engine)
         /\ SameBrowsers(session.engine, d.engine)
         /\ Open(d) = PersistentTabs(session)
         /\ \A x \in Open(d) : d.tab[x] = session.tab[x]
         /\ d.restored = session.restored /\ NoEarlier(session, d)
         /\ d.active = NoTabId
<1> DEFINE n == Len(session.tabs)
           f == CHOOSE g : g = [i \in 0 .. n |-> CloseStep(g, i)]
<1>0. /\ SessionInvariant(session) /\ PagesSafe(session) /\ session.clock \in Nat
      /\ session.active \in Open(session) \cup {NoTabId}
  BY SafeFacts DEF ModeSafe
<1>1. session.tabs \in Seq(TabIds) /\ n \in Nat /\ DOMAIN session.tabs = 1 .. n
  BY <1>0, SessionFields, LenProperties DEF SessionInvariant
<1>2. WithoutPrivateTabs = f[n]
  BY DEF WithoutPrivateTabs, CloseStep
<1>3. f = [i \in 0 .. n |-> CloseStep(f, i)]
  BY <1>1, ClosingExists
<1> HIDE DEF f
<1> DEFINE Bad == {i \in 0 .. n : ~Emptied(i, f[i])}
<1>4. Bad = {}
  <2> SUFFICES ASSUME Bad # {} PROVE FALSE
    OBVIOUS
  <2>1. PICK m \in Bad : \A y \in Bad : m <= y
    <3>1. Bad \in SUBSET Nat
      BY <1>1
    <3> QED BY <3>1, LeastElement
  <2>2. f[m] = CloseStep(f, m) /\ ~Emptied(m, f[m]) /\ m \in 0 .. n
    BY <1>3, <2>1
  <2>3. CASE m = 0
    <3>1. f[m] = session
      BY <2>2, <2>3 DEF CloseStep
    <3>2. Emptied(0, session)
      BY <1>0 DEF Emptied, SameModes, SameBrowsers, NoEarlier
    <3> QED BY <2>2, <2>3, <3>1, <3>2
  <2>4. CASE m # 0
    <3>1. m \in 1 .. n /\ m - 1 \in 0 .. n /\ ~(m <= m - 1)
      BY <1>1, <2>2, <2>4
    <3>2. Emptied(m - 1, f[m - 1])
      BY <2>1, <3>1
    <3>3. PICK c : c = f[m - 1]
      OBVIOUS
    <3>4. CASE session.tab[session.tabs[m]].eph
      <4>1. f[m] = CloseQuietly(c, session.tabs[m])
        BY <2>2, <2>4, <3>3, <3>4 DEF CloseStep
      <4>2. Emptied(m - 1, c)
        BY <3>2, <3>3
      <4>3. Emptied(m, CloseQuietly(c, session.tabs[m]))
        BY <3>1, <3>4, <4>2, OneMoreEmptied
      <4> QED BY <2>2, <4>1, <4>3
    <3>5. CASE ~session.tab[session.tabs[m]].eph
      <4>1. f[m] = c /\ Emptied(m - 1, c)
        BY <2>2, <2>4, <3>2, <3>3, <3>5 DEF CloseStep
      <4>2. 1 .. m = (1 .. m - 1) \cup {m}
        BY <3>1
      <4>3. Emptied(m, c)
        BY <3>5, <4>1, <4>2 DEF Emptied
      <4> QED BY <2>2, <4>1, <4>3
    <3> QED BY <3>4, <3>5
  <2> QED BY <2>3, <2>4
<1>5. Emptied(n, f[n])
  BY <1>1, <1>4
<1>6. Open(f[n]) = PersistentTabs(session)
  <2>1. \A t \in Open(session) : \E j \in 1 .. n : session.tabs[j] = t
    BY <1>1 DEF Open
  <2> QED BY <1>5, <2>1 DEF Emptied, PersistentTabs
<1>7. f[n].active = NoTabId
  <2>1. f[n].active \in Open(f[n]) \cup {NoTabId}
    BY <1>5, SafeFacts DEF Emptied
  <2> QED BY <1>5, <1>6, <2>1 DEF Emptied, PersistentTabs, ModeSafe
<1> QED BY <1>2, <1>5, <1>6, <1>7 DEF Emptied

\* What leaving goes on with: nothing private is in the session, and nobody is active.
LEMMA LeftMode ==
  ASSUME OverCef, ModeSafe(session, TRUE)
  PROVE  LET left == Left(WithoutPrivateTabs) IN
         /\ ModeSafe(left, FALSE) /\ SameBrowsers(session.engine, left.engine)
         /\ Open(left) = PersistentTabs(session) /\ PersistentTabs(left) = Open(left)
         /\ left.restored = session.restored /\ NoEarlier(session, left)
<1> DEFINE d    == WithoutPrivateTabs
           e    == PurgeEphemeralContext(SetEphemeralMode(d.engine, FALSE))
           u    == Tell(d, e)
           left == PurgeEphemeralClosedTabs(u)
           seen == {rec \in Templates : ~rec.eph}
<1>0. left = Left(WithoutPrivateTabs)
  BY DEF Left
<1>1. /\ PagesSafe(d) /\ SameBrowsers(session.engine, d.engine)
      /\ Open(d) = PersistentTabs(session)
      /\ \A x \in Open(d) : d.tab[x] = session.tab[x]
      /\ d.restored = session.restored /\ NoEarlier(session, d)
      /\ d.active = NoTabId
  BY EmptiedIsPersistent
<1> HIDE DEF d
<1>2. /\ Follows(d) /\ SessionInvariant(d) /\ d.engine \in CefStates
      /\ d.closed \in Seq(HarmlessRecords)
  BY <1>1, SafeFacts DEF PagesSafe
<1>3. /\ e \in CefStates /\ e.private = FALSE /\ e.context = d.engine.context
      /\ e.shared = Profile /\ e.phase = d.engine.phase /\ e.queued = d.engine.queued
      /\ e.visible = d.engine.visible /\ e.active = d.engine.active
      /\ e.destroyed = d.engine.destroyed /\ SameBrowsers(d.engine, e)
  BY <1>2 DEF SetEphemeralMode, PurgeEphemeralContext, CefStates, SameBrowsers, HasBrowser, Profile
<1> HIDE DEF e
<1>4. /\ SessionInvariant(u)
      /\ u.tab = d.tab /\ u.active = d.active /\ u.closed = d.closed
      /\ u.restored = d.restored /\ u.clock = d.clock /\ Open(u) = Open(d) /\ u.engine = e
  BY <1>2, TellEffect
<1> HIDE DEF u
<1>5. /\ SessionInvariant(left)
      /\ left.tab = u.tab /\ left.active = u.active
      /\ left.restored = u.restored /\ left.engine = u.engine /\ Open(left) = Open(u)
      /\ left.closed = Kept(u.closed, seen)
  BY <1>4, PurgeKeepsInvariant, PurgeEffect
<1>6. left.clock = u.clock
  BY <1>4 DEF PurgeEphemeralClosedTabs, SessionInvariant, IsSession
<1> HIDE DEF left
<1>7. left.closed \in Seq(HarmlessRecords) /\ left.closed \in Seq(DurableRecords)
  <2>1. Kept(u.closed, seen) \in Seq(HarmlessRecords \cap seen)
    BY <1>2, <1>4, KeptType
  <2>2. HarmlessRecords \cap seen \subseteq DurableRecords
    BY DEF HarmlessRecords, DurableRecords
  <2> QED BY <1>5, <2>1, <2>2
<1>8. Follows(left)
  BY <1>2, <1>3, <1>4, <1>5 DEF Follows, NoneRests, QueueIsShown, CefHas, Usable
<1>9. \A x \in Open(left) : ~left.tab[x].eph
  BY <1>1, <1>4, <1>5 DEF PersistentTabs
<1>10. ASSUME NEW x \in Open(left) PROVE PageSafe(left, x)
  <2>1. PageSafe(d, x)
    BY <1>1, <1>4, <1>5 DEF PagesSafe
  <2> QED BY <1>3, <1>4, <1>5, <1>9, <2>1 DEF PageSafe
<1>11. ModeSafe(left, FALSE)
  BY <1>1, <1>3, <1>4, <1>5, <1>7, <1>8, <1>9, <1>10 DEF ModeSafe, PagesSafe
<1>12. SameBrowsers(session.engine, left.engine)
  BY <1>1, <1>3, <1>4, <1>5, SameBrowsersChain
<1>13. NoEarlier(session, left)
  BY <1>1, <1>4, <1>6 DEF NoEarlier
<1>14. PersistentTabs(left) = Open(left)
  BY <1>9 DEF PersistentTabs
<1> QED BY <1>0, <1>1, <1>4, <1>5, <1>11, <1>12, <1>13, <1>14

-----------------------------------------------------------------------------
(***************************************************************************)
(* Names, and what is recorded.                                            *)
(***************************************************************************)

\* A call makes no browser come or go, gives only names it is the turn of, and is not
\* the first one any more.
IdMoves(s, c, d, b) ==
  /\ Follows(d) /\ SameBrowsers(s.engine, d.engine)
  /\ d.clock \in Nat \ {0}
  /\ d.restored \in Nat /\ d.restored >= s.restored
  /\ b \in Counters /\ b.private >= c.private
  /\ \A n \in DOMAIN RestoredId :
       n > d.restored /\ RestoredId[n] \in Open(d) => RestoredId[n] \in Open(s)
  /\ \A n \in DOMAIN PrivateId :
       n > b.private /\ PrivateId[n] \in Open(d) => PrivateId[n] \in Open(s)

\* A surface without a browser and without a tab is no surface.
LEMMA AbsentMeans ==
  ASSUME NEW s, Follows(s), NEW t \in TabIds
  PROVE  s.engine.phase[t] = "absent" <=> t \notin Open(s) /\ ~HasBrowser(s.engine, t)
<1>1. s.engine.phase[t] \in Phases /\ (Usable(s.engine, t) <=> t \in Open(s))
  BY DEF Follows, CefHas, CefStates
<1> QED BY <1>1 DEF Phases, Usable, HasBrowser

LEMMA IdMoveKeeps ==
  ASSUME FreshIds, NEW s, Follows(s), NEW c, NamesUnused(s, c), NEW d, NEW b,
         IdMoves(s, c, d, b)
  PROVE  NamesUnused(d, b)
<1>0. s.restored \in Nat /\ c.private \in Nat
  BY SessionFields DEF Follows, SessionInvariant, NamesUnused, Counters
<1>1. \A t \in TabIds : s.engine.phase[t] = "absent" /\ (t \in Open(d) => t \in Open(s)) =>
        d.engine.phase[t] = "absent"
  BY AbsentMeans DEF IdMoves, SameBrowsers
<1>2. ASSUME NEW n \in DOMAIN RestoredId, n > d.restored
      PROVE  d.engine.phase[RestoredId[n]] = "absent"
  <2>1. n \in Nat /\ RestoredId[n] \in TabIds /\ n > s.restored
    BY <1>0, <1>2, RestoredIdAssumption DEF FreshIds, IdMoves
  <2> QED BY <1>1, <1>2, <2>1 DEF IdMoves, NamesUnused
<1>3. ASSUME NEW n \in DOMAIN PrivateId, n > b.private
      PROVE  d.engine.phase[PrivateId[n]] = "absent"
  <2>1. n \in Nat /\ PrivateId[n] \in TabIds /\ n > c.private
    BY <1>0, <1>3, IdsAssumption DEF FreshIds, IdMoves, Counters
  <2> QED BY <1>1, <1>3, <2>1 DEF IdMoves, NamesUnused
<1> QED BY <1>2, <1>3 DEF IdMoves, NamesUnused

\* What is recorded is of persistent tabs, none of which shows a secret.
LEMMA RecordedSafe ==
  ASSUME NEW d, ModeSafe(d, FALSE), d.active # NoTabId, NEW k, DiskSafe(d, TRUE, k)
  PROVE  DiskSafe(d, FALSE, Recorded(d, k))
<1>1. d.active \in Open(d)
  BY SafeFacts DEF ModeSafe
<1>2. \A t \in Open(d) : ~d.tab[t].eph /\ d.tab[t].url \notin SecretUrls
  BY DEF ModeSafe, PagesSafe, PageSafe
<1>3. \A entry \in Snapshot(d) : entry[2] \notin SecretUrls
  BY <1>2 DEF Snapshot, PersistentTabs
<1>4. Recorded(d, k).saved = Snapshot(d)
  BY DEF Recorded
<1>5. Recorded(d, k).history \cap SecretUrls = {}
  BY <1>1, <1>2 DEF Recorded, DiskSafe
<1> QED BY <1>3, <1>4, <1>5 DEF DiskSafe

LEMMA NotifiedSafe ==
  ASSUME ModeSafe(session, private), DiskSafe(session, private, disk),
         NEW d, NEW q \in BOOLEAN, ModeSafe(d, q), Notified(d, q)
  PROVE  DiskSafe(d, q, disk')
<1>0. /\ IsSession(d) /\ IsSession(session)
      /\ d.active # NoTabId => d.active \in Open(d) /\ d.tab[d.active].eph = q
      /\ session.active # NoTabId => session.tab[session.active].eph = private
  BY SafeFacts DEF ModeSafe
<1>1. DiskSafe(d, TRUE, disk)
  BY DEF DiskSafe
<1>2. CASE [d EXCEPT !.engine = engine] = session
  <2>1. disk' = disk
    BY <1>2 DEF Notified
  <2>2. d.tabs = session.tabs /\ d.tab = session.tab /\ d.active = session.active
    BY <1>0, <1>2 DEF IsSession
  <2>3. Snapshot(d) = Snapshot(session)
    BY <2>2 DEF Snapshot, PersistentTabs, Open
  <2>4. ~q /\ d.active # NoTabId => ~private
    BY <1>0, <2>2
  <2> QED BY <2>1, <2>2, <2>3, <2>4 DEF DiskSafe
<1>3. CASE [d EXCEPT !.engine = engine] # session
  <2>1. CASE ~q /\ d.active # NoTabId
    <3>1. disk' = Recorded(d, disk)
      BY <1>0, <1>3, <2>1 DEF Notified, Records
    <3>2. DiskSafe(d, FALSE, Recorded(d, disk))
      <4>1. ModeSafe(d, FALSE)
        BY <2>1
      <4> QED BY <1>1, <2>1, <4>1, RecordedSafe
    <3> QED BY <2>1, <3>1, <3>2
  <2>2. CASE q \/ d.active = NoTabId
    <3>1. disk' = disk
      BY <2>2 DEF Notified, Records
    <3> QED BY <2>2, <3>1 DEF DiskSafe
  <2> QED BY <2>1, <2>2
<1> QED BY <1>2, <1>3

\* What every call does: the session stays safe in the mode that follows, names are
\* given in turn, and a call within private mode keeps the persistent tabs.
CallMoves ==
  /\ private' \in BOOLEAN
  /\ ModeSafe(session', private')
  /\ IdMoves(session, counters, session', counters')
  /\ private /\ private' => PersistentTabs(session') = PersistentTabs(session)

LEMMA CallKeeps ==
  ASSUME FreshIds, PrivateSafe, CallMoves, Notified(session', private')
  PROVE  PrivateSafe'
<1>1. NamesUnused(session', counters')
  <2>1. Follows(session) /\ NamesUnused(session, counters)
    BY DEF PrivateSafe, ModeSafe, PagesSafe
  <2> QED BY <2>1, IdMoveKeeps DEF CallMoves
<1>2. DiskSafe(session', private', disk')
  BY NotifiedSafe DEF PrivateSafe, CallMoves
<1> QED BY <1>1, <1>2 DEF PrivateSafe, CallMoves

\* What the invariant says before a call.
LEMMA PrivateFacts ==
  ASSUME PrivateSafe
  PROVE  /\ ModeSafe(session, private) /\ PagesSafe(session) /\ Follows(session)
         /\ SessionInvariant(session) /\ private \in BOOLEAN
         /\ session.clock \in Nat /\ session.restored \in Nat /\ Open(session) \subseteq TabIds
         /\ session.active \in Open(session) \cup {NoTabId}
         /\ NamesUnused(session, counters) /\ counters \in Counters
<1>1. PagesSafe(session) /\ session.engine.private = private
  BY DEF PrivateSafe, ModeSafe
<1>2. session.engine \in CefStates
  BY <1>1, SafeFacts
<1>3. private \in BOOLEAN
  BY <1>1, <1>2 DEF CefStates
<1> QED BY <1>1, <1>3, SafeFacts DEF PrivateSafe, NamesUnused

-----------------------------------------------------------------------------
(***************************************************************************)
(* Each action makes such a call.                                          *)
(***************************************************************************)

\* A call of the mode that gives no name.
LEMMA QuietCall ==
  ASSUME PrivateSafe, NEW d, session' = d, private' = private, counters' = counters,
         session.clock > 0, ModeMoves(session, private, d),
         SameBrowsers(session.engine, d.engine), NoEarlier(session, d),
         Open(d) \subseteq Open(session), d.restored = session.restored
  PROVE  CallMoves
<1>0. private \in BOOLEAN /\ session.clock \in Nat /\ session.restored \in Nat
      /\ counters \in Counters
  BY PrivateFacts
<1>1. Follows(d)
  BY DEF ModeMoves, ModeSafe, PagesSafe
<1>2. IdMoves(session, counters, d, counters)
  BY <1>0, <1>1 DEF IdMoves, NoEarlier, Counters
<1> QED BY <1>0, <1>2 DEF CallMoves, ModeMoves

LEMMA NewTabFacts ==
  ASSUME PublicNewTab, private \in BOOLEAN
  PROVE  /\ NewTab \in Templates /\ NewTab.eph = private
         /\ NewTab.eph \/ NewTab.url \notin SecretUrls \/ IsLegacySyntheticNewTab(NewTab)
BY UrlsAssumption DEF NewTab, Templates, Titles, PublicNewTab

LEMMA StartupMoves ==
  ASSUME OverCef, FreshIds, PublicNewTab, PrivateSafe, Startup
  PROVE  CallMoves
<1> DEFINE t == InitialId
<1>0. /\ ModeSafe(session, private) /\ Follows(session) /\ SessionInvariant(session)
      /\ private \in BOOLEAN /\ session.clock = 0 /\ session.restored \in Nat
      /\ counters \in Counters /\ Open(session) \subseteq TabIds
  BY PrivateFacts DEF Startup
<1>1. t \in TabIds /\ session.engine.phase[t] = "absent"
  BY <1>0, IdsAssumption DEF PrivateSafe, NamesUnused
<1>2. Open(session) = {}
  BY <1>0, AbsentMeans DEF PrivateSafe, NamesUnused
<1>3. session.tabs = <<>> /\ ~IsOpen(session, t)
  <2>1. session.tabs \in Seq(TabIds) /\ Len(session.tabs) \in Nat
    BY <1>0, SessionFields, LenProperties DEF SessionInvariant
  <2>2. Len(session.tabs) = 0
    <3> SUFFICES ASSUME Len(session.tabs) # 0 PROVE FALSE
      OBVIOUS
    <3>1. 1 \in DOMAIN session.tabs
      BY <2>1
    <3> QED BY <1>2, <3>1 DEF Open
  <2> QED BY <1>2, <2>1, <2>2, EmptySeq DEF IsOpen
<1>4. PICK activate : activate = FALSE
  OBVIOUS
<1> DEFINE d == OpenTab(session, t, NewTab, activate)
<1>5. session' = d /\ private' = private /\ counters' = counters
  BY <1>4 DEF Startup, Step
<1>6. /\ ModeMoves(session, private, d) /\ SameBrowsers(session.engine, d.engine)
      /\ Open(d) = Open(session) \cup {t} /\ d.restored = session.restored
  BY <1>0, <1>1, NewTabFacts, OpenMode
<1>7. NoEarlier(session, d) /\ d.clock = session.clock + 1
  BY <1>0, <1>1, <1>3, NewTabFacts, OpenTime
<1> HIDE DEF d
<1>8. IdMoves(session, counters, d, counters)
  <2>1. Follows(d)
    BY <1>6 DEF ModeMoves, ModeSafe, PagesSafe
  <2>2. /\ \A n \in DOMAIN RestoredId : RestoredId[n] # t
        /\ \A n \in DOMAIN PrivateId : PrivateId[n] # t
    BY DEF FreshIds
  <2>3. d.clock = 1
    BY <1>0, <1>7
  <2> QED BY <1>0, <1>6, <2>1, <2>2, <2>3 DEF IdMoves, Counters
<1> QED BY <1>0, <1>5, <1>6, <1>8 DEF CallMoves, ModeMoves

\* A number the loop settles on names no open tab and, in time, no browser.
LEMMA NumberedAbsent ==
  ASSUME FreshIds, NEW s, Follows(s), NEW n \in DOMAIN NumberedId,
         NumberedId[n] \notin Open(s), InTime(s.engine, n)
  PROVE  NumberedId[n] \in TabIds /\ s.engine.phase[NumberedId[n]] = "absent"
<1>1. NumberedId[n] \in TabIds
  BY IdsAssumption
<1> QED BY <1>1 DEF InTime, FreshIds, Follows, CefHas, CefStates, Phases, Usable

LEMMA NumberMoves ==
  ASSUME OverCef, FreshIds, PublicNewTab, PrivateSafe, session.clock > 0,
         NEW index, NEW n \in LowestFree(index), InTime(engine, n),
         session' = OpenTab(session, NumberedId[n], NewTab, TRUE), private' = private,
         counters' \in Counters, counters'.private = counters.private
  PROVE  CallMoves
<1> DEFINE t == NumberedId[n]
<1>0. /\ ModeSafe(session, private) /\ Follows(session) /\ SessionInvariant(session)
      /\ private \in BOOLEAN /\ session.clock \in Nat /\ session.restored \in Nat
      /\ counters \in Counters
  BY PrivateFacts
<1>1. n \in DOMAIN NumberedId /\ t \notin Open(session)
  BY DEF LowestFree, FreeIndex, IsOpen
<1>2. t \in TabIds /\ session.engine.phase[t] = "absent"
  BY <1>0, <1>1, NumberedAbsent DEF engine
<1>3. PICK activate : activate = TRUE
  OBVIOUS
<1> DEFINE d == OpenTab(session, t, NewTab, activate)
<1>4. session' = d
  BY <1>3
<1>5. /\ \A m \in DOMAIN RestoredId : RestoredId[m] # t
      /\ \A m \in DOMAIN PrivateId : PrivateId[m] # t
  BY <1>1 DEF FreshIds
<1> HIDE DEF t
<1>6. /\ ModeMoves(session, private, d) /\ SameBrowsers(session.engine, d.engine)
      /\ Open(d) = Open(session) \cup {t} /\ d.restored = session.restored
  BY <1>0, <1>2, NewTabFacts, OpenMode
<1>7. NoEarlier(session, d)
  BY <1>0, <1>2, NewTabFacts, OpenTime
<1> HIDE DEF d
<1>8. IdMoves(session, counters, d, counters')
  <2>1. Follows(d)
    BY <1>6 DEF ModeMoves, ModeSafe, PagesSafe
  <2>2. d.clock \in Nat \ {0}
    BY <1>0, <1>7 DEF NoEarlier
  <2> QED BY <1>0, <1>5, <1>6, <2>1, <2>2 DEF IdMoves, Counters
<1> QED BY <1>0, <1>4, <1>6, <1>8 DEF CallMoves, ModeMoves

LEMMA CloseOutsideMoves ==
  ASSUME OverCef, PrivateSafe, NEW t, CloseOutsidePrivateMode(t)
  PROVE  CallMoves
<1> DEFINE d == CloseTab(session, t, ~private)
<1>0. /\ ModeSafe(session, private) /\ private = FALSE /\ t \in Open(session)
      /\ session.clock > 0
  BY PrivateFacts DEF CloseOutsidePrivateMode, Started, IsOpen
<1>1. session' = d /\ private' = private /\ counters' = counters
  BY <1>0 DEF CloseOutsidePrivateMode, Step
<1>2. session.tab[t].eph = private
  BY <1>0, SafeFacts DEF ModeSafe
<1>3. /\ ModeMoves(session, private, d) /\ SameBrowsers(session.engine, d.engine)
      /\ Open(d) = Open(session) \ {t} /\ d.restored = session.restored
      /\ NoEarlier(session, d)
  BY <1>0, <1>2, CloseMode, SMTT(40), ZenonT(40)
<1> HIDE DEF d
<1> QED BY <1>0, <1>1, <1>3, QuietCall

LEMMA ReopenMoves ==
  ASSUME OverCef, FreshIds, PublicNewTab, PrivateSafe, ReopenClosedTab
  PROVE  CallMoves
<1> DEFINE mode == IF private THEN "EphemeralOnly" ELSE "PersistentOnly"
           t    == RestoredId[session.restored + 1]
           d    == ReopenLastClosedTab(session, mode)
<1>0. /\ ModeSafe(session, private) /\ Follows(session) /\ SessionInvariant(session)
      /\ private \in BOOLEAN /\ session.clock \in Nat /\ session.restored \in Nat
      /\ counters \in Counters
      /\ session.clock > 0 /\ session.restored + 1 \in DOMAIN RestoredId
  BY PrivateFacts DEF ReopenClosedTab, Started
<1>1. session' = d /\ private' = private /\ counters' = counters
  BY DEF ReopenClosedTab, Step
<1>2. CASE Reopenable(session, mode) = {}
  <2>1. d = session
    BY <1>2 DEF ReopenLastClosedTab
  <2>2. ModeMoves(session, private, session)
    BY <1>0 DEF ModeMoves
  <2>3. SameBrowsers(session.engine, session.engine) /\ NoEarlier(session, session)
    BY <1>0 DEF SameBrowsers, NoEarlier
  <2>4. PICK x : x = session
    OBVIOUS
  <2> QED BY <1>0, <1>1, <2>1, <2>2, <2>3, <2>4, QuietCall
<1>3. CASE Reopenable(session, mode) # {}
  <2>1. session.engine.phase[t] = "absent"
    BY <1>0 DEF PrivateSafe, NamesUnused
  <2>2. /\ ModeMoves(session, private, d)
        /\ SameBrowsers(session.engine, d.engine) /\ NoEarlier(session, d)
        /\ Open(d) = Open(session) \cup {t}
        /\ d.restored = session.restored + 1
    <3> DEFINE c == ReopenLastClosedTab(session, mode)
    <3>1. PICK m : m = mode
      OBVIOUS
    <3>2. Reopenable(session, m) # {} /\ m = IF private THEN "EphemeralOnly" ELSE "PersistentOnly"
      BY <1>3, <3>1
    <3>3. LET c2 == ReopenLastClosedTab(session, m) IN
          /\ ModeMoves(session, private, c2)
          /\ SameBrowsers(session.engine, c2.engine) /\ NoEarlier(session, c2)
          /\ Open(c2) = Open(session) \cup {RestoredId[session.restored + 1]}
          /\ c2.restored = session.restored + 1
      BY <1>0, <2>1, <3>2, ReopenMode
    <3> QED BY <3>1, <3>3
  <2> HIDE DEF d
  <2>3. IdMoves(session, counters, d, counters)
    <3>1. Follows(d)
      BY <2>2 DEF ModeMoves, ModeSafe, PagesSafe
    <3>2. d.clock \in Nat \ {0}
      BY <1>0, <2>2 DEF NoEarlier
    <3>3. \A n \in DOMAIN RestoredId : n > d.restored => RestoredId[n] # t
      BY <1>0, <2>2 DEF FreshIds
    <3>4. \A n \in DOMAIN PrivateId : PrivateId[n] # t
      BY <1>0 DEF FreshIds
    <3> HIDE DEF t
    <3> QED BY <1>0, <2>2, <3>1, <3>2, <3>3, <3>4 DEF IdMoves, Counters
  <2> QED BY <1>0, <1>1, <2>2, <2>3 DEF CallMoves, ModeMoves
<1> QED BY <1>2, <1>3

LEMMA ActivateMoves ==
  ASSUME OverCef, PrivateSafe, session.clock > 0, NEW t,
         IsOpen(session, t) => session.tab[t].eph = private,
         session' = ActivateTab(session, t), private' = private, counters' = counters
  PROVE  CallMoves
<1> DEFINE d == ActivateTab(session, t)
<1>0. ModeSafe(session, private) /\ private \in BOOLEAN
  BY PrivateFacts
<1>1. /\ ModeMoves(session, private, d) /\ SameBrowsers(session.engine, d.engine)
      /\ Open(d) = Open(session) /\ d.restored = session.restored /\ NoEarlier(session, d)
  BY <1>0, ActivateMode
<1>2. session' = d
  OBVIOUS
<1> HIDE DEF d
<1> QED BY <1>1, <1>2, QuietCall

LEMMA CycleMoves ==
  ASSUME OverCef, PrivateSafe, NEW forward, CycleVisibleTabs(forward)
  PROVE  CallMoves
<1> DEFINE t == CycleTarget(session, Visible, forward)
<1>0. /\ SessionInvariant(session) /\ ModeSafe(session, private) /\ private \in BOOLEAN
      /\ session.clock \in Nat /\ session.clock > 0
      /\ private' = private /\ counters' = counters
      /\ session' = CycleTab(session, Visible, forward)
  BY PrivateFacts DEF CycleVisibleTabs, Started, Step
<1>1. CASE Open(session) \cap Visible = {}
  <2>1. PICK x : x = session
    OBVIOUS
  <2>2. session' = x
    BY <1>0, <1>1, <2>1 DEF CycleTab
  <2>3. ModeMoves(session, private, x) /\ SameBrowsers(session.engine, x.engine)
        /\ NoEarlier(session, x) /\ Open(x) = Open(session) /\ x.restored = session.restored
    BY <1>0, <2>1 DEF ModeMoves, SameBrowsers, NoEarlier
  <2> QED BY <1>0, <2>2, <2>3, QuietCall
<1>2. CASE Open(session) \cap Visible # {}
  <2>1. t \in Visible
    BY <1>0, <1>2, CycleTargetIsVisible
  <2>2. session' = ActivateTab(session, t)
    BY <1>0, <1>2 DEF CycleTab
  <2> HIDE DEF t
  <2>3. IsOpen(session, t) => session.tab[t].eph = private
    BY <2>1 DEF Visible
  <2> QED BY <1>0, <2>2, <2>3, ActivateMoves
<1> QED BY <1>1, <1>2

LEMMA NavigateMoves ==
  ASSUME OverCef, PrivateSafe, NavigateActiveTab
  PROVE  CallMoves
<1>0. /\ ModeSafe(session, private) /\ private \in BOOLEAN
      /\ session.active \in Open(session) /\ session.clock > 0
  BY PrivateFacts DEF NavigateActiveTab, Started
<1>1. PICK url \in Urls : Step(Navigate(session, session.active, url))
  BY SecretsAssumption DEF NavigateActiveTab
<1>2. PICK t : t = session.active
  OBVIOUS
<1> DEFINE d == Navigate(session, t, url)
<1>3. session' = d /\ private' = private /\ counters' = counters
  BY <1>1, <1>2 DEF Step, NavigateActiveTab
<1>4. /\ ModeMoves(session, private, d) /\ SameBrowsers(session.engine, d.engine)
      /\ Open(d) = Open(session) /\ d.restored = session.restored /\ NoEarlier(session, d)
  BY <1>0, <1>2, NavigateMode
<1> HIDE DEF d
<1> QED BY <1>0, <1>3, <1>4, QuietCall

\* A closed tab of private mode hands over to another private one or to a new one.
LEMMA ClosePrivateMoves ==
  ASSUME OverCef, FreshIds, PublicNewTab, PrivateSafe, NEW t, CloseInPrivateMode(t)
  PROVE  CallMoves
<1> DEFINE closed == CloseQuietly(session, t)
           others == Open(closed) \ PersistentTabs(closed)
           n      == counters.private + 1
<1>0. /\ ModeSafe(session, private) /\ SessionInvariant(session) /\ private = TRUE
      /\ session.clock \in Nat /\ session.clock > 0 /\ session.restored \in Nat
      /\ counters \in Counters /\ Open(session) \subseteq TabIds
      /\ NamesUnused(session, counters) /\ Follows(session)
      /\ private' = private
  BY PrivateFacts DEF CloseInPrivateMode, Started, Step
<1>1. t \in Open(session) /\ session.tab[t].eph = private
  BY <1>0 DEF CloseInPrivateMode, Visible
<1>2. /\ ModeMoves(session, private, closed)
      /\ SameBrowsers(session.engine, closed.engine)
      /\ Open(closed) = Open(session) \ {t} /\ closed.restored = session.restored
      /\ NoEarlier(session, closed)
  <2>1. PICK p \in BOOLEAN : p = private
    BY <1>0
  <2>2. closed = CloseTab(session, t, ~p)
    BY <1>0, <2>1 DEF CloseQuietly
  <2> DEFINE c == CloseTab(session, t, ~p)
  <2>3. /\ ModeMoves(session, p, c)
        /\ SameBrowsers(session.engine, c.engine)
        /\ Open(c) = Open(session) \ {t} /\ c.restored = session.restored /\ NoEarlier(session, c)
    BY <1>0, <1>1, <2>1, CloseMode
  <2> HIDE DEF c, closed
  <2> QED BY <2>1, <2>2, <2>3 DEF c
<1> HIDE DEF closed
<1>3. /\ ModeSafe(closed, private) /\ PagesSafe(closed) /\ Follows(closed)
      /\ SessionInvariant(closed)
      /\ PersistentTabs(closed) = PersistentTabs(session)
      /\ closed.clock \in Nat /\ closed.clock >= session.clock
  BY <1>0, <1>2 DEF ModeMoves, ModeSafe, PagesSafe, Follows, NoEarlier
<1>4. CASE session' = closed /\ counters' = counters
  BY <1>0, <1>2, <1>4, QuietCall
<1>5. CASE /\ others # {} /\ counters' = counters
           /\ session' = ActivateTab(closed, FirstOf(closed, others))
  <2>1. PICK y : y = FirstOf(closed, others)
    OBVIOUS
  <2>2. y \in others
    <3>1. Open(closed) \cap others # {}
      BY <1>5
    <3> HIDE DEF others
    <3> QED BY <1>3, <2>1, <3>1, FirstIsOne
  <2>3. closed.tab[y].eph = private
    <3>1. y \in Open(closed) /\ y \notin PersistentTabs(closed)
      BY <2>2
    <3>2. closed.tab[y].eph \in BOOLEAN
      BY <1>3, <3>1, SafeFacts
    <3> QED BY <1>0, <3>1, <3>2 DEF PersistentTabs
  <2> DEFINE d == ActivateTab(closed, y)
  <2>4. /\ ModeMoves(closed, private, d) /\ SameBrowsers(closed.engine, d.engine)
        /\ Open(d) = Open(closed) /\ d.restored = closed.restored /\ NoEarlier(closed, d)
    BY <1>0, <1>3, <2>3, ActivateMode
  <2>5. session' = d
    BY <1>5, <2>1
  <2> HIDE DEF d, others
  <2>6. SameBrowsers(session.engine, d.engine)
    BY <1>2, <2>4, SameBrowsersChain
  <2>7. ModeMoves(session, private, d)
    BY <1>3, <2>4 DEF ModeMoves
  <2>8. NoEarlier(session, d) /\ Open(d) \subseteq Open(session) /\ d.restored = session.restored
    BY <1>0, <1>2, <1>3, <2>4 DEF NoEarlier
  <2> QED BY <1>0, <1>5, <2>5, <2>6, <2>7, <2>8, QuietCall
<1>6. CASE /\ n \in DOMAIN PrivateId
           /\ session' = OpenTab(closed, PrivateId[n], LegacyTab(TRUE), TRUE)
           /\ counters' = [counters EXCEPT !.private = @ + 1]
  <2> DEFINE id == PrivateId[n]
  <2>1. id \in TabIds /\ session.engine.phase[id] = "absent" /\ n \in Nat
    BY <1>0, <1>6, IdsAssumption DEF NamesUnused, Counters, FreshIds
  <2>2. closed.engine.phase[id] = "absent"
    BY <1>0, <1>2, <1>3, <2>1, AbsentMeans DEF SameBrowsers
  <2>3. PICK tpl : tpl = LegacyTab(TRUE)
    OBVIOUS
  <2>4. tpl \in Templates /\ tpl.eph = private /\ tpl.eph /\ private \in BOOLEAN
    BY <1>0, <2>3, LegacyTabFacts
  <2>5. PICK activate : activate = TRUE
    OBVIOUS
  <2>a. /\ \A m \in DOMAIN RestoredId : RestoredId[m] # id
        /\ \A m \in DOMAIN PrivateId : m > n => PrivateId[m] # id
    BY <1>6, <2>1 DEF FreshIds
  <2> DEFINE d == OpenTab(closed, id, tpl, activate)
  <2>6. session' = d
    BY <1>6, <2>3, <2>5
  <2> HIDE DEF id
  <2>7. /\ ModeMoves(closed, private, d) /\ SameBrowsers(closed.engine, d.engine)
        /\ Open(d) = Open(closed) \cup {id} /\ d.restored = closed.restored
    <3>0. PICK s : s = closed
      OBVIOUS
    <3>1. PICK p \in BOOLEAN : p = private
      BY <2>4
    <3> DEFINE c == OpenTab(s, id, tpl, activate)
    <3>2. ModeSafe(s, p) /\ s.engine.phase[id] = "absent" /\ id \in TabIds
          /\ tpl \in Templates /\ tpl.eph = p /\ tpl.eph
      BY <1>3, <2>1, <2>2, <2>4, <3>0, <3>1
    <3>3. /\ ModeMoves(s, p, c) /\ SameBrowsers(s.engine, c.engine)
          /\ Open(c) = Open(s) \cup {id} /\ c.restored = s.restored
      BY <3>2, OpenMode
    <3> HIDE DEF c
    <3>4. c = d
      BY <3>0 DEF c
    <3> HIDE DEF d
    <3> QED BY <3>0, <3>1, <3>3, <3>4
  <2>8. NoEarlier(closed, d)
    BY <1>3, <2>1, <2>4, OpenTime
  <2> HIDE DEF d
  <2>9. counters' \in Counters /\ counters'.private = n
    BY <1>0, <1>6 DEF Counters
  <2>10. IdMoves(session, counters, d, counters')
    <3>1. Follows(d)
      BY <2>7 DEF ModeMoves, ModeSafe, PagesSafe
    <3>2. d.clock \in Nat \ {0}
      BY <1>0, <1>3, <2>8 DEF NoEarlier
    <3>3. SameBrowsers(session.engine, d.engine)
      BY <1>2, <2>7, SameBrowsersChain
    <3>4. d.restored = session.restored /\ Open(d) = (Open(session) \ {t}) \cup {id}
      BY <1>2, <2>7
    <3>5. counters'.private >= counters.private
      BY <1>0, <2>9 DEF Counters
    <3> QED BY <1>0, <2>9, <2>a, <3>1, <3>2, <3>3, <3>4, <3>5 DEF IdMoves
  <2>11. ModeMoves(session, private, d)
    BY <1>3, <2>7 DEF ModeMoves
  <2> QED BY <1>0, <2>6, <2>10, <2>11 DEF CallMoves, ModeMoves
<1> QED BY <1>4, <1>5, <1>6 DEF CloseInPrivateMode, Step, closed

LEMMA EnterMoves ==
  ASSUME OverCef, FreshIds, PublicNewTab, PrivateSafe, EnterPrivateMode
  PROVE  CallMoves
<1> DEFINE n  == counters.private + 1
           id == PrivateId[n]
           d  == OpenTab(Tell(session, SetEphemeralMode(session.engine, TRUE)),
                         id, LegacyTab(TRUE), TRUE)
<1>0. /\ ModeSafe(session, private) /\ private = FALSE /\ private' = TRUE
      /\ session.clock \in Nat /\ session.clock > 0 /\ session.restored \in Nat
      /\ counters \in Counters /\ NamesUnused(session, counters)
      /\ n \in DOMAIN PrivateId /\ counters' = [counters EXCEPT !.private = @ + 1]
      /\ session' = d
  BY PrivateFacts DEF EnterPrivateMode, Started, engine
<1>1. id \in TabIds /\ session.engine.phase[id] = "absent" /\ n \in Nat
  BY <1>0, IdsAssumption DEF NamesUnused, Counters, FreshIds
<1>2. /\ \A m \in DOMAIN RestoredId : RestoredId[m] # id
      /\ \A m \in DOMAIN PrivateId : m > n => PrivateId[m] # id
  BY <1>0, <1>1 DEF FreshIds
<1> HIDE DEF id
<1>3. ModeSafe(session, FALSE)
  BY <1>0
<1>4. /\ ModeSafe(d, TRUE) /\ SameBrowsers(session.engine, d.engine)
      /\ Open(d) = Open(session) \cup {id} /\ d.restored = session.restored
      /\ NoEarlier(session, d)
  BY <1>1, <1>3, EnterMode
<1> HIDE DEF d
<1>5. counters' \in Counters /\ counters'.private = n /\ n >= counters.private
  BY <1>0 DEF Counters
<1> HIDE DEF n
<1>6. IdMoves(session, counters, d, counters')
  <2>1. Follows(d)
    BY <1>4 DEF ModeSafe, PagesSafe
  <2>2. d.clock \in Nat \ {0}
    BY <1>0, <1>4 DEF NoEarlier
  <2> QED BY <1>0, <1>2, <1>4, <1>5, <2>1, <2>2 DEF IdMoves
<1> QED BY <1>0, <1>4, <1>6 DEF CallMoves

\* Leaving keeps the persistent tabs, or opens one when there is none.
KeptOnLeaving ==
  /\ PersistentTabs(session) # {} => PersistentTabs(session') = PersistentTabs(session)
  /\ PersistentTabs(session) = {} => \E t \in TabIds : PersistentTabs(session') = {t}

LEMMA ExitMoves ==
  ASSUME OverCef, FreshIds, PublicNewTab, PrivateSafe, ExitPrivateMode
  PROVE  CallMoves /\ KeptOnLeaving
<1> DEFINE left == Left(WithoutPrivateTabs)
           n    == counters.persistent + 1
           id   == NumberedId[n]
<1>0. /\ ModeSafe(session, TRUE) /\ private' = FALSE
      /\ session.clock \in Nat /\ session.clock > 0 /\ session.restored \in Nat
      /\ counters \in Counters /\ NamesUnused(session, counters)
  BY PrivateFacts DEF ExitPrivateMode, Started
<1>1. /\ ModeSafe(left, FALSE) /\ SameBrowsers(session.engine, left.engine)
      /\ Open(left) = PersistentTabs(session) /\ PersistentTabs(left) = Open(left)
      /\ left.restored = session.restored /\ NoEarlier(session, left)
  BY <1>0, LeftMode
<1>2. \/ /\ left.tabs = <<>> /\ n \in DOMAIN NumberedId /\ InTime(left.engine, n)
         /\ session' = OpenTab(left, id, LegacyTab(FALSE), TRUE)
         /\ counters' = [counters EXCEPT !.persistent = @ + 1]
      \/ /\ left.tabs # <<>> /\ counters' = counters
         /\ session' = ActivateTab(left, FirstOf(left, PersistentTabs(left)))
  BY DEF ExitPrivateMode
<1> HIDE DEF left
<1>3. /\ PagesSafe(left) /\ Follows(left) /\ SessionInvariant(left) /\ left.tabs \in Seq(TabIds)
      /\ left.clock \in Nat \ {0}
      /\ PersistentTabs(session) \subseteq Open(session)
  BY <1>0, <1>1, SafeFacts, SessionFields DEF ModeSafe, NoEarlier, SessionInvariant, PersistentTabs
<1>4. CASE /\ left.tabs = <<>> /\ n \in DOMAIN NumberedId /\ InTime(left.engine, n)
           /\ session' = OpenTab(left, id, LegacyTab(FALSE), TRUE)
           /\ counters' = [counters EXCEPT !.persistent = @ + 1]
  <2>1. Open(left) = {}
    BY <1>4 DEF Open
  <2>2. id \in TabIds /\ left.engine.phase[id] = "absent"
    BY <1>3, <1>4, <2>1, NumberedAbsent
  <2>3. PICK tpl, activate : tpl = LegacyTab(FALSE) /\ activate = TRUE
    OBVIOUS
  <2>4. tpl \in Templates /\ tpl.eph = FALSE /\ IsLegacySyntheticNewTab(tpl)
    BY <2>3, LegacyTabFacts
  <2>5. /\ \A m \in DOMAIN RestoredId : RestoredId[m] # id
        /\ \A m \in DOMAIN PrivateId : PrivateId[m] # id
    BY <1>4 DEF FreshIds
  <2> DEFINE d == OpenTab(left, id, tpl, activate)
  <2>6. session' = d
    BY <1>4, <2>3
  <2>7. counters' \in Counters /\ counters'.private = counters.private
    BY <1>0, <1>4 DEF Counters
  <2> HIDE DEF id
  <2>8. /\ ModeMoves(left, FALSE, d) /\ SameBrowsers(left.engine, d.engine)
        /\ Open(d) = Open(left) \cup {id} /\ d.restored = left.restored
    <3>0. PICK s : s = left
      OBVIOUS
    <3>1. PICK p \in BOOLEAN : p = FALSE
      OBVIOUS
    <3> DEFINE c == OpenTab(s, id, tpl, activate)
    <3>2. ModeSafe(s, p) /\ s.engine.phase[id] = "absent" /\ id \in TabIds
          /\ tpl \in Templates /\ tpl.eph = p /\ IsLegacySyntheticNewTab(tpl)
      BY <1>1, <2>2, <2>4, <3>0, <3>1
    <3>3. /\ ModeMoves(s, p, c) /\ SameBrowsers(s.engine, c.engine)
          /\ Open(c) = Open(s) \cup {id} /\ c.restored = s.restored
      BY <3>2, OpenMode
    <3> HIDE DEF c
    <3>4. c = d
      BY <3>0 DEF c
    <3> HIDE DEF d
    <3> QED BY <3>0, <3>1, <3>3, <3>4
  <2>9. NoEarlier(left, d)
    BY <1>3, <2>2, <2>4, OpenTime
  <2> HIDE DEF d
  <2>10. ModeSafe(d, FALSE) /\ Follows(d)
    BY <2>8 DEF ModeMoves, ModeSafe, PagesSafe
  <2>11. SameBrowsers(session.engine, d.engine)
    BY <1>1, <2>8, SameBrowsersChain
  <2>12. d.clock \in Nat \ {0}
    BY <1>3, <2>9 DEF NoEarlier
  <2>13. IdMoves(session, counters, d, counters')
    BY <1>0, <1>1, <2>1, <2>5, <2>7, <2>8, <2>10, <2>11, <2>12 DEF IdMoves, Counters
  <2>14. PersistentTabs(d) = {id}
    BY <2>1, <2>8, <2>10 DEF PersistentTabs, ModeSafe
  <2>15. KeptOnLeaving
    BY <1>1, <2>1, <2>2, <2>6, <2>14 DEF KeptOnLeaving
  <2> QED BY <1>0, <2>6, <2>10, <2>13, <2>15 DEF CallMoves
<1>5. CASE /\ left.tabs # <<>> /\ counters' = counters
           /\ session' = ActivateTab(left, FirstOf(left, PersistentTabs(left)))
  <2>1. Open(left) # {}
    <3>1. Len(left.tabs) \in Nat /\ Len(left.tabs) # 0
      BY <1>3, <1>5, EmptySeq, LenProperties
    <3>2. 1 \in DOMAIN left.tabs
      BY <1>3, <3>1
    <3> QED BY <3>2 DEF Open
  <2>2. PICK y : y = FirstOf(left, PersistentTabs(left))
    OBVIOUS
  <2>3. y \in Open(left)
    <3>1. Open(left) \cap PersistentTabs(left) # {}
      BY <1>1, <2>1
    <3> QED BY <1>3, <2>2, <3>1, FirstIsOne
  <2>4. left.tab[y].eph = FALSE
    <3>1. left.tab[y].eph \in BOOLEAN
      BY <1>3, <2>3, SafeFacts
    <3> QED BY <1>1, <2>3, <3>1 DEF ModeSafe
  <2> DEFINE d == ActivateTab(left, y)
  <2>5. session' = d
    BY <1>5, <2>2
  <2>6. /\ ModeMoves(left, FALSE, d) /\ SameBrowsers(left.engine, d.engine)
        /\ Open(d) = Open(left) /\ d.restored = left.restored /\ NoEarlier(left, d)
        /\ PersistentTabs(d) = PersistentTabs(left)
    BY <1>1, <2>4, ActivateMode
  <2> HIDE DEF d
  <2>7. ModeSafe(d, FALSE) /\ Follows(d)
    BY <2>6 DEF ModeMoves, ModeSafe, PagesSafe
  <2>8. SameBrowsers(session.engine, d.engine)
    BY <1>1, <2>6, SameBrowsersChain
  <2>9. d.clock \in Nat \ {0}
    BY <1>3, <2>6 DEF NoEarlier
  <2>10. IdMoves(session, counters, d, counters')
    BY <1>0, <1>1, <1>3, <1>5, <2>6, <2>7, <2>8, <2>9 DEF IdMoves, Counters
  <2>11. KeptOnLeaving
    BY <1>1, <2>1, <2>5, <2>6 DEF KeptOnLeaving
  <2> QED BY <1>0, <2>5, <2>7, <2>10, <2>11 DEF CallMoves
<1> QED BY <1>2, <1>4, <1>5

\* A browser that comes or goes is nothing the session or the disk records.
LEMMA BrowserKeeps ==
  ASSUME PrivateSafe, NEW f, SameModes(engine, f), Consistent(Tell(session, f)),
         CefHas(f, Open(session), session.active),
         \A x \in TabIds : engine.phase[x] = "absent" => f.phase[x] = "absent",
         session' = Tell(session, f), UNCHANGED <<private, counters, disk>>
  PROVE  PrivateSafe' /\ PersistentTabs(session') = PersistentTabs(session)
<1> DEFINE d == Tell(session, f)
<1>0. /\ ModeSafe(session, private) /\ SessionInvariant(session) /\ private \in BOOLEAN
      /\ NamesUnused(session, counters)
  BY PrivateFacts
<1>1. ModeMoves(session, private, d) /\ d.active = session.active /\ d.tab = session.tab
  BY <1>0, BrowserMode DEF engine
<1>2. /\ Open(d) = Open(session) /\ d.restored = session.restored /\ d.clock = session.clock
      /\ d.engine = f
  BY <1>0, TellEffect
<1> HIDE DEF d
<1>3. NamesUnused(d, counters)
  BY <1>0, <1>2, RestoredIdAssumption, IdsAssumption DEF NamesUnused, engine
<1>4. PersistentTabs(d) = PersistentTabs(session) /\ Snapshot(d) = Snapshot(session)
  BY <1>1, <1>2 DEF Snapshot, PersistentTabs
<1>5. DiskSafe(d, private, disk)
  BY <1>1, <1>4 DEF PrivateSafe, DiskSafe
<1>6. session' = d /\ private' = private /\ counters' = counters /\ disk' = disk
  BY DEF d
<1> QED BY <1>1, <1>3, <1>4, <1>5, <1>6 DEF PrivateSafe, ModeMoves

LEMMA CreatedKeeps ==
  ASSUME OverCef, PrivateSafe, NEW t \in TabIds, BrowserCreated(t)
  PROVE  PrivateSafe' /\ PersistentTabs(session') = PersistentTabs(session)
<1> DEFINE f == NotifyBrowserCreated(engine, t)
<1>0. /\ Consistent(session) /\ CefHas(engine, Open(session), session.active)
      /\ engine.phase[t] = "pending" /\ engine \in CefStates
  BY PrivateFacts DEF Follows, Consistent, CefHas, BrowserCreated, engine
<1>1. Consistent(Tell(session, f)) /\ CefHas(f, Open(session), session.active)
  BY <1>0, CreatedStaysConsistent DEF engine
<1>2. SameModes(engine, f) /\ \A x \in TabIds \ {t} : SameSurface(engine, f, x)
  BY <1>0, CreatedEffect
<1>3. \A x \in TabIds : engine.phase[x] = "absent" => f.phase[x] = "absent"
  BY <1>0, <1>2 DEF SameSurface
<1>4. session' = Tell(session, f) /\ UNCHANGED <<private, counters, disk>>
  BY DEF BrowserCreated
<1> HIDE DEF f
<1> QED BY <1>1, <1>2, <1>3, <1>4, BrowserKeeps

LEMMA GoneKeeps ==
  ASSUME PrivateSafe, NEW t \in TabIds, BrowserGone(t)
  PROVE  PrivateSafe' /\ PersistentTabs(session') = PersistentTabs(session)
<1> DEFINE f == NotifyBrowserBeforeClose(engine, t)
<1>0. /\ Consistent(session) /\ CefHas(engine, Open(session), session.active)
      /\ engine.phase[t] = "closing" /\ HasBrowser(engine, t) /\ engine \in CefStates
  BY PrivateFacts DEF Follows, Consistent, CefHas, BrowserGone, HasBrowser, engine
<1>1. Consistent(Tell(session, f)) /\ CefHas(f, Open(session), session.active)
  BY <1>0, GoneStaysConsistent DEF engine
<1>2. /\ SameModes(engine, f) /\ f.phase[t] = "absent"
      /\ \A x \in TabIds \ {t} : SameSurface(engine, f, x)
  BY <1>0, GoneEffect
<1>3. \A x \in TabIds : engine.phase[x] = "absent" => f.phase[x] = "absent"
  BY <1>2 DEF SameSurface
<1>4. session' = Tell(session, f) /\ UNCHANGED <<private, counters, disk>>
  BY DEF BrowserGone
<1> HIDE DEF f
<1> QED BY <1>1, <1>2, <1>3, <1>4, BrowserKeeps

LEMMA EventMoves ==
  ASSUME PrivateSafe, NEW t \in TabIds, BrowserEvent(t)
  PROVE  CallMoves
<1>0. /\ ModeSafe(session, private) /\ private \in BOOLEAN /\ session.clock \in Nat
      /\ HasBrowser(session.engine, t)
      /\ private' = private /\ counters' = counters
  BY PrivateFacts DEF BrowserEvent, Step, engine
<1>1. session.clock > 0
  BY <1>0 DEF PrivateSafe, NamesUnused, HasBrowser
<1>2. PICK url \in PageUrls(t) :
        session' \in {OnNavigationStarted(session, t, url), OnNavigationCommitted(session, t, url)}
  BY DEF BrowserEvent, Step
<1>3. url \in Urls /\ (session.engine.context[t] = Profile => url \notin SecretUrls)
  BY SecretsAssumption DEF PageUrls, engine
<1>4. /\ ModeMoves(session, private, session') /\ session'.engine = session.engine
      /\ Open(session') = Open(session) /\ session'.restored = session.restored
      /\ NoEarlier(session, session')
  BY <1>0, <1>2, <1>3, EventMode
<1>5. SameBrowsers(session.engine, session'.engine)
  BY <1>4 DEF SameBrowsers
<1> QED BY <1>0, <1>1, <1>4, <1>5, QuietCall

-----------------------------------------------------------------------------
(***************************************************************************)
(* The invariant.                                                          *)
(***************************************************************************)

LEMMA InitPrivate == ASSUME OverCef, Init PROVE PrivateSafe
<1>1. /\ session = SessionInit(CefInit) /\ private = FALSE
      /\ counters = [app |-> 1, strip |-> 1, private |-> 0, persistent |-> 0]
      /\ disk.history = {} /\ disk.saved = {}
  BY DEF Init
<1>2. /\ SessionInvariant(session) /\ Open(session) = {} /\ session.active = NoTabId
      /\ session.engine = CefInit /\ session.closed = <<>>
  BY <1>1, SessionInitInvariant DEF SessionInit
<1>3. /\ CefInit \in CefStates /\ ~CefInit.destroyed /\ CefInit.private = FALSE
      /\ \A t \in TabIds : CefInit.phase[t] = "absent"
      /\ CefInit.active = NoTabId /\ CefInit.visible = {} /\ CefInit.shared = Profile
  BY DEF CefInit, CefStates, Phases, Profile, OverCef
<1>4. CefHas(CefInit, {}, NoTabId)
  BY <1>3 DEF CefHas, Usable
<1>5. Follows(session)
  BY <1>2, <1>4 DEF Follows, NoneRests, QueueIsShown
<1>6. PagesSafe(session)
  BY <1>2, <1>5, EmptySeq DEF PagesSafe
<1>7. ModeSafe(session, private)
  BY <1>1, <1>2, <1>3, <1>6, EmptySeq DEF ModeSafe
<1>8. NamesUnused(session, counters)
  BY <1>1, <1>2, <1>3, RestoredIdAssumption, IdsAssumption DEF NamesUnused, Counters
<1>9. DiskSafe(session, private, disk)
  BY <1>1, <1>2 DEF DiskSafe
<1> QED BY <1>7, <1>8, <1>9 DEF PrivateSafe

LEMMA StepPrivate ==
  ASSUME OverCef, FreshIds, PublicNewTab, PrivateSafe, Next
  PROVE  PrivateSafe' /\ (private => (private' /\ PersistentTabs(session') = PersistentTabs(session))
                                       \/ (~private' /\ KeptOnLeaving))
<1> DEFINE Goal == PrivateSafe' /\ (private => (private' /\ PersistentTabs(session') = PersistentTabs(session))
                                       \/ (~private' /\ KeptOnLeaving))
<1>a. ASSUME CallMoves, Notified(session', private'), private => private' PROVE Goal
  BY <1>a, CallKeeps DEF CallMoves
<1>0. counters \in Counters
  BY PrivateFacts
<1>1. CASE Startup
  <2>1. Notified(session', private') /\ private' = private
    BY <1>1 DEF Startup, Step
  <2> QED BY <1>a, <1>1, <2>1, StartupMoves
<1>2. CASE OpenNewTab
  <2>1. PICK n \in LowestFree(counters.app) :
          /\ InTime(engine, n) /\ Step(OpenTab(session, NumberedId[n], NewTab, TRUE))
          /\ counters' = [counters EXCEPT !.app = n]
    BY <1>2 DEF OpenNewTab
  <2>2. counters' \in Counters /\ counters'.private = counters.private
    <3>1. n \in Nat
      BY DEF LowestFree, FreeIndex, FreshIds
    <3> QED BY <1>0, <2>1, <3>1 DEF Counters
  <2>3. Notified(session', private') /\ private' = private
    BY <2>1 DEF Step
  <2>4. CallMoves
    BY <1>2, <2>1, <2>2, NumberMoves DEF OpenNewTab, Started, Step
  <2> QED BY <1>a, <2>3, <2>4
<1>3. CASE OpenNewTabForActiveWorkspace
  <2>1. PICK n \in LowestFree(counters.strip) :
          /\ InTime(engine, n) /\ Step(OpenTab(session, NumberedId[n], NewTab, TRUE))
          /\ counters' = [counters EXCEPT !.strip = n]
    BY <1>3 DEF OpenNewTabForActiveWorkspace
  <2>2. counters' \in Counters /\ counters'.private = counters.private
    <3>1. n \in Nat
      BY DEF LowestFree, FreeIndex, FreshIds
    <3> QED BY <1>0, <2>1, <3>1 DEF Counters
  <2>3. Notified(session', private') /\ private' = private
    BY <2>1 DEF Step
  <2>4. CallMoves
    BY <1>3, <2>1, <2>2, NumberMoves DEF OpenNewTabForActiveWorkspace, Started, Step
  <2> QED BY <1>a, <2>3, <2>4
<1>4. ASSUME NEW t \in TabIds, CloseOutsidePrivateMode(t) PROVE Goal
  <2>1. Notified(session', private') /\ private' = private
    BY <1>4 DEF CloseOutsidePrivateMode, Step
  <2> QED BY <1>a, <1>4, <2>1, CloseOutsideMoves
<1>5. ASSUME NEW t \in TabIds, CloseInPrivateMode(t) PROVE Goal
  <2>1. Notified(session', private') /\ private' = private
    BY <1>5 DEF CloseInPrivateMode, Step
  <2> QED BY <1>a, <1>5, <2>1, ClosePrivateMoves
<1>6. ASSUME NEW t \in TabIds, ActivateVisibleTab(t) PROVE Goal
  <2>1. Notified(session', private') /\ private' = private
    BY <1>6 DEF ActivateVisibleTab, Step
  <2>2. /\ session.clock > 0 /\ session.tab[t].eph = private
        /\ session' = ActivateTab(session, t) /\ counters' = counters
    BY <1>6 DEF ActivateVisibleTab, Started, Step, Visible
  <2> QED BY <1>a, <2>1, <2>2, ActivateMoves
<1>7. ASSUME NEW t \in TabIds, BrowserCreated(t) PROVE Goal
  <2>1. private' = private
    BY <1>7 DEF BrowserCreated
  <2> QED BY <1>7, <2>1, CreatedKeeps
<1>8. ASSUME NEW t \in TabIds, BrowserGone(t) PROVE Goal
  <2>1. private' = private
    BY <1>8 DEF BrowserGone
  <2> QED BY <1>8, <2>1, GoneKeeps
<1>9. ASSUME NEW t \in TabIds, BrowserEvent(t) PROVE Goal
  <2>1. Notified(session', private') /\ private' = private
    BY <1>9 DEF BrowserEvent, Step
  <2> QED BY <1>a, <1>9, <2>1, EventMoves
<1>10. CASE ReopenClosedTab
  <2>1. Notified(session', private') /\ private' = private
    BY <1>10 DEF ReopenClosedTab, Step
  <2> QED BY <1>a, <1>10, <2>1, ReopenMoves
<1>11. ASSUME NEW forward \in BOOLEAN, CycleVisibleTabs(forward) PROVE Goal
  <2>1. Notified(session', private') /\ private' = private
    BY <1>11 DEF CycleVisibleTabs, Step
  <2> QED BY <1>a, <1>11, <2>1, CycleMoves
<1>12. CASE NavigateActiveTab
  <2>1. Notified(session', private') /\ private' = private
    BY <1>12 DEF NavigateActiveTab, Step
  <2> QED BY <1>a, <1>12, <2>1, NavigateMoves
<1>13. CASE EnterPrivateMode
  <2>1. Notified(session', private') /\ private' = TRUE
    BY <1>13 DEF EnterPrivateMode
  <2> QED BY <1>a, <1>13, <2>1, EnterMoves
<1>14. CASE ExitPrivateMode
  <2>1. Notified(session', private') /\ private' = FALSE
    BY <1>14 DEF ExitPrivateMode
  <2>2. CallMoves /\ KeptOnLeaving
    BY <1>14, ExitMoves
  <2>3. PrivateSafe'
    BY <2>1, <2>2, CallKeeps
  <2> QED BY <2>1, <2>2, <2>3
<1> QED BY <1>1, <1>2, <1>3, <1>4, <1>5, <1>6, <1>7, <1>8, <1>9, <1>10, <1>11, <1>12, <1>13,
          <1>14 DEF Next

LEMMA UnchangedPrivate ==
  ASSUME PrivateSafe, UNCHANGED vars
  PROVE  PrivateSafe' /\ PersistentTabs(session') = PersistentTabs(session)
BY DEF vars, PrivateSafe, ModeSafe, NamesUnused, DiskSafe

LEMMA InductivePrivate ==
  ASSUME OverCef, FreshIds, PublicNewTab
  PROVE  Spec => []PrivateSafe
<1>1. Init => PrivateSafe
  BY InitPrivate
<1>2. PrivateSafe /\ [Next]_vars => PrivateSafe'
  BY StepPrivate, UnchangedPrivate
<1> QED BY <1>1, <1>2, PTL DEF Spec

\* Whatever was opened, closed, reopened and left, with browsers coming late and going
\* late: the active tab is of the mode the browser is in, outside private mode nothing
\* private is open or can be reopened, and no page has a context of the other mode
\* (SessionPrivacyOrchestrator, GetOrCreateRequestContext).
THEOREM ModesStaySeparate ==
  ASSUME OverCef, FreshIds, PublicNewTab
  PROVE  Spec => []ModesAreSeparate
<1>1. PrivateSafe => ModesAreSeparate
  <2> SUFFICES ASSUME PrivateSafe PROVE ModesAreSeparate
    OBVIOUS
  <2>1. /\ ModeSafe(session, private) /\ PagesSafe(session)
        /\ session.active \in Open(session) \cup {NoTabId}
    BY PrivateFacts
  <2>2. ActiveIsVisible
    BY <2>1 DEF ActiveIsVisible, Visible, ModeSafe
  <2>3. ContextsAreSeparate
    BY <2>1 DEF ContextsAreSeparate, PagesSafe, PageSafe, engine
  <2>4. ASSUME ~private
        PROVE  /\ Open(session) = PersistentTabs(session)
               /\ \A k \in DOMAIN session.closed : ~session.closed[k].eph
               /\ ~engine.private /\ engine.shared = Profile
    <3>1. \A k \in DOMAIN session.closed : session.closed[k] \in DurableRecords
      BY <2>1, <2>4, ElementOfSeq DEF ModeSafe
    <3> QED BY <2>1, <2>4, <3>1 DEF ModeSafe, PersistentTabs, DurableRecords, engine
  <2> QED BY <2>2, <2>3, <2>4 DEF ModesAreSeparate, NothingPrivateIsLeft
<1> QED BY <1>1, InductivePrivate, PTL

\* No address of private mode reaches the history or the saved session, however late the
\* browser of a closed private tab still reports (SessionHistoryBridge::SessionChanged).
THEOREM NothingPrivateIsRecorded ==
  ASSUME OverCef, FreshIds, PublicNewTab
  PROVE  Spec => []NoPrivateTrace
<1>1. PrivateSafe => NoPrivateTrace
  BY DEF PrivateSafe, DiskSafe, NoPrivateTrace
<1> QED BY <1>1, InductivePrivate, PTL

\* Outside private mode what is saved is the session as it is, as soon as a tab is
\* active: no change of any tab escapes the bridge, the ones private mode made included.
THEOREM SavedSessionStaysCurrent ==
  ASSUME OverCef, FreshIds, PublicNewTab
  PROVE  Spec => []SavedSessionIsCurrent
<1>1. PrivateSafe => SavedSessionIsCurrent
  BY DEF PrivateSafe, DiskSafe, SavedSessionIsCurrent
<1> QED BY <1>1, InductivePrivate, PTL

\* Nothing done in private mode closes or opens a persistent tab, and leaving it opens
\* one only if there is none (CloseTab and ExitPrivateMode of the orchestrator).
THEOREM PersistentTabsStay ==
  ASSUME OverCef, FreshIds, PublicNewTab
  PROVE  Spec => PersistentTabsAreKept
<1> DEFINE Body ==
      private =>
        LET kept == PersistentTabs(session) IN
        IF kept = {} /\ ~private' THEN Cardinality(PersistentTabs(session')) = 1
        ELSE PersistentTabs(session') = kept
<1>1. PrivateSafe /\ [Next]_vars => [Body]_vars
  <2> SUFFICES ASSUME PrivateSafe, Next, private PROVE Body
    OBVIOUS
  <2>1. CASE private' /\ PersistentTabs(session') = PersistentTabs(session)
    BY <2>1
  <2>2. CASE ~private' /\ KeptOnLeaving
    <3>1. CASE PersistentTabs(session) = {}
      <4>1. PICK t \in TabIds : PersistentTabs(session') = {t}
        BY <2>2, <3>1 DEF KeptOnLeaving
      <4>2. Cardinality(PersistentTabs(session')) = 1
        BY <4>1, FS_Singleton
      <4> QED BY <2>2, <3>1, <4>2
    <3>2. CASE PersistentTabs(session) # {}
      BY <2>2, <3>2 DEF KeptOnLeaving
    <3> QED BY <3>1, <3>2
  <2> QED BY <2>1, <2>2, StepPrivate
<1>2. Spec => [][Body]_vars
  BY <1>1, InductivePrivate, PTL DEF Spec
<1> QED BY <1>2 DEF PersistentTabsAreKept
=============================================================================
