--------------------------- MODULE SessionLemmas ---------------------------
(***************************************************************************)
(* Every operation of SessionOps leaves a session that satisfies           *)
(* SessionInvariant when it finds one, whoever calls it and whatever the   *)
(* engine.  The first lemmas are about the few changes operations are made *)
(* of: one tab's fields, the engine, an activation, a tab more or less,    *)
(* the closed-tab list.  The last part is about the session over the       *)
(* engine of CefEngineOps.                                                 *)
(***************************************************************************)
EXTENDS SessionInvariants, CefEngineOps, SequenceLemmas

-----------------------------------------------------------------------------
\* A session without tabs, over any engine.
LEMMA SessionInitInvariant ==
  ASSUME NEW e
  PROVE  SessionInvariant(SessionInit(e)) /\ Open(SessionInit(e)) = {}
<1> DEFINE s == SessionInit(e)
<1>1. /\ s.tabs = <<>> /\ s.tab = [t \in TabIds |-> NoTab]
      /\ s.active = NoTabId /\ s.closed = <<>> /\ s.clock = 0 /\ s.restored = 0
  BY DEF SessionInit
<1>2. NoTab \in TabRecords
  BY DEF NoTab, TabRecords, Titles, Lifecycles, NavStates
<1>3. IsSession(s)
  <2>1. <<>> \in Seq(TabIds) /\ <<>> \in Seq(Templates)
    BY EmptySeq
  <2> QED BY <1>2, <2>1 DEF SessionInit, IsSession
<1>4. DOMAIN s.tabs = {} /\ DOMAIN s.closed = {} /\ Len(s.closed) = 0
  <2>1. Len(<<>>) = 0 /\ <<>> \in Seq({})
    BY EmptySeq
  <2>2. DOMAIN <<>> = 1 .. 0
    BY <2>1, LenProperties
  <2> QED BY <1>1, <2>1, <2>2
<1> HIDE DEF s
<1>5. Open(s) = {}
  BY <1>4 DEF Open
<1>6. HasUniqueIds(s)
  BY <1>4 DEF HasUniqueIds
<1>7. HasOneActive(s)
  BY <1>1, <1>5, NoTabIdAssumption DEF HasOneActive, IsOpen
<1>8. HasActivationOrder(s) /\ HasCoherentTabs(s)
  BY <1>5 DEF HasActivationOrder, HasCoherentTabs
<1>9. HasSoundClosedList(s)
  BY <1>4, MaxClosedAssumption DEF HasSoundClosedList
<1> QED BY <1>3, <1>5, <1>6, <1>7, <1>8, <1>9 DEF SessionInvariant, s

\* The fields of a session have their types.
LEMMA SessionFields ==
  ASSUME NEW s, IsSession(s)
  PROVE  /\ s.tabs \in Seq(TabIds) /\ s.tab \in [TabIds -> TabRecords]
         /\ s.active \in TabIds \cup {NoTabId} /\ s.closed \in Seq(Templates)
         /\ s.clock \in Nat /\ s.restored \in Nat
BY DEF IsSession

\* Open ids are ids.
LEMMA OpenAreIds ==
  ASSUME NEW s, IsSession(s)
  PROVE  Open(s) \subseteq TabIds
<1>1. s.tabs \in Seq(TabIds)
  BY SessionFields
<1> QED BY <1>1, ElementOfSeq, LenProperties DEF Open

\* Writing one open tab's fields changes that tab and nothing else.
LEMMA WithTabFields ==
  ASSUME NEW s, IsSession(s), NEW t \in TabIds, NEW rec \in TabRecords
  PROVE  LET d == WithTab(s, t, rec) IN
         /\ IsSession(d)
         /\ d.tabs = s.tabs /\ d.active = s.active /\ d.closed = s.closed
         /\ d.clock = s.clock /\ d.restored = s.restored /\ d.engine = s.engine
         /\ \A x \in TabIds : d.tab[x] = IF x = t THEN rec ELSE s.tab[x]
         /\ Open(d) = Open(s)
<1> DEFINE d == WithTab(s, t, rec)
<1>1. /\ d.tabs = s.tabs /\ d.active = s.active /\ d.closed = s.closed
      /\ d.clock = s.clock /\ d.restored = s.restored /\ d.engine = s.engine
      /\ d.tab = [s.tab EXCEPT ![t] = rec]
  BY DEF IsSession, WithTab
<1>2. d.tab \in [TabIds -> TabRecords]
  BY <1>1, SessionFields
<1>3. IsSession(d)
  BY <1>1, <1>2 DEF IsSession, WithTab
<1>4. \A x \in TabIds : d.tab[x] = IF x = t THEN rec ELSE s.tab[x]
  BY <1>1, SessionFields
<1>5. Open(d) = Open(s)
  BY <1>1 DEF Open
<1> QED BY <1>1, <1>3, <1>4, <1>5

\* What the session tells the engine does not matter to its own invariant.
LEMMA TellKeepsInvariant ==
  ASSUME NEW s, SessionInvariant(s), NEW e
  PROVE  SessionInvariant(Tell(s, e))
<1> DEFINE d == Tell(s, e)
<1>1. /\ d.tabs = s.tabs /\ d.active = s.active /\ d.closed = s.closed
      /\ d.clock = s.clock /\ d.restored = s.restored /\ d.engine = e
      /\ d.tab = s.tab
  BY DEF SessionInvariant, IsSession, Tell
<1>2. IsSession(d)
  BY <1>1 DEF SessionInvariant, IsSession, Tell
<1>3. Open(d) = Open(s) /\ \A x : IsOpen(d, x) <=> IsOpen(s, x)
  BY <1>1 DEF Open, IsOpen
<1>4. HasUniqueIds(d)
  BY <1>1 DEF SessionInvariant, HasUniqueIds
<1>5. HasOneActive(d)
  BY <1>1, <1>3 DEF SessionInvariant, HasOneActive
<1>6. HasActivationOrder(d)
  BY <1>1, <1>3 DEF SessionInvariant, HasActivationOrder
<1>7. HasCoherentTabs(d)
  BY <1>1, <1>3 DEF SessionInvariant, HasCoherentTabs
<1>8. HasSoundClosedList(d)
  BY <1>1 DEF SessionInvariant, HasSoundClosedList
<1> QED BY <1>2, <1>4, <1>5, <1>6, <1>7, <1>8 DEF SessionInvariant

\* Operations that write the status of one tab keep the invariant when the status they
\* write is coherent and they neither activate nor demote.
LEMMA WithTabKeepsInvariant ==
  ASSUME NEW s, SessionInvariant(s), NEW t \in Open(s), NEW rec \in TabRecords,
         IsCoherent(rec), rec.seq = s.tab[t].seq,
         rec.life = "Active" <=> s.tab[t].life = "Active"
  PROVE  SessionInvariant(WithTab(s, t, rec))
<1> DEFINE d == WithTab(s, t, rec)
<1>0. IsSession(s) /\ t \in TabIds /\ Open(s) \subseteq TabIds
  BY OpenAreIds DEF SessionInvariant
<1>1. /\ IsSession(d)
      /\ d.tabs = s.tabs /\ d.active = s.active /\ d.closed = s.closed
      /\ d.clock = s.clock
      /\ \A x \in TabIds : d.tab[x] = IF x = t THEN rec ELSE s.tab[x]
      /\ Open(d) = Open(s)
  BY <1>0, WithTabFields
<1> HIDE DEF d
<1>2. HasUniqueIds(d)
  BY <1>1 DEF SessionInvariant, HasUniqueIds
<1>3. HasOneActive(d)
  BY <1>1 DEF SessionInvariant, HasOneActive, IsOpen
<1>4. \A x \in TabIds : d.tab[x].seq = s.tab[x].seq
  BY <1>1
<1>5. HasActivationOrder(d)
  <2>1. s.active \in TabIds \cup {NoTabId}
    BY <1>0, SessionFields
  <2> QED BY <1>0, <1>1, <1>4, <2>1 DEF SessionInvariant, HasActivationOrder
<1>6. HasCoherentTabs(d)
  BY <1>0, <1>1 DEF SessionInvariant, HasCoherentTabs
<1>7. HasSoundClosedList(d)
  BY <1>1 DEF SessionInvariant, HasSoundClosedList
<1> QED BY <1>1, <1>2, <1>3, <1>5, <1>6, <1>7 DEF SessionInvariant, d

-----------------------------------------------------------------------------
\* What an activation writes in the tab it demotes and in the one it raises.
Demoted(tab) == [tab EXCEPT !.life = "Background"]
Promoted(tab, seq) == [tab EXCEPT !.life = "Active", !.seq = seq]

\* Demoting and marking together: the new active tab, the one it replaces, the rest.
LEMMA RaisedFields ==
  ASSUME NEW s, SessionInvariant(s), NEW t \in Open(s),
         NEW d, d = MarkActive(DemoteActiveTab(s), t)
  PROVE  /\ IsSession(d)
         /\ d.tabs = s.tabs /\ d.closed = s.closed /\ Open(d) = Open(s)
         /\ d.active = t /\ d.clock = s.clock + 1
         /\ d.restored = s.restored /\ d.engine = s.engine
         /\ d.tab[t] = Promoted(s.tab[t], s.clock + 1)
         /\ \A x \in TabIds \ {t} :
              d.tab[x] = IF x = s.active THEN Demoted(s.tab[x])
                         ELSE s.tab[x]
<1> DEFINE m == DemoteActiveTab(s)
<1>0. /\ IsSession(s) /\ t \in TabIds /\ s.tab \in [TabIds -> TabRecords]
      /\ s.clock \in Nat /\ s.active \in TabIds \cup {NoTabId}
  BY OpenAreIds, SessionFields DEF SessionInvariant
<1>1. /\ IsSession(m)
      /\ m.tabs = s.tabs /\ m.closed = s.closed /\ m.clock = s.clock
      /\ m.restored = s.restored /\ m.engine = s.engine
      /\ Open(m) = Open(s)
      /\ \A x \in TabIds :
           m.tab[x] = IF x = s.active THEN Demoted(s.tab[x])
                      ELSE s.tab[x]
  <2>1. CASE s.active = NoTabId
    <3>1. m = s
      BY <2>1 DEF DemoteActiveTab
    <3> QED BY <1>0, <2>1, <3>1, NoTabIdAssumption
  <2>2. CASE s.active # NoTabId
    <3> DEFINE rec == Demoted(s.tab[s.active])
    <3>1. s.active \in TabIds
      BY <1>0, <2>2
    <3>2. m = WithTab(s, s.active, rec)
      BY <2>2, <3>1 DEF DemoteActiveTab, SessionInvariant, HasOneActive, Demoted
    <3>3. s.tab[s.active] \in TabRecords
      BY <1>0, <3>1
    <3>4. rec \in TabRecords
      BY <3>3 DEF TabRecords, Lifecycles, Demoted
    <3> HIDE DEF m, rec
    <3>5. PICK old \in TabIds : old = s.active
      BY <3>1
    <3>6. m = WithTab(s, old, rec)
      BY <3>2, <3>5
    <3>7. /\ IsSession(m)
          /\ m.tabs = s.tabs /\ m.closed = s.closed /\ m.clock = s.clock
          /\ m.restored = s.restored /\ m.engine = s.engine
          /\ Open(m) = Open(s)
          /\ \A x \in TabIds : m.tab[x] = IF x = old THEN rec ELSE s.tab[x]
      <4>1. IsSession(s)
        BY <1>0
      <4> QED BY <3>4, <3>6, <4>1, WithTabFields
    <3> QED BY <3>5, <3>7 DEF rec
  <2> QED BY <2>1, <2>2
<1> HIDE DEF m
<1> DEFINE rec == [m.tab[t] EXCEPT !.life = "Active", !.seq = m.clock + 1]
           w   == WithTab(m, t, rec)
<1>2. rec \in TabRecords
  <2>1. m.tab[t] \in TabRecords /\ m.clock + 1 \in Nat
    BY <1>0, <1>1, SessionFields
  <2> QED BY <2>1 DEF TabRecords, Lifecycles
<1>3. rec = Promoted(s.tab[t], s.clock + 1)
  <2>1. s.tab[t] \in TabRecords
    BY <1>0
  <2>2. m.tab[t] \in {s.tab[t], Demoted(s.tab[t])}
    BY <1>0, <1>1
  <2> QED BY <1>1, <2>1, <2>2 DEF TabRecords, Demoted, Promoted
<1> HIDE DEF rec
<1>4. /\ IsSession(w)
      /\ w.tabs = s.tabs /\ w.closed = s.closed /\ Open(w) = Open(s)
      /\ w.clock = s.clock /\ w.restored = s.restored /\ w.engine = s.engine
      /\ \A x \in TabIds : w.tab[x] = IF x = t THEN rec ELSE m.tab[x]
  BY <1>0, <1>1, <1>2, WithTabFields
<1> HIDE DEF w
<1>8. d = [w EXCEPT !.clock = m.clock + 1, !.active = t]
  BY DEF MarkActive, w, rec, m
<1>5. /\ d.tabs = w.tabs /\ d.closed = w.closed /\ d.tab = w.tab
      /\ d.active = t /\ d.clock = s.clock + 1
      /\ d.restored = s.restored /\ d.engine = s.engine
  BY <1>1, <1>4, <1>8 DEF IsSession
<1>6. IsSession(d)
  <2>1. /\ w.clock + 1 \in Nat /\ m.clock + 1 = w.clock + 1
        /\ t \in TabIds \cup {NoTabId}
    BY <1>0, <1>1, <1>4
  <2>2. d = [w EXCEPT !.clock = w.clock + 1, !.active = t]
    BY <1>8, <2>1
  <2> QED BY <1>4, <2>1, <2>2 DEF IsSession
<1>7. Open(d) = Open(s)
  BY <1>4, <1>5 DEF Open
<1> QED BY <1>0, <1>1, <1>3, <1>4, <1>5, <1>6, <1>7

\* Bringing an open tab to the front keeps the invariant.
LEMMA RaiseKeepsInvariant ==
  ASSUME NEW s, SessionInvariant(s), NEW t \in Open(s)
  PROVE  SessionInvariant(Raise(s, t))
<1> DEFINE d == MarkActive(DemoteActiveTab(s), t)
<1>a. d = MarkActive(DemoteActiveTab(s), t)
  OBVIOUS
<1> HIDE DEF d
<1>0. /\ IsSession(s) /\ t \in TabIds /\ s.tab \in [TabIds -> TabRecords]
      /\ Open(s) \subseteq TabIds /\ s.clock \in Nat
      /\ s.active \in TabIds \cup {NoTabId} /\ t # NoTabId
  BY OpenAreIds, SessionFields, NoTabIdAssumption DEF SessionInvariant
<1>1. /\ IsSession(d)
      /\ d.tabs = s.tabs /\ d.closed = s.closed /\ Open(d) = Open(s)
      /\ d.active = t /\ d.clock = s.clock + 1
      /\ d.restored = s.restored /\ d.engine = s.engine
      /\ d.tab[t] = Promoted(s.tab[t], s.clock + 1)
      /\ \A x \in TabIds \ {t} :
           d.tab[x] = IF x = s.active THEN Demoted(s.tab[x])
                      ELSE s.tab[x]
  BY <1>a, RaisedFields
<1>2. HasUniqueIds(d)
  BY <1>1 DEF SessionInvariant, HasUniqueIds
<1>3. d.tab[t].life = "Active" /\ d.tab[t].seq = s.clock + 1
  BY <1>0, <1>1 DEF TabRecords, Promoted
<1>4. ASSUME NEW x \in TabIds \ {t}
      PROVE  /\ d.tab[x].seq = s.tab[x].seq
             /\ d.tab[x].life = "Active" => s.tab[x].life = "Active" /\ x # s.active
  <2>1. s.tab[x] \in TabRecords
    BY <1>0
  <2>2. CASE x = s.active
    <3>1. d.tab[x] = Demoted(s.tab[x])
      BY <1>1, <2>2
    <3> QED BY <2>1, <2>2, <3>1 DEF TabRecords, Demoted
  <2>3. CASE x # s.active
    <3>1. d.tab[x] = s.tab[x]
      BY <1>1, <2>3
    <3> QED BY <2>3, <3>1
  <2> QED BY <2>2, <2>3
<1>5. HasOneActive(d)
  BY <1>0, <1>1, <1>3, <1>4 DEF SessionInvariant, HasOneActive, IsOpen
<1>6. HasActivationOrder(d)
  <2> SUFFICES ASSUME NEW x \in Open(s)
               PROVE  /\ d.tab[x].seq <= d.clock
                      /\ d.active = x => d.tab[x].seq > 0
                      /\ d.active \notin {x, NoTabId} => d.tab[x].seq < d.tab[d.active].seq
    BY <1>1 DEF HasActivationOrder
  <2>1. s.tab[x].seq <= s.clock /\ s.tab[x].seq \in Nat
    BY <1>0 DEF SessionInvariant, HasActivationOrder, TabRecords
  <2>2. d.active = t /\ d.clock = s.clock + 1 /\ d.tab[d.active].seq = s.clock + 1
    BY <1>1, <1>3
  <2>3. CASE x = t
    BY <1>0, <2>2, <2>3
  <2>4. CASE x # t
    <3>1. d.tab[x].seq = s.tab[x].seq
      BY <1>0, <1>4, <2>4
    <3> QED BY <1>0, <2>1, <2>2, <2>4, <3>1
  <2> QED BY <2>3, <2>4
<1>7. HasCoherentTabs(d)
  <2> SUFFICES ASSUME NEW x \in Open(s) PROVE IsCoherent(d.tab[x])
    BY <1>1 DEF HasCoherentTabs
  <2>1. IsCoherent(s.tab[x]) /\ s.tab[x] \in TabRecords /\ x \in TabIds
    BY <1>0 DEF SessionInvariant, HasCoherentTabs
  <2>2. \/ d.tab[x] = Promoted(s.tab[x], s.clock + 1)
        \/ d.tab[x] = Demoted(s.tab[x])
        \/ d.tab[x] = s.tab[x]
    BY <1>1, <2>1
  <2> QED BY <2>1, <2>2 DEF IsCoherent, TabRecords, Demoted, Promoted
<1>8. HasSoundClosedList(d)
  BY <1>1 DEF SessionInvariant, HasSoundClosedList
<1>9. SessionInvariant(d)
  BY <1>1, <1>2, <1>5, <1>6, <1>7, <1>8 DEF SessionInvariant
<1> QED BY <1>a, <1>9, TellKeepsInvariant DEF Raise

LEMMA ActivateTabKeepsInvariant ==
  ASSUME NEW s, SessionInvariant(s), NEW t
  PROVE  SessionInvariant(ActivateTab(s, t))
<1>1. CASE ~IsOpen(s, t) \/ s.active = t
  BY <1>1 DEF ActivateTab
<1>2. CASE IsOpen(s, t) /\ s.active # t
  <2> DEFINE r == Revived(s, t)
  <2>1. SessionInvariant(r) /\ Open(r) = Open(s)
    <3>1. r = s \/ \E e : r = Tell(s, e)
      BY DEF Revived
    <3>2. \A e : SessionInvariant(Tell(s, e))
      BY TellKeepsInvariant
    <3>3. \A e : Tell(s, e).tabs = s.tabs
      BY DEF Tell, SessionInvariant, IsSession
    <3> QED BY <3>1, <3>2, <3>3 DEF Open
  <2>2. t \in Open(r)
    BY <1>2, <2>1 DEF IsOpen
  <2> HIDE DEF r
  <2>3. SessionInvariant(Raise(r, t))
    BY <2>1, <2>2, RaiseKeepsInvariant
  <2> QED BY <1>2, <2>3 DEF ActivateTab, r
<1> QED BY <1>1, <1>2

\* A normalised template is a template.
LEMMA NormalisedType ==
  ASSUME NEW tpl \in Templates
  PROVE  Normalised(tpl) \in Templates
BY UrlsAssumption DEF Normalised, Templates

\* A tab joins the strip in the background, under an id no other tab has.
LEMMA AddTabKeepsInvariant ==
  ASSUME NEW s, SessionInvariant(s), NEW t \in TabIds, ~IsOpen(s, t),
         NEW tpl \in Templates
  PROVE  LET d == AddTab(s, t, tpl) IN SessionInvariant(d) /\ t \in Open(d)
<1> DEFINE d   == AddTab(s, t, tpl)
           rec == FreshTab(tpl)
<1>0. /\ IsSession(s) /\ s.tabs \in Seq(TabIds) /\ s.tab \in [TabIds -> TabRecords]
      /\ Open(s) \subseteq TabIds /\ s.clock \in Nat
      /\ s.active \in TabIds \cup {NoTabId}
  BY OpenAreIds, SessionFields DEF SessionInvariant
<1>1. /\ d.tabs = Append(s.tabs, t) /\ d.tab = [s.tab EXCEPT ![t] = rec]
      /\ d.active = s.active /\ d.closed = s.closed /\ d.clock = s.clock
      /\ d.restored = s.restored
  BY <1>0 DEF AddTab, IsSession
<1>2. rec \in TabRecords
  BY DEF FreshTab, TabRecords, Templates, Lifecycles, NavStates
<1>3. /\ rec.life = "Background" /\ rec.seq = 0 /\ IsCoherent(rec)
  BY UrlsAssumption DEF FreshTab, Templates, IsCoherent
<1>4. Append(s.tabs, t) \in Seq(TabIds) /\ d.tab \in [TabIds -> TabRecords]
  BY <1>0, <1>1, <1>2, AppendProperties
<1>5. IsSession(d)
  <2>1. d = [s EXCEPT !.tabs = Append(s.tabs, t), !.tab = [s.tab EXCEPT ![t] = rec],
                      !.engine = d.engine]
    BY <1>0, <1>1 DEF AddTab, IsSession
  <2>2. [s.tab EXCEPT ![t] = rec] \in [TabIds -> TabRecords]
    BY <1>1, <1>4
  <2> HIDE DEF d, rec
  <2> QED BY <1>0, <1>4, <2>1, <2>2 DEF IsSession
<1> HIDE DEF d, rec
<1>6. \A x \in TabIds : d.tab[x] = IF x = t THEN rec ELSE s.tab[x]
  BY <1>0, <1>1
<1>7. /\ DOMAIN s.tabs = 1 .. Len(s.tabs) /\ Len(s.tabs) \in Nat
      /\ DOMAIN d.tabs = 1 .. Len(s.tabs) + 1
      /\ \A k \in 1 .. Len(s.tabs) : d.tabs[k] = s.tabs[k]
      /\ d.tabs[Len(s.tabs) + 1] = t
  BY <1>0, <1>1, AppendProperties, LenProperties
<1>8. Open(d) = Open(s) \cup {t}
  <2>1. Open(s) = {s.tabs[k] : k \in 1 .. Len(s.tabs)}
    BY <1>7 DEF Open
  <2>2. Open(d) = {d.tabs[k] : k \in 1 .. Len(s.tabs) + 1}
    BY <1>7 DEF Open
  <2>3. 1 .. Len(s.tabs) + 1 = (1 .. Len(s.tabs)) \cup {Len(s.tabs) + 1}
    BY <1>7
  <2> QED BY <1>7, <2>1, <2>2, <2>3, SMTT(40), ZenonT(40)
<1>9. t \notin Open(s)
  BY DEF IsOpen
<1>10. HasUniqueIds(d)
  <2> SUFFICES ASSUME NEW i \in 1 .. Len(s.tabs) + 1, NEW j \in 1 .. Len(s.tabs) + 1,
                      d.tabs[i] = d.tabs[j]
               PROVE  i = j
    BY <1>7 DEF HasUniqueIds
  <2>1. \A k \in 1 .. Len(s.tabs) : d.tabs[k] # t
    BY <1>7, <1>9 DEF Open
  <2>2. i \in 1 .. Len(s.tabs) <=> j \in 1 .. Len(s.tabs)
    BY <1>7, <2>1
  <2>3. CASE i \in 1 .. Len(s.tabs)
    BY <1>7, <2>2, <2>3 DEF SessionInvariant, HasUniqueIds
  <2>4. CASE i \notin 1 .. Len(s.tabs)
    BY <1>7, <2>2, <2>4
  <2> QED BY <2>3, <2>4
<1>11. \A x \in Open(s) : x \in TabIds /\ x # t /\ d.tab[x] = s.tab[x]
  BY <1>0, <1>6, <1>9
<1>12. d.tab[t] = rec
  BY <1>6
<1>13. HasOneActive(d)
  BY <1>1, <1>3, <1>8, <1>9, <1>11, <1>12 DEF SessionInvariant, HasOneActive, IsOpen
<1>14. s.active # NoTabId => s.active \in Open(s)
  BY <1>0 DEF SessionInvariant, HasOneActive, IsOpen
<1>15. HasActivationOrder(d)
  <2> SUFFICES ASSUME NEW x \in Open(s) \cup {t}
               PROVE  /\ d.tab[x].seq <= s.clock
                      /\ s.active = x => d.tab[x].seq > 0
                      /\ s.active \notin {x, NoTabId} => d.tab[x].seq < d.tab[s.active].seq
    BY <1>1, <1>8 DEF HasActivationOrder
  <2>1. CASE x \in Open(s)
    BY <1>11, <1>14, <2>1 DEF SessionInvariant, HasActivationOrder
  <2>2. CASE x = t
    <3>1. d.tab[x].seq = 0
      BY <1>3, <1>12, <2>2
    <3>2. s.active # NoTabId => 0 < s.tab[s.active].seq
      <4> SUFFICES ASSUME s.active # NoTabId PROVE 0 < s.tab[s.active].seq
        OBVIOUS
      <4> QED BY <1>0, <1>14 DEF SessionInvariant, HasActivationOrder
    <3>3. s.active # x
      BY <1>9, <1>14, <2>2, NoTabIdAssumption
    <3>4. s.active # NoTabId => d.tab[s.active] = s.tab[s.active]
      BY <1>11, <1>14
    <3> QED BY <1>0, <3>1, <3>2, <3>3, <3>4
  <2> QED BY <2>1, <2>2
<1>16. HasCoherentTabs(d)
  BY <1>3, <1>8, <1>11, <1>12 DEF SessionInvariant, HasCoherentTabs
<1>17. HasSoundClosedList(d)
  BY <1>1 DEF SessionInvariant, HasSoundClosedList
<1> QED BY <1>5, <1>8, <1>10, <1>13, <1>15, <1>16, <1>17 DEF SessionInvariant, d

LEMMA OpenTabKeepsInvariant ==
  ASSUME NEW s, SessionInvariant(s), NEW t \in TabIds, NEW tpl \in Templates,
         NEW activate
  PROVE  SessionInvariant(OpenTab(s, t, tpl, activate))
<1> DEFINE added == AddTab(s, t, Normalised(tpl))
<1>1. CASE ~AcceptsId(s, t)
  BY <1>1 DEF OpenTab
<1>2. CASE AcceptsId(s, t)
  <2>1. SessionInvariant(added) /\ t \in Open(added)
    BY <1>2, NormalisedType, AddTabKeepsInvariant DEF AcceptsId
  <2> HIDE DEF added
  <2>2. SessionInvariant(Raise(added, t))
    BY <2>1, RaiseKeepsInvariant
  <2> QED BY <1>2, <2>1, <2>2 DEF OpenTab, added
<1> QED BY <1>1, <1>2

-----------------------------------------------------------------------------
\* What a closed tab is remembered by: never a new-tab page.
Memorable == {tpl \in Templates : ~IsBlankOrNewTabUrl(tpl.url)}

\* A closed list is sound when it is a short enough list of memorable records.
LEMMA SoundClosedList ==
  ASSUME NEW s, s.closed \in Seq(Templates)
  PROVE  HasSoundClosedList(s) <=> Len(s.closed) <= MaxClosed /\ s.closed \in Seq(Memorable)
<1>1. /\ DOMAIN s.closed = 1 .. Len(s.closed) /\ Len(s.closed) \in Nat
      /\ s.closed \in [1 .. Len(s.closed) -> Templates]
  BY LenProperties
<1>2. ASSUME HasSoundClosedList(s)
      PROVE  s.closed \in Seq(Memorable)
  <2>1. s.closed \in [1 .. Len(s.closed) -> Memorable]
    BY <1>1, <1>2 DEF HasSoundClosedList, Memorable
  <2> QED BY <1>1, <2>1, SeqDef
<1>3. ASSUME Len(s.closed) <= MaxClosed, s.closed \in Seq(Memorable)
      PROVE  HasSoundClosedList(s)
  <2>1. \A k \in DOMAIN s.closed : s.closed[k] \in Memorable
    BY <1>1, <1>3, ElementOfSeq
  <2> QED BY <1>3, <2>1 DEF HasSoundClosedList, Memorable
<1> QED BY <1>2, <1>3 DEF HasSoundClosedList

\* Replacing the closed list by a sound one keeps the invariant.
LEMMA ClosedListKeepsInvariant ==
  ASSUME NEW s, SessionInvariant(s), NEW closed \in Seq(Memorable),
         Len(closed) <= MaxClosed
  PROVE  LET d == [s EXCEPT !.closed = closed] IN SessionInvariant(d) /\ Open(d) = Open(s)
<1> DEFINE d == [s EXCEPT !.closed = closed]
<1>1. /\ d.tabs = s.tabs /\ d.tab = s.tab /\ d.active = s.active
      /\ d.closed = closed /\ d.clock = s.clock
  BY DEF SessionInvariant, IsSession
<1>2. closed \in Seq(Templates)
  BY SeqMonotonic DEF Memorable
<1>3. IsSession(d)
  BY <1>2 DEF SessionInvariant, IsSession
<1> HIDE DEF d
<1>4. Open(d) = Open(s)
  BY <1>1 DEF Open
<1>5. HasUniqueIds(d)
  BY <1>1 DEF SessionInvariant, HasUniqueIds
<1>6. HasOneActive(d)
  BY <1>1, <1>4 DEF SessionInvariant, HasOneActive, IsOpen
<1>7. HasActivationOrder(d)
  BY <1>1, <1>4 DEF SessionInvariant, HasActivationOrder
<1>8. HasCoherentTabs(d)
  BY <1>1, <1>4 DEF SessionInvariant, HasCoherentTabs
<1>9. HasSoundClosedList(d)
  BY <1>1, <1>2, SoundClosedList
<1> QED BY <1>3, <1>4, <1>5, <1>6, <1>7, <1>8, <1>9 DEF SessionInvariant, d

\* The facts about a session's closed list that the changes to it start from.
LEMMA ClosedListFacts ==
  ASSUME NEW s, SessionInvariant(s)
  PROVE  s.closed \in Seq(Memorable) /\ Len(s.closed) \in Nat /\ Len(s.closed) <= MaxClosed
<1>1. s.closed \in Seq(Templates)
  BY SessionFields DEF SessionInvariant
<1> QED BY <1>1, SoundClosedList, LenProperties DEF SessionInvariant

LEMMA PurgeKeepsInvariant ==
  ASSUME NEW s, SessionInvariant(s)
  PROVE  SessionInvariant(PurgeEphemeralClosedTabs(s))
<1> DEFINE durable == {rec \in Templates : ~rec.eph}
           kept    == Kept(s.closed, durable)
<1>1. s.closed \in Seq(Memorable) /\ Len(s.closed) \in Nat /\ Len(s.closed) <= MaxClosed
  BY ClosedListFacts
<1> HIDE DEF durable
<1>2. kept \in Seq(Memorable \cap durable) /\ Len(kept) <= Len(s.closed)
  BY <1>1, KeptType
<1>3. kept \in Seq(Memorable)
  BY <1>2, SeqMonotonic
<1>4. Len(kept) <= MaxClosed
  BY <1>1, <1>2, <1>3, LenProperties, MaxClosedAssumption
<1>5. PurgeEphemeralClosedTabs(s) = [s EXCEPT !.closed = kept]
  BY DEF PurgeEphemeralClosedTabs, SessionInvariant, IsSession, durable
<1> HIDE DEF kept
<1> QED BY <1>3, <1>4, <1>5, ClosedListKeepsInvariant

\* The oldest record makes room for a new one.
LEMMA RememberedType ==
  ASSUME NEW R, NEW closed \in Seq(R), Len(closed) <= MaxClosed, NEW rec \in R
  PROVE  Remembered(closed, rec) \in Seq(R) /\ Len(Remembered(closed, rec)) <= MaxClosed
<1> DEFINE all == Append(closed, rec)
<1>1. all \in Seq(R) /\ Len(all) = Len(closed) + 1 /\ Len(closed) \in Nat
  BY AppendProperties, LenProperties
<1> HIDE DEF all
<1>2. all # <<>>
  BY <1>1, EmptySeq
<1>3. Tail(all) \in Seq(R) /\ Len(Tail(all)) = Len(all) - 1
  BY <1>1, <1>2, HeadTailProperties
<1>4. CASE Len(all) > MaxClosed
  BY <1>1, <1>3, <1>4, MaxClosedAssumption DEF Remembered, all
<1>5. CASE ~(Len(all) > MaxClosed)
  BY <1>1, <1>5, MaxClosedAssumption DEF Remembered, all
<1> QED BY <1>4, <1>5

LEMMA RememberClosedKeepsInvariant ==
  ASSUME NEW s, SessionInvariant(s), NEW t \in Open(s)
  PROVE  SessionInvariant(RememberClosed(s, t)) /\ Open(RememberClosed(s, t)) = Open(s)
<1>1. CASE IsBlankOrNewTabUrl(s.tab[t].url)
  BY <1>1 DEF RememberClosed
<1>2. CASE ~IsBlankOrNewTabUrl(s.tab[t].url)
  <2> DEFINE rec == ClosedRecord(s.tab[t])
             all == Remembered(s.closed, rec)
  <2>1. s.tab[t] \in TabRecords /\ IsCoherent(s.tab[t])
    BY OpenAreIds, SessionFields DEF SessionInvariant, HasCoherentTabs
  <2>2. rec \in Memorable
    BY <1>2, <2>1 DEF Memorable, Templates, TabRecords, ClosedRecord, IsCoherent
  <2> HIDE DEF rec
  <2>3. all \in Seq(Memorable) /\ Len(all) <= MaxClosed
    BY <2>2, ClosedListFacts, RememberedType
  <2>4. RememberClosed(s, t) = [s EXCEPT !.closed = all]
    BY <1>2 DEF RememberClosed, SessionInvariant, IsSession, rec
  <2> HIDE DEF all
  <2> QED BY <2>3, <2>4, ClosedListKeepsInvariant
<1> QED BY <1>1, <1>2

\* The tabs that are left when one is removed.
LEMMA RemovedTabs ==
  ASSUME NEW s, IsSession(s), HasUniqueIds(s), NEW t \in Open(s)
  PROVE  LET left == RemoveAt(s.tabs, IndexOf(s, t)) IN
         /\ left \in Seq(TabIds)
         /\ {left[k] : k \in DOMAIN left} = Open(s) \ {t}
         /\ \A j, k \in DOMAIN left : left[j] = left[k] => j = k
<1> DEFINE n    == Len(s.tabs)
           i    == IndexOf(s, t)
           left == RemoveAt(s.tabs, i)
<1>1. s.tabs \in Seq(TabIds) /\ n \in Nat /\ DOMAIN s.tabs = 1 .. n
  BY SessionFields, LenProperties
<1>2. i \in 1 .. n /\ s.tabs[i] = t
  BY <1>1 DEF Open, IndexOf
<1> HIDE DEF n, i
<1>3. /\ left \in Seq(TabIds) /\ Len(left) = n - 1
      /\ \A k \in 1 .. n - 1 : left[k] = IF k < i THEN s.tabs[k] ELSE s.tabs[k + 1]
  BY <1>1, <1>2, RemoveAtProperties DEF n
<1> HIDE DEF left
<1>4. DOMAIN left = 1 .. n - 1
  BY <1>3, LenProperties
<1> DEFINE old(k) == IF k < i THEN k ELSE k + 1
<1>5. \A k \in 1 .. n - 1 : old(k) \in (1 .. n) \ {i} /\ left[k] = s.tabs[old(k)]
  BY <1>1, <1>2, <1>3
<1>6. \A m \in (1 .. n) \ {i} : \E k \in 1 .. n - 1 : old(k) = m
  <2> SUFFICES ASSUME NEW m \in (1 .. n) \ {i} PROVE \E k \in 1 .. n - 1 : old(k) = m
    OBVIOUS
  <2>1. CASE m < i
    BY <1>1, <1>2, <2>1
  <2>2. CASE ~(m < i)
    <3>1. m - 1 \in 1 .. n - 1 /\ ~(m - 1 < i) /\ (m - 1) + 1 = m
      BY <1>1, <1>2, <2>2
    <3> QED BY <3>1
  <2> QED BY <2>1, <2>2
<1>7. \A j, k \in 1 .. n - 1 : old(j) = old(k) => j = k
  BY <1>1, <1>2
<1> HIDE DEF old
<1>8. \A j, k \in 1 .. n : s.tabs[j] = s.tabs[k] => j = k
  BY <1>1 DEF HasUniqueIds
<1>9. {left[k] : k \in 1 .. n - 1} = Open(s) \ {t}
  <2>1. Open(s) = {s.tabs[k] : k \in 1 .. n}
    BY <1>1 DEF Open
  <2>2. \A k \in 1 .. n - 1 : left[k] \in Open(s) \ {t}
    BY <1>2, <1>5, <1>8, <2>1
  <2>3. \A x \in Open(s) \ {t} : \E k \in 1 .. n - 1 : left[k] = x
    <3> SUFFICES ASSUME NEW x \in Open(s) \ {t} PROVE \E k \in 1 .. n - 1 : left[k] = x
      OBVIOUS
    <3>1. PICK m \in (1 .. n) \ {i} : s.tabs[m] = x
      BY <1>2, <2>1
    <3>2. PICK k \in 1 .. n - 1 : old(k) = m
      BY <1>6
    <3> QED BY <1>5, <3>1, <3>2
  <2> QED BY <2>2, <2>3
<1>10. \A j, k \in 1 .. n - 1 : left[j] = left[k] => j = k
  <2> SUFFICES ASSUME NEW j \in 1 .. n - 1, NEW k \in 1 .. n - 1, left[j] = left[k]
               PROVE  j = k
    OBVIOUS
  <2>1. s.tabs[old(j)] = s.tabs[old(k)] /\ old(j) \in 1 .. n /\ old(k) \in 1 .. n
    BY <1>5
  <2> QED BY <1>7, <1>8, <2>1
<1> QED BY <1>3, <1>4, <1>9, <1>10 DEF left, i

\* A tab leaves the strip; nothing is active if it was.
LEMMA RemoveTabKeepsInvariant ==
  ASSUME NEW s, SessionInvariant(s), NEW t \in Open(s)
  PROVE  SessionInvariant(RemoveTab(s, t))
<1> DEFINE d    == RemoveTab(s, t)
           left == RemoveAt(s.tabs, IndexOf(s, t))
           act  == IF s.active = t THEN NoTabId ELSE s.active
<1>0. /\ IsSession(s) /\ s.tab \in [TabIds -> TabRecords]
      /\ t \in TabIds /\ Open(s) \subseteq TabIds /\ NoTabId \notin TabIds
      /\ s.active \in TabIds \cup {NoTabId} /\ HasUniqueIds(s)
  BY OpenAreIds, SessionFields, NoTabIdAssumption DEF SessionInvariant
<1>1. /\ d.tabs = left /\ d.tab = [s.tab EXCEPT ![t] = NoTab]
      /\ d.active = act /\ d.closed = s.closed /\ d.clock = s.clock
  BY <1>0 DEF RemoveTab, IsSession
<1>2. /\ left \in Seq(TabIds)
      /\ {left[k] : k \in DOMAIN left} = Open(s) \ {t}
      /\ \A j, k \in DOMAIN left : left[j] = left[k] => j = k
  BY <1>0, RemovedTabs
<1>3. NoTab \in TabRecords
  BY DEF NoTab, TabRecords, Titles, Lifecycles, NavStates
<1>4. IsSession(d)
  <2>1. [s.tab EXCEPT ![t] = NoTab] \in [TabIds -> TabRecords]
    BY <1>0, <1>3
  <2>2. d = [s EXCEPT !.engine = d.engine, !.tabs = left,
                      !.tab = [s.tab EXCEPT ![t] = NoTab], !.active = act]
    BY <1>0, <1>1 DEF RemoveTab, IsSession
  <2>3. act \in TabIds \cup {NoTabId}
    BY <1>0
  <2> HIDE DEF d, left, act
  <2> QED BY <1>0, <1>2, <2>1, <2>2, <2>3 DEF IsSession
<1> HIDE DEF d, left
<1>5. Open(d) = Open(s) \ {t}
  <2>1. d.tabs = left
    BY <1>1
  <2>2. Open(d) = {left[k] : k \in DOMAIN left}
    BY <2>1 DEF Open
  <2> QED BY <1>2, <2>2
<1>6. \A x \in Open(s) \ {t} : x \in TabIds /\ d.tab[x] = s.tab[x]
  BY <1>0, <1>1
<1>7. HasUniqueIds(d)
  BY <1>1, <1>2 DEF HasUniqueIds
<1>8. HasOneActive(d)
  BY <1>0, <1>1, <1>5, <1>6 DEF SessionInvariant, HasOneActive, IsOpen
<1>9. s.active # NoTabId => s.active \in Open(s)
  BY <1>0 DEF SessionInvariant, HasOneActive, IsOpen
<1>10. HasActivationOrder(d)
  <2> SUFFICES ASSUME NEW x \in Open(s) \ {t}
               PROVE  /\ d.tab[x].seq <= s.clock
                      /\ act = x => d.tab[x].seq > 0
                      /\ act \notin {x, NoTabId} => d.tab[x].seq < d.tab[act].seq
    BY <1>1, <1>5 DEF HasActivationOrder
  <2>1. /\ s.tab[x].seq <= s.clock
        /\ s.active = x => s.tab[x].seq > 0
        /\ s.active \notin {x, NoTabId} => s.tab[x].seq < s.tab[s.active].seq
    BY DEF SessionInvariant, HasActivationOrder
  <2>2. act # NoTabId => act = s.active /\ act \in Open(s) \ {t}
    BY <1>9
  <2>3. d.tab[x] = s.tab[x] /\ x # NoTabId
    BY <1>0, <1>6
  <2>4. act # NoTabId => d.tab[act] = s.tab[s.active]
    BY <1>6, <2>2
  <2> HIDE DEF act
  <2> QED BY <2>1, <2>2, <2>3, <2>4
<1>11. HasCoherentTabs(d)
  BY <1>5, <1>6 DEF SessionInvariant, HasCoherentTabs
<1>12. HasSoundClosedList(d)
  BY <1>1 DEF SessionInvariant, HasSoundClosedList
<1> QED BY <1>4, <1>7, <1>8, <1>10, <1>11, <1>12 DEF SessionInvariant, d

LEMMA CloseTabKeepsInvariant ==
  ASSUME NEW s, SessionInvariant(s), NEW t, NEW fallback
  PROVE  SessionInvariant(CloseTab(s, t, fallback))
<1>1. CASE ~IsOpen(s, t)
  BY <1>1 DEF CloseTab
<1>2. CASE IsOpen(s, t)
  <2> DEFINE gone == RemoveTab(RememberClosed(s, t), t)
  <2>1. SessionInvariant(gone)
    BY <1>2, RememberClosedKeepsInvariant, RemoveTabKeepsInvariant DEF IsOpen
  <2> HIDE DEF gone
  <2>2. \A i : SessionInvariant(ActivateAfterClose(gone, i))
    BY <2>1, ActivateTabKeepsInvariant DEF ActivateAfterClose
  <2> QED BY <1>2, <2>1, <2>2 DEF CloseTab, gone
<1> QED BY <1>1, <1>2

\* The counter of restored ids is the reopening's own.
LEMMA RestoredKeepsInvariant ==
  ASSUME NEW s, SessionInvariant(s), NEW n \in Nat
  PROVE  SessionInvariant([s EXCEPT !.restored = n])
<1> DEFINE d == [s EXCEPT !.restored = n]
<1>1. /\ d.tabs = s.tabs /\ d.tab = s.tab /\ d.active = s.active
      /\ d.closed = s.closed /\ d.clock = s.clock
  BY DEF SessionInvariant, IsSession
<1>2. IsSession(d)
  BY DEF SessionInvariant, IsSession
<1> HIDE DEF d
<1>3. Open(d) = Open(s)
  BY <1>1 DEF Open
<1> QED BY <1>1, <1>2, <1>3
        DEF SessionInvariant, HasUniqueIds, HasOneActive, IsOpen, HasActivationOrder,
            HasCoherentTabs, HasSoundClosedList, d

\* The record a reopening picks is the newest of its kind.
LEMMA NewestReopenableEffect ==
  ASSUME NEW s, SessionInvariant(s), NEW mode, Reopenable(s, mode) # {}
  PROVE  LET k == NewestReopenable(s, mode) IN
         /\ k \in Reopenable(s, mode) /\ k \in 1 .. Len(s.closed)
         /\ \A j \in Reopenable(s, mode) : j <= k
<1> DEFINE found  == Reopenable(s, mode)
           upside == {Len(s.closed) - j : j \in found}
<1>1. s.closed \in Seq(Memorable) /\ Len(s.closed) \in Nat
  BY ClosedListFacts
<1>2. found \subseteq 1 .. Len(s.closed)
  BY <1>1, LenProperties DEF Reopenable
<1>3. upside \in SUBSET Nat /\ upside # {}
  BY <1>1, <1>2
<1>4. PICK x \in upside : \A y \in upside : x <= y
  BY <1>3, LeastElement
<1>5. PICK j \in found : x = Len(s.closed) - j
  OBVIOUS
<1>6. \A m \in found : Len(s.closed) - j <= Len(s.closed) - m
  BY <1>4, <1>5
<1>7. \A m \in found : m <= j
  BY <1>1, <1>2, <1>6
<1> QED BY <1>2, <1>7 DEF NewestReopenable

\* The session a reopening hands to OpenTab: the record is out of the list already.
Unlisted(s, k) == [s EXCEPT !.closed = RemoveAt(@, k), !.restored = @ + 1]

LEMMA UnlistedEffect ==
  ASSUME NEW s, SessionInvariant(s), NEW k \in 1 .. Len(s.closed)
  PROVE  LET d == Unlisted(s, k) IN
         /\ SessionInvariant(d)
         /\ d.tabs = s.tabs /\ d.tab = s.tab /\ d.active = s.active
         /\ d.engine = s.engine /\ Open(d) = Open(s)
         /\ d.closed = RemoveAt(s.closed, k) /\ d.restored = s.restored + 1
<1> DEFINE short == RemoveAt(s.closed, k)
           cut == [s EXCEPT !.closed = short]
           d   == [cut EXCEPT !.restored = s.restored + 1]
<1>0. /\ s.closed \in Seq(Memorable) /\ Len(s.closed) \in Nat /\ Len(s.closed) <= MaxClosed
      /\ s.restored \in Nat
  BY ClosedListFacts, SessionFields DEF SessionInvariant
<1>1. short \in Seq(Memorable) /\ Len(short) = Len(s.closed) - 1
  BY <1>0, RemoveAtProperties
<1>2. d = Unlisted(s, k)
  BY DEF SessionInvariant, IsSession, Unlisted
<1> HIDE DEF short
<1>3. Len(short) <= MaxClosed
  BY <1>0, <1>1, MaxClosedAssumption
<1>4. SessionInvariant(cut)
  BY <1>1, <1>3, ClosedListKeepsInvariant
<1>5. /\ d.tabs = s.tabs /\ d.tab = s.tab /\ d.active = s.active /\ d.engine = s.engine
      /\ d.closed = short /\ d.restored = s.restored + 1
  BY DEF SessionInvariant, IsSession
<1>6. Open(d) = Open(s)
  BY <1>5 DEF Open
<1> HIDE DEF cut
<1>7. SessionInvariant(d)
  <2>1. s.restored + 1 \in Nat
    BY <1>0
  <2> QED BY <1>4, <2>1, RestoredKeepsInvariant
<1> HIDE DEF d
<1> QED BY <1>2, <1>5, <1>6, <1>7 DEF short

\* A reopening as a call of OpenTab.
LEMMA ReopenCases ==
  ASSUME NEW s, SessionInvariant(s), NEW mode, s.restored + 1 \in DOMAIN RestoredId,
         Reopenable(s, mode) # {}
  PROVE  LET k  == NewestReopenable(s, mode)
             id == RestoredId[s.restored + 1] IN
         /\ ReopenLastClosedTab(s, mode) = OpenTab(Unlisted(s, k), id, s.closed[k], TRUE)
         /\ id \in TabIds /\ s.closed[k] \in Memorable
<1> DEFINE k == NewestReopenable(s, mode)
<1>1. k \in 1 .. Len(s.closed) /\ s.closed \in Seq(Memorable)
  BY ClosedListFacts, NewestReopenableEffect
<1>2. ReopenLastClosedTab(s, mode)
        = OpenTab(Unlisted(s, k), RestoredId[s.restored + 1], s.closed[k], TRUE)
  BY DEF ReopenLastClosedTab, Unlisted
<1> HIDE DEF k
<1>3. s.closed[k] \in Memorable
  BY <1>1, ElementOfSeq
<1>4. RestoredId[s.restored + 1] \in TabIds
  BY RestoredIdAssumption
<1> QED BY <1>2, <1>3, <1>4 DEF k

LEMMA ReopenKeepsInvariant ==
  ASSUME NEW s, SessionInvariant(s), NEW mode, s.restored + 1 \in DOMAIN RestoredId
  PROVE  SessionInvariant(ReopenLastClosedTab(s, mode))
<1> DEFINE k  == NewestReopenable(s, mode)
           id == RestoredId[s.restored + 1]
           d  == Unlisted(s, k)
<1>1. CASE Reopenable(s, mode) = {}
  BY <1>1 DEF ReopenLastClosedTab
<1>2. CASE Reopenable(s, mode) # {}
  <2>1. k \in 1 .. Len(s.closed)
    BY <1>2, NewestReopenableEffect
  <2>2. /\ ReopenLastClosedTab(s, mode) = OpenTab(d, id, s.closed[k], TRUE)
        /\ id \in TabIds /\ s.closed[k] \in Templates
    BY <1>2, ReopenCases DEF Memorable
  <2> HIDE DEF k
  <2>3. SessionInvariant(d)
    BY <2>1, UnlistedEffect
  <2> HIDE DEF d, id
  <2> QED BY <2>2, <2>3, OpenTabKeepsInvariant
<1> QED BY <1>1, <1>2

LEMMA CycleTabKeepsInvariant ==
  ASSUME NEW s, SessionInvariant(s), NEW visible, NEW forward
  PROVE  SessionInvariant(CycleTab(s, visible, forward))
BY ActivateTabKeepsInvariant DEF CycleTab

-----------------------------------------------------------------------------
\* The record and the status of an open tab.
LEMMA OpenTabFacts ==
  ASSUME NEW s, SessionInvariant(s), NEW t \in Open(s)
  PROVE  s.tab[t] \in TabRecords /\ IsCoherent(s.tab[t])
BY OpenAreIds, SessionFields DEF SessionInvariant, HasCoherentTabs

\* A lifecycle other than Active, given to a tab that is not.
LEMMA RestedKeepsInvariant ==
  ASSUME NEW s, SessionInvariant(s), NEW t \in Open(s), s.tab[t].life # "Active",
         NEW life \in Lifecycles \ {"Active"}
  PROVE  SessionInvariant(WithTab(s, t, [s.tab[t] EXCEPT !.life = life]))
<1> DEFINE rec == [s.tab[t] EXCEPT !.life = life]
<1>1. s.tab[t] \in TabRecords /\ IsCoherent(s.tab[t])
  BY OpenTabFacts
<1>2. rec \in TabRecords /\ rec.seq = s.tab[t].seq /\ rec.life = life
  BY <1>1 DEF TabRecords
<1>3. IsCoherent(rec)
  BY <1>1 DEF IsCoherent, TabRecords
<1> HIDE DEF rec
<1>4. SessionInvariant(WithTab(s, t, rec))
  BY <1>2, <1>3, WithTabKeepsInvariant
<1> QED BY <1>4 DEF rec

LEMMA WokenKeepsInvariant ==
  ASSUME NEW s, SessionInvariant(s), NEW t \in Open(s)
  PROVE  SessionInvariant(Woken(s, t)) /\ Open(Woken(s, t)) = Open(s)
<1>1. CASE s.tab[t].life # "Suspended"
  BY <1>1 DEF Woken
<1>2. CASE s.tab[t].life = "Suspended"
  <2> DEFINE rec == [s.tab[t] EXCEPT !.life = "Background"]
             d   == WithTab(s, t, rec)
  <2>1. SessionInvariant(d)
    BY <1>2, RestedKeepsInvariant DEF Lifecycles
  <2>2. IsSession(s)
    BY DEF SessionInvariant
  <2>3. d.tabs = s.tabs
    BY <2>2 DEF WithTab, IsSession
  <2> HIDE DEF d
  <2>4. SessionInvariant(Tell(d, EngineResume(s.engine, t)))
    BY <2>1, TellKeepsInvariant
  <2>5. Open(Tell(d, EngineResume(s.engine, t))) = Open(s)
    BY <2>1, <2>3 DEF Tell, Open, SessionInvariant, IsSession
  <2> QED BY <1>2, <2>4, <2>5 DEF Woken, d
<1> QED BY <1>1, <1>2

LEMMA NavigateKeepsInvariant ==
  ASSUME NEW s, SessionInvariant(s), NEW t, NEW url \in Urls
  PROVE  SessionInvariant(Navigate(s, t, url))
<1> DEFINE awake == Woken(s, t)
           rec   == Requested(awake.tab[t], url)
           d     == WithTab(awake, t, rec)
<1>1. CASE ~Alive(s, t)
  BY <1>1 DEF Navigate
<1>2. CASE Alive(s, t)
  <2>1. SessionInvariant(awake) /\ t \in Open(awake)
    BY <1>2, WokenKeepsInvariant DEF Alive, IsOpen
  <2> HIDE DEF awake
  <2>2. awake.tab[t] \in TabRecords /\ IsCoherent(awake.tab[t])
    BY <2>1, OpenTabFacts
  <2>3. /\ rec \in TabRecords /\ IsCoherent(rec)
        /\ rec.seq = awake.tab[t].seq /\ rec.life = awake.tab[t].life
    BY <2>2, UrlsAssumption DEF Requested, TabRecords, IsCoherent, NavStates
  <2> HIDE DEF rec
  <2>4. SessionInvariant(d)
    BY <2>1, <2>3, WithTabKeepsInvariant
  <2> HIDE DEF d
  <2>5. SessionInvariant(Tell(d, EngineNavigate(awake.engine, t, url)))
    BY <2>4, TellKeepsInvariant
  <2> QED BY <1>2, <2>5 DEF Navigate, d, rec, awake
<1> QED BY <1>1, <1>2

LEMMA NavigationCommandKeepsInvariant ==
  ASSUME NEW s, SessionInvariant(s), NEW t
  PROVE  SessionInvariant(NavigationCommand(s, t)) /\ SessionInvariant(ResumeTab(s, t))
BY WokenKeepsInvariant DEF NavigationCommand, ResumeTab, Alive, IsOpen

LEMMA SuspendKeepsInvariant ==
  ASSUME NEW s, SessionInvariant(s), NEW t
  PROVE  SessionInvariant(SuspendTab(s, t))
<1> DEFINE d == WithTab(s, t, [s.tab[t] EXCEPT !.life = "Suspended"])
<1>1. CASE ~Alive(s, t) \/ s.tab[t].life \in {"Active", "Suspended"}
  BY <1>1 DEF SuspendTab
<1>2. CASE ~(~Alive(s, t) \/ s.tab[t].life \in {"Active", "Suspended"})
  <2>1. t \in Open(s) /\ s.tab[t].life # "Active"
    BY <1>2 DEF Alive, IsOpen
  <2>2. SessionInvariant(d)
    BY <2>1, RestedKeepsInvariant DEF Lifecycles
  <2> HIDE DEF d
  <2>3. SessionInvariant(Tell(d, EngineSuspend(s.engine, t)))
    BY <2>2, TellKeepsInvariant
  <2> QED BY <1>2, <2>3 DEF SuspendTab, d
<1> QED BY <1>1, <1>2

LEMMA DiscardKeepsInvariant ==
  ASSUME NEW s, SessionInvariant(s), NEW t
  PROVE  SessionInvariant(DiscardTab(s, t))
<1> DEFINE d == WithTab(s, t, [s.tab[t] EXCEPT !.life = "Discarded"])
<1>1. CASE ~Alive(s, t) \/ s.tab[t].life = "Active"
  BY <1>1 DEF DiscardTab
<1>2. CASE ~(~Alive(s, t) \/ s.tab[t].life = "Active")
  <2>1. t \in Open(s) /\ s.tab[t].life # "Active"
    BY <1>2 DEF Alive, IsOpen
  <2>2. SessionInvariant(d)
    BY <2>1, RestedKeepsInvariant DEF Lifecycles
  <2> HIDE DEF d
  <2>3. SessionInvariant(Tell(d, EngineClose(s.engine, t)))
    BY <2>2, TellKeepsInvariant
  <2> QED BY <1>2, <2>3 DEF DiscardTab, d
<1> QED BY <1>1, <1>2

\* Every engine event about an open tab writes a coherent status and leaves its
\* lifecycle and its activation number alone.
LEMMA EventKeepsInvariant ==
  ASSUME NEW s, SessionInvariant(s), NEW t, NEW url \in Urls, NEW title \in Titles
  PROVE  /\ SessionInvariant(OnNavigationStarted(s, t, url))
         /\ SessionInvariant(OnNavigationCommitted(s, t, url))
         /\ SessionInvariant(OnNavigationFailed(s, t, url))
         /\ SessionInvariant(OnTitleChanged(s, t, title))
         /\ SessionInvariant(OnRendererCrashed(s, t))
<1> DEFINE tab       == s.tab[t]
           started   == [tab EXCEPT !.pending = url, !.nav = "Loading",
                                    !.error = FALSE, !.crashed = FALSE]
           committed == CommittedTab(tab, url)
           failed    == [tab EXCEPT !.pending = url, !.nav = "Failed",
                                    !.error = TRUE, !.crashed = FALSE]
           titled    == [tab EXCEPT !.title = title]
           crashed   == [tab EXCEPT !.crashed = TRUE, !.nav = "Failed", !.error = TRUE]
           IsStatusOf(rec) == /\ rec \in TabRecords /\ IsCoherent(rec)
                              /\ rec.seq = tab.seq /\ rec.life = tab.life
<1>1. CASE ~Alive(s, t)
  BY <1>1 DEF OnNavigationStarted, OnNavigationCommitted, OnNavigationFailed,
              OnTitleChanged, OnRendererCrashed
<1>2. CASE Alive(s, t)
  <2>1. t \in Open(s) /\ tab \in TabRecords /\ IsCoherent(tab)
    BY <1>2, OpenTabFacts DEF Alive, IsOpen
  <2>2. url \in Urls /\ url # NoUrl
    BY UrlsAssumption
  <2>3. ASSUME NEW rec, IsStatusOf(rec)
        PROVE  SessionInvariant(WithTab(s, t, rec))
    BY <2>1, <2>3, WithTabKeepsInvariant
  <2> HIDE DEF tab
  <2>4. IsStatusOf(started)
    BY <2>1, <2>2 DEF TabRecords, IsCoherent, NavStates
  <2>5. IsStatusOf(committed)
    BY <2>1, <2>2 DEF TabRecords, IsCoherent, NavStates, CommittedTab
  <2>6. IsStatusOf(failed)
    BY <2>1, <2>2 DEF TabRecords, IsCoherent, NavStates
  <2>7. IsStatusOf(titled)
    BY <2>1 DEF TabRecords, IsCoherent
  <2>8. IsStatusOf(crashed)
    BY <2>1 DEF TabRecords, IsCoherent, NavStates
  <2> HIDE DEF started, committed, failed, titled, crashed, IsStatusOf
  <2>9. /\ SessionInvariant(WithTab(s, t, started))
        /\ SessionInvariant(WithTab(s, t, committed))
        /\ SessionInvariant(WithTab(s, t, failed))
        /\ SessionInvariant(WithTab(s, t, titled))
        /\ SessionInvariant(WithTab(s, t, crashed))
    BY <2>3, <2>4, <2>5, <2>6, <2>7, <2>8
  <2> QED
    BY <1>2, <2>9 DEF OnNavigationStarted, OnNavigationCommitted, OnNavigationFailed,
                     OnTitleChanged, OnRendererCrashed, started, committed, failed,
                     titled, crashed, tab
<1> QED BY <1>1, <1>2

-----------------------------------------------------------------------------
(***************************************************************************)
(* What each operation leaves as it was and what it tells the engine: the  *)
(* facts that proofs about steps, and about an engine, need beyond the     *)
(* invariant.                                                              *)
(***************************************************************************)

\* Two records of a tab show the same page: all but its place in the activation order.
SamePage(a, b) ==
  /\ a.url = b.url /\ a.title = b.title /\ a.eph = b.eph
  /\ a.nav = b.nav /\ a.pending = b.pending
  /\ a.error = b.error /\ a.crashed = b.crashed /\ a.committed = b.committed

LEMMA RaiseEffect ==
  ASSUME NEW s, SessionInvariant(s), NEW t \in Open(s)
  PROVE  LET d == Raise(s, t) IN
         /\ d.tabs = s.tabs /\ d.closed = s.closed /\ d.restored = s.restored
         /\ Open(d) = Open(s) /\ d.active = t
         /\ d.engine = EngineActivate(s.engine, t)
         /\ \A x \in TabIds :
              /\ SamePage(s.tab[x], d.tab[x])
              /\ d.tab[x].life = IF x = t THEN "Active"
                                 ELSE IF x = s.active THEN "Background" ELSE s.tab[x].life
<1> DEFINE r == MarkActive(DemoteActiveTab(s), t)
           e == EngineActivate(s.engine, t)
           d == Tell(r, e)
<1>a. r = MarkActive(DemoteActiveTab(s), t)
  OBVIOUS
<1> HIDE DEF r
<1>0. /\ t \in TabIds /\ s.tab \in [TabIds -> TabRecords] /\ s.clock \in Nat
  BY OpenAreIds, SessionFields DEF SessionInvariant
<1>1. /\ IsSession(r)
      /\ r.tabs = s.tabs /\ r.closed = s.closed /\ Open(r) = Open(s)
      /\ r.active = t /\ r.clock = s.clock + 1
      /\ r.restored = s.restored /\ r.engine = s.engine
      /\ r.tab[t] = Promoted(s.tab[t], s.clock + 1)
      /\ \A x \in TabIds \ {t} :
           r.tab[x] = IF x = s.active THEN Demoted(s.tab[x])
                      ELSE s.tab[x]
  BY <1>a, RaisedFields
<1>2. Raise(s, t) = d
  BY <1>a, <1>1 DEF Raise
<1> HIDE DEF e
<1>3. /\ d.tabs = r.tabs /\ d.closed = r.closed /\ d.restored = r.restored
      /\ d.active = r.active /\ d.tab = r.tab /\ d.engine = e
  BY <1>1 DEF IsSession, Tell
<1> HIDE DEF d
<1>4. Open(d) = Open(s)
  BY <1>1, <1>3 DEF Open
<1>5. ASSUME NEW x \in TabIds
      PROVE  /\ SamePage(s.tab[x], d.tab[x])
             /\ d.tab[x].life = IF x = t THEN "Active"
                                ELSE IF x = s.active THEN "Background" ELSE s.tab[x].life
  <2>1. s.tab[x] \in TabRecords
    BY <1>0
  <2>2. CASE x = t
    <3>1. d.tab[x] = Promoted(s.tab[x], s.clock + 1)
      BY <1>1, <1>3, <2>2
    <3> QED BY <2>1, <2>2, <3>1 DEF TabRecords, SamePage, Demoted, Promoted
  <2>3. CASE x # t /\ x = s.active
    <3>1. d.tab[x] = Demoted(s.tab[x])
      BY <1>1, <1>3, <2>3
    <3> QED BY <2>1, <2>3, <3>1 DEF TabRecords, SamePage, Demoted, Promoted
  <2>4. CASE x # t /\ x # s.active
    <3>1. d.tab[x] = s.tab[x]
      BY <1>1, <1>3, <2>4
    <3> QED BY <2>4, <3>1 DEF SamePage
  <2> QED BY <2>2, <2>3, <2>4
<1> QED BY <1>1, <1>2, <1>3, <1>4, <1>5 DEF e

\* Giving a tab a page again, or waking it, speaks to the engine only.
LEMMA RevivedEffect ==
  ASSUME NEW s, SessionInvariant(s), NEW t
  PROVE  LET r == Revived(s, t) IN
         /\ SessionInvariant(r)
         /\ r.tabs = s.tabs /\ r.tab = s.tab /\ r.active = s.active
         /\ r.closed = s.closed /\ r.restored = s.restored /\ Open(r) = Open(s)
         /\ r.engine = CASE s.tab[t].life = "Discarded" -> EngineCreate(s.engine, t, s.tab[t])
                         [] s.tab[t].life = "Suspended" -> EngineResume(s.engine, t)
                         [] OTHER -> s.engine
<1>1. \A e : /\ SessionInvariant(Tell(s, e))
             /\ Tell(s, e).tabs = s.tabs /\ Tell(s, e).tab = s.tab
             /\ Tell(s, e).active = s.active /\ Tell(s, e).closed = s.closed
             /\ Tell(s, e).restored = s.restored /\ Tell(s, e).engine = e
  BY TellKeepsInvariant DEF SessionInvariant, IsSession, Tell
<1>2. \A e : Open(Tell(s, e)) = Open(s)
  BY <1>1 DEF Open
<1>3. CASE s.tab[t].life = "Discarded"
  BY <1>1, <1>2, <1>3 DEF Revived
<1>4. CASE s.tab[t].life = "Suspended"
  BY <1>1, <1>2, <1>4 DEF Revived
<1>5. CASE s.tab[t].life \notin {"Discarded", "Suspended"}
  BY <1>5 DEF Revived
<1> QED BY <1>3, <1>4, <1>5

\* An activation: the tab that is active, and no page is touched.
LEMMA ActivateTabEffect ==
  ASSUME NEW s, SessionInvariant(s), NEW t
  PROVE  LET d == ActivateTab(s, t) IN
         /\ d.tabs = s.tabs /\ d.closed = s.closed /\ d.restored = s.restored
         /\ Open(d) = Open(s)
         /\ d.active = IF IsOpen(s, t) THEN t ELSE s.active
         /\ \A x \in TabIds : SamePage(s.tab[x], d.tab[x])
<1>1. CASE ~IsOpen(s, t) \/ s.active = t
  <2>1. ActivateTab(s, t) = s
    BY <1>1 DEF ActivateTab
  <2> QED BY <1>1, <2>1 DEF SamePage
<1>2. CASE IsOpen(s, t) /\ s.active # t
  <2> DEFINE r == Revived(s, t)
             d == Raise(r, t)
  <2>1. /\ SessionInvariant(r)
        /\ r.tabs = s.tabs /\ r.tab = s.tab /\ r.closed = s.closed
        /\ r.restored = s.restored /\ Open(r) = Open(s)
    BY RevivedEffect
  <2>2. ActivateTab(s, t) = d
    BY <1>2 DEF ActivateTab
  <2> HIDE DEF r
  <2>3. t \in Open(r)
    BY <1>2, <2>1 DEF IsOpen
  <2>4. /\ d.tabs = r.tabs /\ d.closed = r.closed /\ d.restored = r.restored
        /\ Open(d) = Open(r) /\ d.active = t
        /\ \A x \in TabIds : SamePage(r.tab[x], d.tab[x])
    BY <2>1, <2>3, RaiseEffect
  <2> HIDE DEF d
  <2> QED BY <1>2, <2>1, <2>2, <2>4
<1> QED BY <1>1, <1>2

\* A tab that joins the strip: the others stay, and the engine is told once.
LEMMA AddTabEffect ==
  ASSUME NEW s, SessionInvariant(s), NEW t \in TabIds, ~IsOpen(s, t), NEW tpl \in Templates
  PROVE  LET d == AddTab(s, t, tpl) IN
         /\ SessionInvariant(d)
         /\ d.tabs = Append(s.tabs, t) /\ Open(d) = Open(s) \cup {t}
         /\ d.active = s.active /\ d.closed = s.closed /\ d.restored = s.restored
         /\ d.engine = EngineCreate(s.engine, t, FreshTab(tpl))
         /\ \A x \in TabIds : d.tab[x] = IF x = t THEN FreshTab(tpl) ELSE s.tab[x]
<1> DEFINE d == AddTab(s, t, tpl)
           r == Append(s.tabs, t)
<1>1. /\ d.tabs = r /\ d.active = s.active /\ d.closed = s.closed
      /\ d.restored = s.restored /\ d.engine = EngineCreate(s.engine, t, FreshTab(tpl))
      /\ d.tab = [s.tab EXCEPT ![t] = FreshTab(tpl)]
  BY DEF AddTab, SessionInvariant, IsSession
<1>2. SessionInvariant(d)
  BY AddTabKeepsInvariant
<1> HIDE DEF d
<1>3. s.tabs \in Seq(TabIds) /\ s.tab \in [TabIds -> TabRecords]
  BY SessionFields DEF SessionInvariant
<1>4. \A x \in TabIds : d.tab[x] = IF x = t THEN FreshTab(tpl) ELSE s.tab[x]
  BY <1>1, <1>3
<1>5. /\ Len(r) = Len(s.tabs) + 1 /\ r \in Seq(TabIds) /\ r[Len(s.tabs) + 1] = t
      /\ \A i \in 1 .. Len(s.tabs) : r[i] = s.tabs[i]
  BY <1>3, AppendProperties
<1>6. /\ DOMAIN r = 1 .. Len(s.tabs) + 1 /\ DOMAIN s.tabs = 1 .. Len(s.tabs)
      /\ Len(s.tabs) \in Nat
  BY <1>3, <1>5, LenProperties
<1> HIDE DEF r
<1>7. Open(d) = Open(s) \cup {t}
  BY <1>1, <1>5, <1>6 DEF Open
<1> QED BY <1>1, <1>2, <1>4, <1>7 DEF r, d

\* OpenTab with an id that is taken does nothing; with a free one it adds a tab at the
\* end, in front if it is asked to be.
LEMMA OpenTabEffect ==
  ASSUME NEW s, SessionInvariant(s), NEW t \in TabIds, ~IsOpen(s, t), NEW tpl \in Templates,
         NEW activate
  PROVE  LET d     == OpenTab(s, t, tpl, activate)
             fresh == FreshTab(Normalised(tpl)) IN
         /\ d.tabs = Append(s.tabs, t) /\ Open(d) = Open(s) \cup {t}
         /\ d.closed = s.closed /\ d.restored = s.restored
         /\ d.active = IF s.tabs = <<>> \/ activate THEN t ELSE s.active
         /\ SamePage(fresh, d.tab[t])
         /\ \A x \in Open(s) : SamePage(s.tab[x], d.tab[x])
<1> DEFINE norm  == Normalised(tpl)
           added == AddTab(s, t, norm)
           d     == Raise(added, t)
<1>1. norm \in Templates /\ Open(s) \subseteq TabIds
  BY NormalisedType, OpenAreIds DEF SessionInvariant
<1>2. OpenTab(s, t, tpl, activate) = IF s.tabs = <<>> \/ activate THEN d ELSE added
  BY DEF OpenTab, AcceptsId
<1> HIDE DEF norm
<1>3. /\ SessionInvariant(added)
      /\ added.tabs = Append(s.tabs, t) /\ Open(added) = Open(s) \cup {t}
      /\ added.active = s.active /\ added.closed = s.closed /\ added.restored = s.restored
      /\ \A x \in TabIds : added.tab[x] = IF x = t THEN FreshTab(norm) ELSE s.tab[x]
  BY <1>1, AddTabEffect
<1> HIDE DEF added
<1>4. /\ d.tabs = added.tabs /\ d.closed = added.closed /\ d.restored = added.restored
      /\ Open(d) = Open(added) /\ d.active = t
      /\ \A x \in TabIds : SamePage(added.tab[x], d.tab[x])
  BY <1>3, RaiseEffect
<1> HIDE DEF d
<1>5. \A x \in Open(s) : x # t
  BY DEF IsOpen
<1>6. SamePage(FreshTab(norm), d.tab[t]) /\ SamePage(FreshTab(norm), added.tab[t])
  BY <1>3, <1>4 DEF SamePage
<1>7. \A x \in Open(s) : SamePage(s.tab[x], d.tab[x]) /\ SamePage(s.tab[x], added.tab[x])
  <2> SUFFICES ASSUME NEW x \in Open(s)
               PROVE  SamePage(s.tab[x], d.tab[x]) /\ SamePage(s.tab[x], added.tab[x])
    OBVIOUS
  <2>1. added.tab[x] = s.tab[x] /\ SamePage(added.tab[x], d.tab[x])
    BY <1>1, <1>3, <1>4, <1>5
  <2> QED BY <2>1 DEF SamePage
<1> QED BY <1>2, <1>3, <1>4, <1>6, <1>7 DEF norm

\* Remembering a tab writes the closed list only.
LEMMA RememberClosedEffect ==
  ASSUME NEW s, SessionInvariant(s), NEW t \in Open(s)
  PROVE  LET d == RememberClosed(s, t) IN
         /\ SessionInvariant(d)
         /\ d.tabs = s.tabs /\ d.tab = s.tab /\ d.active = s.active
         /\ d.restored = s.restored /\ d.engine = s.engine /\ Open(d) = Open(s)
         /\ \/ d.closed = s.closed
            \/ /\ ~IsBlankOrNewTabUrl(s.tab[t].url)
               /\ d.closed = Remembered(s.closed, ClosedRecord(s.tab[t]))
<1> DEFINE d == RememberClosed(s, t)
<1>1. SessionInvariant(d) /\ Open(d) = Open(s)
  BY RememberClosedKeepsInvariant
<1>2. IsSession(s)
  BY DEF SessionInvariant
<1>3. CASE IsBlankOrNewTabUrl(s.tab[t].url)
  BY <1>1, <1>3 DEF RememberClosed
<1>4. CASE ~IsBlankOrNewTabUrl(s.tab[t].url)
  <2> DEFINE all == Remembered(s.closed, ClosedRecord(s.tab[t]))
  <2>1. d = [s EXCEPT !.closed = all]
    BY <1>2, <1>4 DEF RememberClosed, IsSession
  <2> HIDE DEF all
  <2>2. /\ d.tabs = s.tabs /\ d.tab = s.tab /\ d.active = s.active
        /\ d.restored = s.restored /\ d.engine = s.engine /\ d.closed = all
    BY <1>2, <2>1 DEF IsSession
  <2> QED BY <1>1, <1>4, <2>2 DEF all
<1> QED BY <1>3, <1>4

\* A tab that leaves the strip: the others stay, and its page is closed.
LEMMA RemoveTabEffect ==
  ASSUME NEW s, SessionInvariant(s), NEW t \in Open(s)
  PROVE  LET d == RemoveTab(s, t) IN
         /\ SessionInvariant(d)
         /\ Open(d) = Open(s) \ {t}
         /\ d.active = IF s.active = t THEN NoTabId ELSE s.active
         /\ d.closed = s.closed /\ d.restored = s.restored
         /\ d.engine = EngineClose(s.engine, t)
         /\ \A x \in TabIds \ {t} : d.tab[x] = s.tab[x]
<1> DEFINE d    == RemoveTab(s, t)
           left == RemoveAt(s.tabs, IndexOf(s, t))
<1>0. /\ IsSession(s) /\ s.tab \in [TabIds -> TabRecords] /\ HasUniqueIds(s)
  BY SessionFields DEF SessionInvariant
<1>1. /\ d.tabs = left /\ d.tab = [s.tab EXCEPT ![t] = NoTab]
      /\ d.active = IF s.active = t THEN NoTabId ELSE s.active
      /\ d.closed = s.closed /\ d.restored = s.restored
      /\ d.engine = EngineClose(s.engine, t)
  BY <1>0 DEF RemoveTab, IsSession
<1>2. SessionInvariant(d)
  BY RemoveTabKeepsInvariant
<1>3. {left[k] : k \in DOMAIN left} = Open(s) \ {t}
  BY <1>0, RemovedTabs
<1> HIDE DEF d, left
<1>4. Open(d) = Open(s) \ {t}
  BY <1>1, <1>3 DEF Open
<1>5. \A x \in TabIds \ {t} : d.tab[x] = s.tab[x]
  BY <1>0, <1>1
<1> QED BY <1>1, <1>2, <1>4, <1>5 DEF d

\* The scan of ActivateAfterClose looks at every position once.
LEMMA ScanReaches ==
  ASSUME NEW n \in Nat, NEW start \in 1 .. n
  PROVE  /\ \A k \in 0 .. n - 1 : ScanIndex(n, start, k) \in 1 .. n
         /\ \A i \in 1 .. n : \E k \in 0 .. n - 1 : ScanIndex(n, start, k) = i
<1>1. ASSUME NEW k \in 0 .. n - 1
      PROVE  ScanIndex(n, start, k) \in 1 .. n
  BY DEF ScanIndex
<1>2. ASSUME NEW i \in 1 .. n
      PROVE  \E k \in 0 .. n - 1 : ScanIndex(n, start, k) = i
  <2>1. CASE i <= start
    <3> DEFINE k == start - i
    <3>1. k \in 0 .. n - 1 /\ start - 1 + n - k = n + (i - 1)
      BY <2>1
    <3>2. (n + (i - 1)) % n = i - 1
      OBVIOUS
    <3> HIDE DEF k
    <3>3. ScanIndex(n, start, k) = i
      BY <3>1, <3>2 DEF ScanIndex
    <3> QED BY <3>1, <3>3
  <2>2. CASE i > start
    <3> DEFINE k == start - i + n
    <3>1. k \in 0 .. n - 1 /\ start - 1 + n - k = i - 1
      BY <2>2
    <3>2. (i - 1) % n = i - 1
      OBVIOUS
    <3> HIDE DEF k
    <3>3. ScanIndex(n, start, k) = i
      BY <3>1, <3>2 DEF ScanIndex
    <3> QED BY <3>1, <3>3
  <2> QED BY <2>1, <2>2
<1> QED BY <1>1, <1>2

\* The tab that takes over is one that is left, and a discarded one only if all are.
TakesOver(s, rest, y) ==
  /\ \E k \in DOMAIN rest : rest[k] = y
  /\ s.tab[y].life = "Discarded" => \A k \in DOMAIN rest : s.tab[rest[k]].life = "Discarded"

LEMMA SuccessorEffect ==
  ASSUME NEW s, NEW rest \in Seq(TabIds), rest # <<>>, NEW i \in Nat \ {0}
  PROVE  TakesOver(s, rest, Successor(s, rest, i))
<1> DEFINE n     == Len(rest)
           start == IF i <= n THEN i ELSE n
           At(k) == rest[ScanIndex(n, start, k)]
           awake == {k \in 0 .. n - 1 : s.tab[At(k)].life # "Discarded"}
           first == CHOOSE k \in awake : \A j \in awake : k <= j
<1>1. n \in Nat \ {0} /\ DOMAIN rest = 1 .. n
  BY LenProperties, EmptySeq
<1>2. start \in 1 .. n
  BY <1>1
<1>3. /\ \A k \in 0 .. n - 1 : ScanIndex(n, start, k) \in 1 .. n
      /\ \A j \in 1 .. n : \E k \in 0 .. n - 1 : ScanIndex(n, start, k) = j
  BY <1>1, <1>2, ScanReaches
<1>4. Successor(s, rest, i) = IF awake = {} THEN rest[start] ELSE At(first)
  BY DEF Successor
<1>5. CASE awake = {}
  <2> HIDE DEF n, start
  <2>1. \A k \in 0 .. n - 1 : s.tab[At(k)].life = "Discarded"
    BY <1>5
  <2>2. ASSUME NEW j \in 1 .. n PROVE s.tab[rest[j]].life = "Discarded"
    <3>1. PICK k \in 0 .. n - 1 : ScanIndex(n, start, k) = j
      BY <1>3
    <3> QED BY <2>1, <3>1
  <2> HIDE DEF awake, first
  <2> QED BY <1>1, <1>2, <1>4, <1>5, <2>2 DEF TakesOver
<1>6. CASE awake # {}
  <2>1. awake \in SUBSET Nat
    BY <1>1
  <2>2. first \in awake
    <3> HIDE DEF awake
    <3>1. \E k \in awake : \A j \in awake : k <= j
      BY <1>6, <2>1, LeastElement
    <3> QED BY <3>1
  <2> HIDE DEF first
  <2>3. first \in 0 .. n - 1 /\ s.tab[At(first)].life # "Discarded"
    BY <2>2
  <2> HIDE DEF n, start, awake
  <2>4. \E k \in 1 .. n : rest[k] = At(first)
    BY <1>3, <2>3
  <2> HIDE DEF At
  <2> QED BY <1>1, <1>4, <1>6, <2>3, <2>4 DEF TakesOver
<1> QED BY <1>5, <1>6

\* What a close does: the tab is gone, and another one takes over only if the closed one
\* was active and the caller wants that.
LEMMA CloseTabEffect ==
  ASSUME NEW s, SessionInvariant(s), NEW t \in Open(s), NEW fallback
  PROVE  LET gone == RemoveTab(RememberClosed(s, t), t)
             d    == CloseTab(s, t, fallback) IN
         /\ SessionInvariant(gone)
         /\ Open(gone) = Open(s) \ {t}
         /\ gone.active = IF s.active = t THEN NoTabId ELSE s.active
         /\ gone.restored = s.restored
         /\ gone.closed = RememberClosed(s, t).closed
         /\ gone.engine = EngineClose(s.engine, t)
         /\ \A x \in TabIds \ {t} : gone.tab[x] = s.tab[x]
         /\ \/ d = gone /\ ~(s.active = t /\ fallback /\ gone.tabs # <<>>)
            \/ /\ s.active = t /\ fallback
               /\ \E y \in Open(gone) :
                    /\ d = ActivateTab(gone, y)
                    /\ gone.tab[y].life = "Discarded" =>
                         \A x \in Open(gone) : gone.tab[x].life = "Discarded"
<1> DEFINE kept == RememberClosed(s, t)
           gone == RemoveTab(kept, t)
           d    == CloseTab(s, t, fallback)
           i    == IndexOf(s, t)
           y    == Successor(gone, gone.tabs, i)
<1>1. /\ SessionInvariant(kept)
      /\ kept.tabs = s.tabs /\ kept.tab = s.tab /\ kept.active = s.active
      /\ kept.restored = s.restored /\ kept.engine = s.engine /\ Open(kept) = Open(s)
  BY RememberClosedEffect
<1>2. d = IF s.active = t /\ fallback THEN ActivateAfterClose(gone, i) ELSE gone
  BY DEF CloseTab, IsOpen
<1>3. ActivateAfterClose(gone, i) = IF gone.tabs = <<>> THEN gone ELSE ActivateTab(gone, y)
  BY DEF ActivateAfterClose
<1> HIDE DEF kept, d
<1>4. /\ SessionInvariant(gone)
      /\ Open(gone) = Open(kept) \ {t}
      /\ gone.active = IF kept.active = t THEN NoTabId ELSE kept.active
      /\ gone.closed = kept.closed /\ gone.restored = kept.restored
      /\ gone.engine = EngineClose(kept.engine, t)
      /\ \A x \in TabIds \ {t} : gone.tab[x] = kept.tab[x]
  BY <1>1, RemoveTabEffect
<1>5. i \in Nat \ {0}
  <2>1. s.tabs \in Seq(TabIds) /\ DOMAIN s.tabs = 1 .. Len(s.tabs)
    BY SessionFields, LenProperties DEF SessionInvariant
  <2> QED BY <2>1 DEF Open, IndexOf
<1> HIDE DEF gone, i
<1>6. CASE s.active = t /\ fallback /\ gone.tabs # <<>>
  <2>1. gone.tabs \in Seq(TabIds)
    BY <1>4, SessionFields DEF SessionInvariant
  <2>a. PICK at \in Nat \ {0} : y = Successor(gone, gone.tabs, at)
    BY <1>5
  <2> HIDE DEF y
  <2>2. TakesOver(gone, gone.tabs, y)
    BY <1>6, <2>1, <2>a, SuccessorEffect
  <2>3. y \in Open(gone)
    BY <2>2 DEF Open, TakesOver
  <2>4. gone.tab[y].life = "Discarded" =>
          \A x \in Open(gone) : gone.tab[x].life = "Discarded"
    BY <2>2 DEF Open, TakesOver
  <2>5. d = ActivateTab(gone, y)
    BY <1>2, <1>3, <1>6
  <2> QED BY <1>1, <1>4, <1>6, <2>3, <2>4, <2>5 DEF kept, gone, d
<1>7. CASE ~(s.active = t /\ fallback /\ gone.tabs # <<>>)
  <2>1. d = gone
    BY <1>2, <1>3, <1>7
  <2> QED BY <1>1, <1>4, <1>7, <2>1 DEF kept, gone, d
<1> QED BY <1>6, <1>7

\* A call about one tab: its record becomes rec, the engine becomes e, and that is all.
CallOnTab(s, d, t, rec, e) ==
  /\ d.tabs = s.tabs /\ d.active = s.active /\ d.closed = s.closed
  /\ d.restored = s.restored /\ Open(d) = Open(s)
  /\ d.engine = e
  /\ \A x \in TabIds : d.tab[x] = IF x = t THEN rec ELSE s.tab[x]

LEMMA WriteTabEffect ==
  ASSUME NEW s, SessionInvariant(s), NEW t \in Open(s), NEW rec \in TabRecords, NEW e
  PROVE  /\ CallOnTab(s, WithTab(s, t, rec), t, rec, s.engine)
         /\ CallOnTab(s, Tell(WithTab(s, t, rec), e), t, rec, e)
<1> DEFINE w == WithTab(s, t, rec)
           d == Tell(w, e)
<1>1. IsSession(s) /\ t \in TabIds
  BY OpenAreIds DEF SessionInvariant
<1>2. /\ IsSession(w)
      /\ w.tabs = s.tabs /\ w.active = s.active /\ w.closed = s.closed
      /\ w.clock = s.clock /\ w.restored = s.restored /\ w.engine = s.engine
      /\ \A x \in TabIds : w.tab[x] = IF x = t THEN rec ELSE s.tab[x]
      /\ Open(w) = Open(s)
  BY <1>1, WithTabFields
<1> HIDE DEF w
<1>3. /\ d.tabs = w.tabs /\ d.active = w.active /\ d.closed = w.closed
      /\ d.restored = w.restored /\ d.engine = e /\ d.tab = w.tab
  BY <1>2 DEF Tell, IsSession
<1> HIDE DEF d
<1>4. Open(d) = Open(s)
  BY <1>2, <1>3 DEF Open
<1>5. CallOnTab(s, w, t, rec, s.engine)
  BY <1>2 DEF CallOnTab
<1>6. CallOnTab(s, d, t, rec, e)
  BY <1>2, <1>3, <1>4 DEF CallOnTab
<1> QED BY <1>5, <1>6 DEF w, d

\* Nothing but the engine changes.
LEMMA TellEffect ==
  ASSUME NEW s, SessionInvariant(s), NEW e
  PROVE  LET d == Tell(s, e) IN
         /\ SessionInvariant(d)
         /\ d.tabs = s.tabs /\ d.tab = s.tab /\ d.active = s.active /\ d.closed = s.closed
         /\ d.restored = s.restored /\ d.clock = s.clock /\ Open(d) = Open(s)
         /\ d.engine = e
<1> DEFINE d == Tell(s, e)
<1>1. /\ d.tabs = s.tabs /\ d.tab = s.tab /\ d.active = s.active /\ d.closed = s.closed
      /\ d.restored = s.restored /\ d.clock = s.clock /\ d.engine = e
  BY DEF SessionInvariant, IsSession, Tell
<1>2. SessionInvariant(d)
  BY TellKeepsInvariant
<1>3. Open(d) = Open(s)
  BY <1>1 DEF Open
<1> QED BY <1>1, <1>2, <1>3

\* The record of a tab a command has woken, and the engine that was told.
WokenTab(tab) == IF tab.life = "Suspended" THEN Demoted(tab) ELSE tab
WokenEngine(s, t) ==
  IF s.tab[t].life = "Suspended" THEN EngineResume(s.engine, t) ELSE s.engine

LEMMA WokenEffect ==
  ASSUME NEW s, SessionInvariant(s), NEW t \in Open(s)
  PROVE  /\ CallOnTab(s, Woken(s, t), t, WokenTab(s.tab[t]), WokenEngine(s, t))
         /\ WokenTab(s.tab[t]) \in TabRecords
<1>1. t \in TabIds /\ s.tab[t] \in TabRecords
  BY OpenAreIds, OpenTabFacts DEF SessionInvariant
<1>2. CASE s.tab[t].life = "Suspended"
  <2> DEFINE rec == Demoted(s.tab[t])
             e   == EngineResume(s.engine, t)
  <2>1. rec \in TabRecords
    BY <1>1 DEF TabRecords, Lifecycles, Demoted
  <2>2. Woken(s, t) = Tell(WithTab(s, t, rec), e)
    BY <1>2 DEF Woken, Demoted
  <2>3. WokenTab(s.tab[t]) = rec /\ WokenEngine(s, t) = e
    BY <1>2 DEF WokenTab, WokenEngine
  <2> HIDE DEF rec, e
  <2> QED BY <2>1, <2>2, <2>3, WriteTabEffect
<1>3. CASE s.tab[t].life # "Suspended"
  <2>1. Woken(s, t) = s /\ WokenTab(s.tab[t]) = s.tab[t] /\ WokenEngine(s, t) = s.engine
    BY <1>3 DEF Woken, WokenTab, WokenEngine
  <2> QED BY <1>1, <2>1 DEF CallOnTab
<1> QED BY <1>2, <1>3

LEMMA NavigateEffect ==
  ASSUME NEW s, SessionInvariant(s), NEW t, Alive(s, t), NEW url \in Urls
  PROVE  CallOnTab(s, Navigate(s, t, url), t, Requested(WokenTab(s.tab[t]), url),
                   EngineNavigate(WokenEngine(s, t), t, url))
<1> DEFINE awake == Woken(s, t)
           rec   == Requested(awake.tab[t], url)
           e     == EngineNavigate(awake.engine, t, url)
           d     == Tell(WithTab(awake, t, rec), e)
<1>1. t \in Open(s) /\ t \in TabIds
  BY OpenAreIds DEF Alive, IsOpen, SessionInvariant
<1>2. SessionInvariant(awake) /\ Open(awake) = Open(s)
  BY <1>1, WokenKeepsInvariant
<1>3. /\ CallOnTab(s, awake, t, WokenTab(s.tab[t]), WokenEngine(s, t))
      /\ WokenTab(s.tab[t]) \in TabRecords
  BY <1>1, WokenEffect
<1>4. Navigate(s, t, url) = d
  BY DEF Navigate
<1> HIDE DEF awake
<1>5. awake.tab[t] = WokenTab(s.tab[t]) /\ awake.engine = WokenEngine(s, t)
  BY <1>1, <1>3 DEF CallOnTab
<1>6. rec \in TabRecords
  BY <1>3, <1>5, UrlsAssumption DEF Requested, TabRecords, NavStates
<1> HIDE DEF rec, e
<1>7. CallOnTab(awake, d, t, rec, e)
  BY <1>1, <1>2, <1>6, WriteTabEffect
<1> HIDE DEF d
<1>8. CallOnTab(s, d, t, rec, e)
  BY <1>3, <1>7 DEF CallOnTab
<1> QED BY <1>4, <1>5, <1>8 DEF rec, e

\* Suspending and discarding: the lifecycle, and one command to the engine.
LEMMA RestEffect ==
  ASSUME NEW s, SessionInvariant(s), NEW t, Alive(s, t), s.tab[t].life # "Active"
  PROVE  /\ s.tab[t].life # "Suspended" =>
              CallOnTab(s, SuspendTab(s, t), t, [s.tab[t] EXCEPT !.life = "Suspended"],
                        EngineSuspend(s.engine, t))
         /\ CallOnTab(s, DiscardTab(s, t), t, [s.tab[t] EXCEPT !.life = "Discarded"],
                      EngineClose(s.engine, t))
<1> DEFINE asleep == [s.tab[t] EXCEPT !.life = "Suspended"]
           frozen == [s.tab[t] EXCEPT !.life = "Discarded"]
<1>1. t \in Open(s) /\ s.tab[t] \in TabRecords
  BY OpenTabFacts DEF Alive, IsOpen
<1>2. asleep \in TabRecords /\ frozen \in TabRecords
  BY <1>1 DEF TabRecords, Lifecycles
<1>3. /\ s.tab[t].life # "Suspended" =>
           SuspendTab(s, t) = Tell(WithTab(s, t, asleep), EngineSuspend(s.engine, t))
      /\ DiscardTab(s, t) = Tell(WithTab(s, t, frozen), EngineClose(s.engine, t))
  BY DEF SuspendTab, DiscardTab
<1> HIDE DEF asleep, frozen
<1>4. /\ CallOnTab(s, Tell(WithTab(s, t, asleep), EngineSuspend(s.engine, t)), t, asleep,
                   EngineSuspend(s.engine, t))
      /\ CallOnTab(s, Tell(WithTab(s, t, frozen), EngineClose(s.engine, t)), t, frozen,
                   EngineClose(s.engine, t))
  BY <1>1, <1>2, WriteTabEffect
<1> QED BY <1>3, <1>4 DEF asleep, frozen

\* The record an engine event leaves behind, whatever the event: the lifecycle, the
\* privacy and the activation number are not its business.
EventRecord(tab, rec, url, title) ==
  /\ rec.life = tab.life /\ rec.seq = tab.seq /\ rec.eph = tab.eph
  /\ rec.url \in {tab.url, url} /\ rec.title \in {tab.title, title}

EventOnTab(s, d, t, url, title) ==
  \E rec \in TabRecords :
    CallOnTab(s, d, t, rec, s.engine) /\ EventRecord(s.tab[t], rec, url, title)

LEMMA EventEffect ==
  ASSUME NEW s, SessionInvariant(s), NEW t, Alive(s, t), NEW url \in Urls, NEW title \in Titles
  PROVE  /\ EventOnTab(s, OnNavigationStarted(s, t, url), t, url, title)
         /\ EventOnTab(s, OnNavigationCommitted(s, t, url), t, url, title)
         /\ EventOnTab(s, OnNavigationFailed(s, t, url), t, url, title)
         /\ EventOnTab(s, OnTitleChanged(s, t, title), t, url, title)
         /\ EventOnTab(s, OnRendererCrashed(s, t), t, url, title)
<1> DEFINE tab       == s.tab[t]
           started   == [tab EXCEPT !.pending = url, !.nav = "Loading",
                                    !.error = FALSE, !.crashed = FALSE]
           committed == CommittedTab(tab, url)
           failed    == [tab EXCEPT !.pending = url, !.nav = "Failed",
                                    !.error = TRUE, !.crashed = FALSE]
           titled    == [tab EXCEPT !.title = title]
           crashed   == [tab EXCEPT !.crashed = TRUE, !.nav = "Failed", !.error = TRUE]
           Fits(rec) == rec \in TabRecords /\ EventRecord(tab, rec, url, title)
<1>1. t \in Open(s) /\ tab \in TabRecords
  BY OpenTabFacts DEF Alive, IsOpen
<1>2. url \in Urls /\ url # NoUrl
  BY UrlsAssumption
<1>3. ASSUME NEW rec, Fits(rec)
      PROVE  EventOnTab(s, WithTab(s, t, rec), t, url, title)
  BY <1>1, <1>3, WriteTabEffect DEF EventOnTab
<1> HIDE DEF tab
<1>4. Fits(started)
  BY <1>1, <1>2 DEF TabRecords, NavStates, EventRecord
<1>5. Fits(committed)
  BY <1>1, <1>2 DEF TabRecords, NavStates, CommittedTab, EventRecord
<1>6. Fits(failed)
  BY <1>1, <1>2 DEF TabRecords, NavStates, EventRecord
<1>7. Fits(titled)
  BY <1>1 DEF TabRecords, EventRecord
<1>8. Fits(crashed)
  BY <1>1 DEF TabRecords, NavStates, EventRecord
<1> HIDE DEF started, committed, failed, titled, crashed, Fits
<1>9. /\ EventOnTab(s, WithTab(s, t, started), t, url, title)
      /\ EventOnTab(s, WithTab(s, t, committed), t, url, title)
      /\ EventOnTab(s, WithTab(s, t, failed), t, url, title)
      /\ EventOnTab(s, WithTab(s, t, titled), t, url, title)
      /\ EventOnTab(s, WithTab(s, t, crashed), t, url, title)
  BY <1>3, <1>4, <1>5, <1>6, <1>7, <1>8
<1> QED
  BY <1>9 DEF OnNavigationStarted, OnNavigationCommitted, OnNavigationFailed,
              OnTitleChanged, OnRendererCrashed, started, committed, failed,
              titled, crashed, tab

\* Purging the closed list changes nothing else.
LEMMA PurgeEffect ==
  ASSUME NEW s, SessionInvariant(s)
  PROVE  LET d == PurgeEphemeralClosedTabs(s) IN
         /\ d.tabs = s.tabs /\ d.tab = s.tab /\ d.active = s.active
         /\ d.restored = s.restored /\ d.engine = s.engine /\ Open(d) = Open(s)
         /\ d.closed = Kept(s.closed, {rec \in Templates : ~rec.eph})
<1> DEFINE d == PurgeEphemeralClosedTabs(s)
<1>1. /\ d.tabs = s.tabs /\ d.tab = s.tab /\ d.active = s.active
      /\ d.restored = s.restored /\ d.engine = s.engine
      /\ d.closed = Kept(s.closed, {rec \in Templates : ~rec.eph})
  BY DEF PurgeEphemeralClosedTabs, SessionInvariant, IsSession
<1>2. Open(d) = Open(s)
  BY <1>1 DEF Open
<1> QED BY <1>1, <1>2

\* A reopening: one record fewer, and its tab in front if its new name is free.
LEMMA ReopenEffect ==
  ASSUME NEW s, SessionInvariant(s), NEW mode, s.restored + 1 \in DOMAIN RestoredId,
         Reopenable(s, mode) # {}
  PROVE  LET k     == NewestReopenable(s, mode)
             id    == RestoredId[s.restored + 1]
             fresh == FreshTab(Normalised(s.closed[k]))
             d     == ReopenLastClosedTab(s, mode) IN
         /\ d.closed = RemoveAt(s.closed, k) /\ d.restored = s.restored + 1
         /\ id \in TabIds /\ Open(d) = Open(s) \cup {id}
         /\ \A x \in Open(s) : SamePage(s.tab[x], d.tab[x])
         /\ id \notin Open(s) =>
              d.tabs = Append(s.tabs, id) /\ d.active = id /\ SamePage(fresh, d.tab[id])
<1> DEFINE k     == NewestReopenable(s, mode)
           id    == RestoredId[s.restored + 1]
           rec   == s.closed[k]
           u     == Unlisted(s, k)
           d     == OpenTab(u, id, rec, TRUE)
<1>1. k \in 1 .. Len(s.closed)
  BY NewestReopenableEffect
<1>2. ReopenLastClosedTab(s, mode) = d /\ id \in TabIds /\ rec \in Templates
  BY ReopenCases DEF Memorable
<1> HIDE DEF k
<1>3. /\ SessionInvariant(u)
      /\ u.tabs = s.tabs /\ u.tab = s.tab /\ u.active = s.active
      /\ u.engine = s.engine /\ Open(u) = Open(s)
      /\ u.closed = RemoveAt(s.closed, k) /\ u.restored = s.restored + 1
  BY <1>1, UnlistedEffect
<1> HIDE DEF u, id, rec
<1>4. CASE id \in Open(s)
  <2>1. d = u
    BY <1>3, <1>4 DEF OpenTab, AcceptsId, IsOpen
  <2>2. \A x \in Open(s) : SamePage(s.tab[x], u.tab[x])
    BY <1>3 DEF SamePage
  <2> QED BY <1>2, <1>3, <1>4, <2>1, <2>2 DEF k, id
<1>5. CASE id \notin Open(s)
  <2> DEFINE fresh == FreshTab(Normalised(rec))
  <2>1. ~IsOpen(u, id)
    BY <1>3, <1>5 DEF IsOpen
  <2>2. /\ d.tabs = Append(u.tabs, id) /\ Open(d) = Open(u) \cup {id}
        /\ d.closed = u.closed /\ d.restored = u.restored
        /\ d.active = IF u.tabs = <<>> \/ TRUE THEN id ELSE u.active
        /\ SamePage(fresh, d.tab[id])
        /\ \A x \in Open(u) : SamePage(u.tab[x], d.tab[x])
    BY <1>2, <1>3, <2>1, OpenTabEffect
  <2> HIDE DEF d
  <2> QED BY <1>2, <1>3, <1>5, <2>2 DEF k, id, rec
<1> QED BY <1>4, <1>5

\* CycleTab stays among the visible tabs.
LEMMA CycleTargetIsVisible ==
  ASSUME NEW s, SessionInvariant(s), NEW visible, Open(s) \cap visible # {}, NEW forward
  PROVE  CycleTarget(s, visible, forward) \in visible
<1> DEFINE seen == Kept(s.tabs, visible)
           n    == Len(seen)
           here == {j \in DOMAIN seen : seen[j] = s.active}
           i    == CHOOSE j \in here : TRUE
<1>1. s.tabs \in Seq(TabIds)
  BY SessionFields DEF SessionInvariant
<1>2. PICK k \in 1 .. Len(s.tabs) : s.tabs[k] \in visible
  BY <1>1, LenProperties DEF Open
<1>3. seen \in Seq(TabIds \cap visible) /\ n > 0
  BY <1>1, <1>2, KeptType, KeptFinds
<1>4. DOMAIN seen = 1 .. n /\ n \in Nat /\ \A j \in 1 .. n : seen[j] \in visible
  BY <1>3, LenProperties, ElementOfSeq
<1>5. here # {} => i \in 1 .. n
  BY <1>4
<1>6. CycleTarget(s, visible, forward) =
        CASE here = {} -> seen[1]
          [] here # {} /\ forward -> seen[(i % n) + 1]
          [] OTHER -> seen[((i + n - 2) % n) + 1]
  BY DEF CycleTarget
<1> HIDE DEF seen, here, i, n
<1>7. here # {} => (i % n) + 1 \in 1 .. n /\ ((i + n - 2) % n) + 1 \in 1 .. n
  BY <1>3, <1>4, <1>5
<1> QED BY <1>3, <1>4, <1>6, <1>7

-----------------------------------------------------------------------------
(***************************************************************************)
(* Whatever all closed tabs have in common stays common to them.           *)
(***************************************************************************)
LEMMA CloseKeepsRecords ==
  ASSUME NEW s, SessionInvariant(s), NEW R, s.closed \in Seq(R), NEW t \in Open(s),
         ~IsBlankOrNewTabUrl(s.tab[t].url) => ClosedRecord(s.tab[t]) \in R, NEW fallback
  PROVE  CloseTab(s, t, fallback).closed \in Seq(R)
<1> DEFINE gone == RemoveTab(RememberClosed(s, t), t)
           d    == CloseTab(s, t, fallback)
<1>1. /\ SessionInvariant(gone) /\ gone.closed = RememberClosed(s, t).closed
      /\ d = gone \/ \E y \in Open(gone) : d = ActivateTab(gone, y)
  BY CloseTabEffect
<1>2. \/ RememberClosed(s, t).closed = s.closed
      \/ /\ ~IsBlankOrNewTabUrl(s.tab[t].url)
         /\ RememberClosed(s, t).closed = Remembered(s.closed, ClosedRecord(s.tab[t]))
  BY RememberClosedEffect
<1>3. Len(s.closed) <= MaxClosed
  BY ClosedListFacts
<1>4. ~IsBlankOrNewTabUrl(s.tab[t].url) => Remembered(s.closed, ClosedRecord(s.tab[t])) \in Seq(R)
  <2> DEFINE rec == ClosedRecord(s.tab[t])
  <2> HIDE DEF rec
  <2>1. rec \in R => Remembered(s.closed, rec) \in Seq(R)
    BY <1>3, RememberedType
  <2> QED BY <2>1 DEF rec
<1> HIDE DEF gone, d
<1>5. gone.closed \in Seq(R)
  BY <1>1, <1>2, <1>4
<1>6. \A y : ActivateTab(gone, y).closed = gone.closed
  BY <1>1, ActivateTabEffect
<1> QED BY <1>1, <1>5, <1>6 DEF d

LEMMA ReopenKeepsRecords ==
  ASSUME NEW s, SessionInvariant(s), NEW R, s.closed \in Seq(R), NEW mode,
         s.restored + 1 \in DOMAIN RestoredId
  PROVE  ReopenLastClosedTab(s, mode).closed \in Seq(R)
<1>1. CASE Reopenable(s, mode) = {}
  BY <1>1 DEF ReopenLastClosedTab
<1>2. CASE Reopenable(s, mode) # {}
  <2> DEFINE k == NewestReopenable(s, mode)
  <2>1. k \in 1 .. Len(s.closed) /\ ReopenLastClosedTab(s, mode).closed = RemoveAt(s.closed, k)
    BY <1>2, NewestReopenableEffect, ReopenEffect
  <2> HIDE DEF k
  <2>2. RemoveAt(s.closed, k) \in Seq(R)
    BY <2>1, RemoveAtProperties
  <2> QED BY <2>1, <2>2
<1> QED BY <1>1, <1>2

-----------------------------------------------------------------------------
(***************************************************************************)
(* No operation sets the activation counter back.                          *)
(***************************************************************************)
NoEarlier(s, d) == d.clock \in Nat /\ s.clock <= d.clock

LEMMA RaiseTime ==
  ASSUME NEW s, SessionInvariant(s), NEW t \in Open(s)
  PROVE  Raise(s, t).clock = s.clock + 1 /\ s.clock \in Nat
<1> DEFINE r == MarkActive(DemoteActiveTab(s), t)
           e == EngineActivate(r.engine, t)
<1>1. r = MarkActive(DemoteActiveTab(s), t) /\ Raise(s, t) = Tell(r, e)
  BY DEF Raise
<1> HIDE DEF r, e
<1>2. IsSession(r) /\ r.clock = s.clock + 1
  BY <1>1, RaisedFields
<1>3. Tell(r, e).clock = r.clock
  BY <1>2 DEF Tell, IsSession
<1> QED BY <1>1, <1>2, <1>3, SessionFields DEF SessionInvariant

LEMMA ActivateTime ==
  ASSUME NEW s, SessionInvariant(s), NEW t
  PROVE  NoEarlier(s, ActivateTab(s, t))
<1>0. s.clock \in Nat
  BY SessionFields DEF SessionInvariant
<1>1. CASE ~IsOpen(s, t) \/ s.active = t
  BY <1>0, <1>1 DEF ActivateTab, NoEarlier
<1>2. CASE IsOpen(s, t) /\ s.active # t
  <2> DEFINE r == Revived(s, t)
  <2>1. SessionInvariant(r) /\ Open(r) = Open(s)
    BY RevivedEffect
  <2>2. r.clock = s.clock
    BY DEF Revived, Tell, SessionInvariant, IsSession
  <2>3. ActivateTab(s, t) = Raise(r, t)
    BY <1>2 DEF ActivateTab
  <2> HIDE DEF r
  <2>4. Raise(r, t).clock = r.clock + 1
    BY <1>2, <2>1, RaiseTime DEF IsOpen
  <2> QED BY <1>0, <2>2, <2>3, <2>4 DEF NoEarlier
<1> QED BY <1>1, <1>2

LEMMA OpenTime ==
  ASSUME NEW s, SessionInvariant(s), NEW t \in TabIds, NEW tpl \in Templates, NEW activate
  PROVE  LET d == OpenTab(s, t, tpl, activate) IN
         /\ NoEarlier(s, d)
         /\ ~IsOpen(s, t) /\ (s.tabs = <<>> \/ activate) => d.clock = s.clock + 1
<1> DEFINE norm  == Normalised(tpl)
           added == AddTab(s, t, norm)
<1>0. s.clock \in Nat /\ norm \in Templates
  BY SessionFields, NormalisedType DEF SessionInvariant
<1>1. CASE IsOpen(s, t)
  BY <1>0, <1>1 DEF OpenTab, AcceptsId, NoEarlier
<1>2. CASE ~IsOpen(s, t)
  <2>1. OpenTab(s, t, tpl, activate) = IF s.tabs = <<>> \/ activate THEN Raise(added, t) ELSE added
    BY <1>2 DEF OpenTab, AcceptsId
  <2> HIDE DEF norm
  <2>2. added.clock = s.clock
    BY DEF AddTab, SessionInvariant, IsSession
  <2>3. SessionInvariant(added) /\ t \in Open(added)
    BY <1>0, <1>2, AddTabKeepsInvariant
  <2> HIDE DEF added
  <2>4. Raise(added, t).clock = added.clock + 1
    BY <2>3, RaiseTime
  <2> QED BY <1>0, <2>1, <2>2, <2>4 DEF NoEarlier
<1> QED BY <1>1, <1>2

\* A tab that closes quietly hands over to nobody.
LEMMA CloseTime ==
  ASSUME NEW s, SessionInvariant(s), NEW t \in Open(s), NEW fallback
  PROVE  NoEarlier(s, CloseTab(s, t, fallback))
<1> DEFINE gone == RemoveTab(RememberClosed(s, t), t)
           d    == CloseTab(s, t, fallback)
<1>0. s.clock \in Nat
  BY SessionFields DEF SessionInvariant
<1>1. SessionInvariant(gone) /\ (d = gone \/ \E y \in Open(gone) : d = ActivateTab(gone, y))
  BY CloseTabEffect
<1>2. gone.clock = s.clock
  <2>1. RememberClosed(s, t).clock = s.clock /\ IsSession(RememberClosed(s, t))
    BY RememberClosedKeepsInvariant DEF RememberClosed, SessionInvariant, IsSession
  <2> HIDE DEF gone
  <2> DEFINE m == RememberClosed(s, t)
  <2>2. gone = RemoveTab(m, t)
    BY DEF gone
  <2> HIDE DEF m
  <2>3. m.clock = s.clock /\ IsSession(m)
    BY <2>1 DEF m
  <2> QED BY <2>2, <2>3 DEF RemoveTab, IsSession
<1> HIDE DEF gone, d
<1>3. \A y : NoEarlier(gone, ActivateTab(gone, y))
  BY <1>1, ActivateTime
<1> QED BY <1>0, <1>1, <1>2, <1>3 DEF NoEarlier, d

LEMMA ReopenTime ==
  ASSUME NEW s, SessionInvariant(s), NEW mode, s.restored + 1 \in DOMAIN RestoredId
  PROVE  NoEarlier(s, ReopenLastClosedTab(s, mode))
<1>0. s.clock \in Nat
  BY SessionFields DEF SessionInvariant
<1>1. CASE Reopenable(s, mode) = {}
  BY <1>0, <1>1 DEF ReopenLastClosedTab, NoEarlier
<1>2. CASE Reopenable(s, mode) # {}
  <2> DEFINE k   == NewestReopenable(s, mode)
             id  == RestoredId[s.restored + 1]
             tpl == s.closed[k]
             u   == Unlisted(s, k)
  <2>1. k \in 1 .. Len(s.closed)
    BY <1>2, NewestReopenableEffect
  <2>2. ReopenLastClosedTab(s, mode) = OpenTab(u, id, tpl, TRUE) /\ id \in TabIds /\ tpl \in Templates
    BY <1>2, ReopenCases DEF Memorable
  <2>3. SessionInvariant(u) /\ u.clock = s.clock
    BY <2>1, UnlistedEffect DEF Unlisted, SessionInvariant, IsSession
  <2> HIDE DEF u, id, tpl, k
  <2>4. NoEarlier(u, OpenTab(u, id, tpl, TRUE))
    BY <2>2, <2>3, OpenTime
  <2> QED BY <2>2, <2>3, <2>4 DEF NoEarlier
<1> QED BY <1>1, <1>2

LEMMA NavigateTime ==
  ASSUME NEW s, SessionInvariant(s), NEW t, NEW url \in Urls
  PROVE  NoEarlier(s, Navigate(s, t, url))
<1>0. s.clock \in Nat
  BY SessionFields DEF SessionInvariant
<1>1. Woken(s, t).clock = s.clock /\ DOMAIN Woken(s, t) = DOMAIN s
  BY DEF Woken, Tell, WithTab, SessionInvariant, IsSession
<1>2. "clock" \in DOMAIN s
  BY DEF SessionInvariant, IsSession
<1>3. Navigate(s, t, url).clock = s.clock
  BY <1>1, <1>2 DEF Navigate, Tell, WithTab
<1> QED BY <1>0, <1>3 DEF NoEarlier

LEMMA EventTime ==
  ASSUME NEW s, SessionInvariant(s), NEW t, NEW url
  PROVE  /\ NoEarlier(s, OnNavigationStarted(s, t, url))
         /\ NoEarlier(s, OnNavigationCommitted(s, t, url))
<1>1. s.clock \in Nat
  BY SessionFields DEF SessionInvariant
<1> QED BY <1>1 DEF NoEarlier, OnNavigationStarted, OnNavigationCommitted, WithTab,
                    SessionInvariant, IsSession

-----------------------------------------------------------------------------
\* The session over the Chromium engine of CefEngineOps: what each command leaves of
\* the engine, and that every operation keeps the engine's pages those of its tabs.

\* The engine behind the interface is the one of CefEngineOps.
OverCef ==
  /\ NoAddress = NoUrl
  /\ \A e, t, tab : EngineCreate(e, t, tab) = CefCreate(e, t, tab)
  /\ \A e, t : /\ EngineClose(e, t) = CefClose(e, t)
               /\ EngineActivate(e, t) = CefActivate(e, t)
  /\ \A e, t, url : EngineNavigate(e, t, url) = CefNavigate(e, t, url)

CefStates ==
  [phase: [TabIds -> Phases], queued: [TabIds -> Urls \cup {NoUrl}],
   context: [TabIds -> Nat], visible: SUBSET TabIds, active: TabIds \cup {NoTabId},
   live: Nat, private: BOOLEAN, contexts: Nat, shared: Nat,
   prompts: {{}}, closeAsked: BOOLEAN, destroyed: BOOLEAN, quit: BOOLEAN]

\* The engine has usable pages for these tabs, and shows this one and no other.
CefHas(e, pages, shown) ==
  /\ e \in CefStates /\ ~e.destroyed
  /\ \A t \in TabIds : Usable(e, t) <=> t \in pages
  /\ e.active = shown
  /\ e.visible = IF shown = NoTabId THEN {} ELSE {shown}

\* No browser has come or gone between two states of the engine.
SameBrowsers(e, f) ==
  /\ \A t \in TabIds : HasBrowser(e, t) <=> HasBrowser(f, t)
  /\ f.live = e.live /\ f.quit = e.quit
  /\ f.closeAsked = e.closeAsked /\ f.destroyed = e.destroyed

\* The page of a tab is as it was.
SameSurface(e, f, t) == f.phase[t] = e.phase[t] /\ f.queued[t] = e.queued[t]

\* What each command leaves.
LEMMA CefCreates ==
  ASSUME OverCef, NEW e, NEW P, NEW a, CefHas(e, P, a),
         NEW t \in TabIds, e.phase[t] = "absent", NEW tab
  PROVE  LET f == EngineCreate(e, t, tab) IN
         /\ CefHas(f, P \cup {t}, a) /\ SameBrowsers(e, f)
         /\ f.queued[t] = NoUrl
         /\ \A x \in TabIds \ {t} : SameSurface(e, f, x)
<1> DEFINE ctx == ContextFor(e, tab.eph)
           f   == [e EXCEPT !.phase[t] = "pending", !.queued[t] = NoAddress,
                            !.context[t] = ctx,
                            !.contexts = IF ctx > @ THEN ctx ELSE @,
                            !.shared = IF ctx = Profile THEN @ ELSE ctx]
<1>1. EngineCreate(e, t, tab) = f
  BY DEF OverCef, CefCreate, CefHas
<1>2. e \in CefStates /\ NoAddress = NoUrl
  BY DEF CefHas, OverCef
<1>3. ctx \in Nat
  BY <1>2 DEF ContextFor, CefStates, Profile
<1> HIDE DEF ctx
<1>4. /\ f \in CefStates
      /\ f.phase = [e.phase EXCEPT ![t] = "pending"]
      /\ f.queued = [e.queued EXCEPT ![t] = NoUrl]
      /\ f.visible = e.visible /\ f.active = e.active /\ f.live = e.live
      /\ f.quit = e.quit /\ f.closeAsked = e.closeAsked /\ f.destroyed = e.destroyed
  BY <1>2, <1>3 DEF CefStates, Phases
<1> HIDE DEF f
<1>5. /\ f.phase[t] = "pending" /\ f.queued[t] = NoUrl
      /\ \A x \in TabIds \ {t} : SameSurface(e, f, x)
  BY <1>2, <1>4 DEF CefStates, SameSurface
<1>6. CefHas(f, P \cup {t}, a)
  BY <1>4, <1>5 DEF CefHas, Usable, SameSurface
<1>7. SameBrowsers(e, f)
  BY <1>4, <1>5 DEF SameBrowsers, HasBrowser, SameSurface
<1> QED BY <1>1, <1>5, <1>6, <1>7

LEMMA CefCloses ==
  ASSUME OverCef, NEW e, NEW P, NEW a, CefHas(e, P, a), NEW t \in TabIds, t \in P
  PROVE  LET f == EngineClose(e, t) IN
         /\ CefHas(f, P \ {t}, IF a = t THEN NoTabId ELSE a) /\ SameBrowsers(e, f)
         /\ f.phase[t] = IF e.phase[t] = "live" THEN "closing" ELSE "absent"
         /\ \A x \in TabIds \ {t} : SameSurface(e, f, x)
<1> DEFINE left == IF e.phase[t] = "live" THEN "closing" ELSE "absent"
           f    == [e EXCEPT !.prompts = {p \in e.prompts : p.tab # t},
                             !.visible = @ \ {t},
                             !.active = IF @ = t THEN NoTabId ELSE @, !.phase[t] = left]
<1>1. e \in CefStates /\ e.phase[t] \in {"pending", "live"}
  BY DEF CefHas, Usable
<1>2. EngineClose(e, t) = f
  <2>1. EngineClose(e, t) = CefClose(e, t) /\ Usable(e, t)
    BY DEF OverCef, CefHas
  <2>2. CefClose(e, t) = [DismissPromptsOf(e, t) EXCEPT
                            !.visible = @ \ {t},
                            !.active = IF @ = t THEN NoTabId ELSE @, !.phase[t] = left]
    BY <2>1 DEF CefClose
  <2> QED BY <1>1, <2>1, <2>2 DEF DismissPromptsOf, CefStates
<1>3. left \in Phases
  BY DEF Phases
<1>4. /\ f \in CefStates
      /\ f.phase = [e.phase EXCEPT ![t] = left]
      /\ f.queued = e.queued
      /\ f.visible = e.visible \ {t}
      /\ f.active = IF e.active = t THEN NoTabId ELSE e.active
      /\ f.live = e.live
      /\ f.quit = e.quit /\ f.closeAsked = e.closeAsked /\ f.destroyed = e.destroyed
  BY <1>1, <1>3 DEF CefStates
<1> HIDE DEF f
<1>5. /\ f.phase[t] = left
      /\ \A x \in TabIds \ {t} : SameSurface(e, f, x)
  BY <1>1, <1>4 DEF CefStates, SameSurface
<1>6. CefHas(f, P \ {t}, IF a = t THEN NoTabId ELSE a)
  BY <1>4, <1>5 DEF CefHas, Usable, SameSurface
<1>7. SameBrowsers(e, f)
  BY <1>1, <1>4, <1>5 DEF SameBrowsers, HasBrowser, SameSurface
<1> QED BY <1>2, <1>5, <1>6, <1>7

LEMMA CefActivates ==
  ASSUME OverCef, NEW e, NEW P, NEW a, CefHas(e, P, a), NEW t \in TabIds, t \in P
  PROVE  LET f == EngineActivate(e, t) IN
         /\ CefHas(f, P, t) /\ SameBrowsers(e, f)
         /\ \A x \in TabIds : SameSurface(e, f, x)
<1> DEFINE f == [e EXCEPT !.visible = (@ \ {e.active}) \cup {t}, !.active = t]
<1>1. e \in CefStates /\ NoTabId \notin TabIds
  BY NoTabIdAssumption DEF CefHas
<1>2. EngineActivate(e, t) = f
  BY DEF OverCef, CefHas, CefActivate
<1>3. /\ f \in CefStates
      /\ f.phase = e.phase /\ f.queued = e.queued
      /\ f.visible = (e.visible \ {e.active}) \cup {t} /\ f.active = t /\ f.live = e.live
      /\ f.quit = e.quit /\ f.closeAsked = e.closeAsked /\ f.destroyed = e.destroyed
  BY <1>1 DEF CefStates
<1> HIDE DEF f
<1>4. CefHas(f, P, t)
  BY <1>1, <1>3 DEF CefHas, Usable
<1>5. SameBrowsers(e, f) /\ \A x \in TabIds : SameSurface(e, f, x)
  BY <1>3 DEF SameBrowsers, HasBrowser, SameSurface
<1> QED BY <1>2, <1>4, <1>5

\* A navigation waits for the browser or goes to it, and changes no page here.
LEMMA CefNavigates ==
  ASSUME OverCef, NEW e, NEW P, NEW a, CefHas(e, P, a), NEW t \in TabIds, NEW url \in Urls
  PROVE  LET f == EngineNavigate(e, t, url) IN
         /\ CefHas(f, P, a) /\ SameBrowsers(e, f)
         /\ f.phase = e.phase
         /\ f.queued[t] = IF e.phase[t] = "pending" THEN url ELSE e.queued[t]
         /\ \A x \in TabIds \ {t} : SameSurface(e, f, x)
<1>1. e \in CefStates
  BY DEF CefHas
<1>2. CASE e.phase[t] # "pending"
  <2>1. EngineNavigate(e, t, url) = e
    BY <1>2 DEF OverCef, CefNavigate
  <2> QED BY <1>2, <2>1 DEF SameBrowsers, SameSurface
<1>3. CASE e.phase[t] = "pending"
  <2> DEFINE f == [e EXCEPT !.queued[t] = url]
  <2>1. EngineNavigate(e, t, url) = f
    BY <1>3 DEF OverCef, CefNavigate
  <2>2. /\ f \in CefStates
        /\ f.phase = e.phase /\ f.queued = [e.queued EXCEPT ![t] = url]
        /\ f.visible = e.visible /\ f.active = e.active /\ f.live = e.live
        /\ f.quit = e.quit /\ f.closeAsked = e.closeAsked /\ f.destroyed = e.destroyed
    BY <1>1 DEF CefStates
  <2> HIDE DEF f
  <2>3. f.queued[t] = url /\ \A x \in TabIds \ {t} : SameSurface(e, f, x)
    BY <1>1, <2>2 DEF CefStates, SameSurface
  <2>4. CefHas(f, P, a) /\ SameBrowsers(e, f)
    BY <2>2 DEF CefHas, Usable, SameBrowsers, HasBrowser
  <2> QED BY <1>3, <2>1, <2>2, <2>3, <2>4
<1> QED BY <1>2, <1>3

-----------------------------------------------------------------------------
(***************************************************************************)
(* The session over it, when no tab is suspended or discarded.             *)
(***************************************************************************)
NoneRests(s) == \A t \in Open(s) : s.tab[t].life \in {"Active", "Background"}

\* What waits for the browser of an open tab is what the session shows as pending.
QueueIsShown(s) ==
  \A t \in Open(s) :
    s.engine.queued[t] # NoUrl =>
      s.engine.phase[t] = "pending" /\ s.tab[t].pending = s.engine.queued[t]

Follows(s) ==
  /\ SessionInvariant(s) /\ NoneRests(s) /\ QueueIsShown(s)
  /\ CefHas(s.engine, Open(s), s.active)

\* What waits stays shown when a surface and the address its tab waits for stay.
LEMMA QueueStays ==
  ASSUME NEW s, QueueIsShown(s), NEW d, NEW t \in Open(s),
         SameSurface(s.engine, d.engine, t), d.tab[t].pending = s.tab[t].pending
  PROVE  d.engine.queued[t] # NoUrl =>
           d.engine.phase[t] = "pending" /\ d.tab[t].pending = d.engine.queued[t]
BY DEF QueueIsShown, SameSurface

LEMMA RaiseFollows ==
  ASSUME OverCef, NEW s, Follows(s), NEW t \in Open(s)
  PROVE  Follows(Raise(s, t)) /\ SameBrowsers(s.engine, Raise(s, t).engine)
<1> DEFINE d == Raise(s, t)
<1>0. SessionInvariant(s) /\ CefHas(s.engine, Open(s), s.active) /\ Open(s) \subseteq TabIds
  BY OpenAreIds DEF Follows, SessionInvariant
<1>1. /\ Open(d) = Open(s) /\ d.active = t
      /\ d.engine = EngineActivate(s.engine, t)
      /\ \A x \in TabIds :
           /\ SamePage(s.tab[x], d.tab[x])
           /\ d.tab[x].life = IF x = t THEN "Active"
                              ELSE IF x = s.active THEN "Background" ELSE s.tab[x].life
  BY <1>0, RaiseEffect
<1>2. SessionInvariant(d)
  BY <1>0, RaiseKeepsInvariant
<1> HIDE DEF d
<1>3. /\ CefHas(d.engine, Open(s), t) /\ SameBrowsers(s.engine, d.engine)
      /\ \A x \in TabIds : SameSurface(s.engine, d.engine, x)
  <2> DEFINE P == Open(s)
             a == s.active
  <2>1. CefHas(s.engine, P, a) /\ t \in TabIds /\ t \in P
    BY <1>0
  <2> HIDE DEF P, a
  <2>2. /\ CefHas(EngineActivate(s.engine, t), P, t)
        /\ SameBrowsers(s.engine, EngineActivate(s.engine, t))
        /\ \A x \in TabIds : SameSurface(s.engine, EngineActivate(s.engine, t), x)
    BY <2>1, CefActivates
  <2> QED BY <1>1, <2>2 DEF P
<1>4. NoneRests(d)
  BY <1>0, <1>1 DEF NoneRests, Follows
<1>5. QueueIsShown(d)
  <2> SUFFICES ASSUME NEW x \in Open(s)
               PROVE  d.engine.queued[x] # NoUrl =>
                        d.engine.phase[x] = "pending" /\ d.tab[x].pending = d.engine.queued[x]
    BY <1>1 DEF QueueIsShown
  <2>1. SameSurface(s.engine, d.engine, x) /\ d.tab[x].pending = s.tab[x].pending
    BY <1>0, <1>1, <1>3 DEF SamePage
  <2> QED BY <2>1, QueueStays DEF Follows
<1> QED BY <1>1, <1>2, <1>3, <1>4, <1>5 DEF Follows, d

LEMMA SameBrowsersChain ==
  ASSUME NEW e, NEW f, NEW g, SameBrowsers(e, f), SameBrowsers(f, g)
  PROVE  SameBrowsers(e, g)
BY DEF SameBrowsers

\* No tab needs to be revived.
LEMMA ActivateFollows ==
  ASSUME OverCef, NEW s, Follows(s), NEW t
  PROVE  Follows(ActivateTab(s, t)) /\ SameBrowsers(s.engine, ActivateTab(s, t).engine)
<1>1. CASE ~IsOpen(s, t) \/ s.active = t
  BY <1>1 DEF ActivateTab, SameBrowsers
<1>2. CASE IsOpen(s, t) /\ s.active # t
  <2>1. Revived(s, t) = s /\ t \in Open(s)
    BY <1>2 DEF Revived, Follows, NoneRests, IsOpen
  <2>2. ActivateTab(s, t) = Raise(s, t)
    BY <1>2, <2>1 DEF ActivateTab
  <2> QED BY <2>1, <2>2, RaiseFollows
<1> QED BY <1>1, <1>2

LEMMA CycleFollows ==
  ASSUME OverCef, NEW s, Follows(s), NEW visible, NEW forward
  PROVE  LET d == CycleTab(s, visible, forward) IN
         /\ Follows(d) /\ SameBrowsers(s.engine, d.engine)
         /\ Open(d) = Open(s) /\ d.restored = s.restored
<1> DEFINE t == CycleTarget(s, visible, forward)
<1>1. /\ Follows(ActivateTab(s, t)) /\ SameBrowsers(s.engine, ActivateTab(s, t).engine)
      /\ Open(ActivateTab(s, t)) = Open(s) /\ ActivateTab(s, t).restored = s.restored
  <2> HIDE DEF t
  <2>1. SessionInvariant(s)
    BY DEF Follows
  <2>2. Follows(ActivateTab(s, t)) /\ SameBrowsers(s.engine, ActivateTab(s, t).engine)
    BY ActivateFollows
  <2>3. Open(ActivateTab(s, t)) = Open(s) /\ ActivateTab(s, t).restored = s.restored
    BY <2>1, ActivateTabEffect
  <2> QED BY <2>2, <2>3
<1> QED BY <1>1 DEF CycleTab, SameBrowsers

\* An id whose surface is gone can name a new tab; one whose browser is still closing
\* could not, because CreateTab would leave that surface as it is.
LEMMA AddFollows ==
  ASSUME OverCef, NEW s, Follows(s), NEW t \in TabIds, s.engine.phase[t] = "absent",
         NEW tpl \in Templates
  PROVE  LET added == AddTab(s, t, tpl) IN
         /\ ~IsOpen(s, t)
         /\ Follows(added) /\ SameBrowsers(s.engine, added.engine)
         /\ Open(added) = Open(s) \cup {t}
<1> DEFINE fresh == FreshTab(tpl)
           added == AddTab(s, t, tpl)
<1>0. /\ SessionInvariant(s) /\ CefHas(s.engine, Open(s), s.active) /\ Open(s) \subseteq TabIds
      /\ ~IsOpen(s, t)
  BY OpenAreIds DEF Follows, SessionInvariant, CefHas, Usable, IsOpen
<1>4. fresh.life = "Background"
  BY DEF FreshTab
<1> HIDE DEF fresh
<1>5. /\ SessionInvariant(added) /\ Open(added) = Open(s) \cup {t}
      /\ added.active = s.active
      /\ added.engine = EngineCreate(s.engine, t, fresh)
      /\ \A x \in TabIds : added.tab[x] = IF x = t THEN fresh ELSE s.tab[x]
  BY <1>0, AddTabEffect DEF fresh
<1> HIDE DEF added
<1>6. /\ CefHas(added.engine, Open(added), added.active) /\ SameBrowsers(s.engine, added.engine)
      /\ added.engine.queued[t] = NoUrl
      /\ \A x \in TabIds \ {t} : SameSurface(s.engine, added.engine, x)
  <2> DEFINE P == Open(s)
             a == s.active
  <2>1. CefHas(s.engine, P, a)
    BY <1>0
  <2> HIDE DEF P, a
  <2>2. /\ CefHas(EngineCreate(s.engine, t, fresh), P \cup {t}, a)
        /\ SameBrowsers(s.engine, EngineCreate(s.engine, t, fresh))
        /\ EngineCreate(s.engine, t, fresh).queued[t] = NoUrl
        /\ \A x \in TabIds \ {t} : SameSurface(s.engine, EngineCreate(s.engine, t, fresh), x)
    BY <2>1, CefCreates
  <2> QED BY <1>5, <2>2 DEF P, a
<1>7. NoneRests(added)
  BY <1>0, <1>4, <1>5 DEF NoneRests, Follows
<1>8. QueueIsShown(added)
  <2> SUFFICES ASSUME NEW x \in Open(added), added.engine.queued[x] # NoUrl
               PROVE  added.engine.phase[x] = "pending" /\ added.tab[x].pending = added.engine.queued[x]
    BY DEF QueueIsShown
  <2>1. x \in Open(s) /\ x # t /\ x \in TabIds
    BY <1>0, <1>5, <1>6
  <2>2. SameSurface(s.engine, added.engine, x) /\ added.tab[x].pending = s.tab[x].pending
    BY <1>5, <1>6, <2>1
  <2> QED BY <2>1, <2>2, QueueStays DEF Follows
<1>9. Follows(added)
  BY <1>5, <1>6, <1>7, <1>8 DEF Follows
<1> QED BY <1>0, <1>5, <1>6, <1>9 DEF added

LEMMA OpenFollows ==
  ASSUME OverCef, NEW s, Follows(s), NEW t \in TabIds, s.engine.phase[t] = "absent",
         NEW tpl \in Templates, NEW activate
  PROVE  LET d == OpenTab(s, t, tpl, activate) IN
         /\ Follows(d) /\ SameBrowsers(s.engine, d.engine)
         /\ Open(d) = Open(s) \cup {t} /\ d.restored = s.restored
<1> DEFINE norm  == Normalised(tpl)
           added == AddTab(s, t, norm)
           d     == OpenTab(s, t, tpl, activate)
<1>1. norm \in Templates
  BY NormalisedType
<1> HIDE DEF norm
<1>2. /\ ~IsOpen(s, t)
      /\ Follows(added) /\ SameBrowsers(s.engine, added.engine) /\ t \in Open(added)
  BY <1>1, AddFollows
<1>3. Open(d) = Open(s) \cup {t} /\ d.restored = s.restored
  BY <1>2, OpenTabEffect DEF Follows
<1>4. d = IF s.tabs = <<>> \/ activate THEN Raise(added, t) ELSE added
  BY <1>2 DEF OpenTab, AcceptsId, norm
<1> HIDE DEF added, d
<1>5. Follows(Raise(added, t)) /\ SameBrowsers(added.engine, Raise(added, t).engine)
  BY <1>2, RaiseFollows
<1>6. SameBrowsers(s.engine, Raise(added, t).engine)
  BY <1>2, <1>5, SameBrowsersChain
<1> QED BY <1>2, <1>3, <1>4, <1>5, <1>6 DEF d

\* A tab that closes leaves its page and, until that has answered, its browser.
LEMMA RemoveFollows ==
  ASSUME OverCef, NEW s, Follows(s), NEW t \in Open(s)
  PROVE  LET gone == RemoveTab(RememberClosed(s, t), t) IN
         Follows(gone) /\ SameBrowsers(s.engine, gone.engine)
<1> DEFINE gone == RemoveTab(RememberClosed(s, t), t)
<1>0. /\ SessionInvariant(s) /\ CefHas(s.engine, Open(s), s.active) /\ Open(s) \subseteq TabIds
  BY OpenAreIds DEF Follows, SessionInvariant
<1>1. /\ SessionInvariant(gone)
      /\ Open(gone) = Open(s) \ {t}
      /\ gone.active = IF s.active = t THEN NoTabId ELSE s.active
      /\ gone.engine = EngineClose(s.engine, t)
      /\ \A x \in TabIds \ {t} : gone.tab[x] = s.tab[x]
  BY <1>0, CloseTabEffect
<1> HIDE DEF gone
<1>2. /\ CefHas(gone.engine, Open(gone), gone.active) /\ SameBrowsers(s.engine, gone.engine)
      /\ \A x \in TabIds \ {t} : SameSurface(s.engine, gone.engine, x)
  <2> DEFINE P == Open(s)
             a == s.active
  <2>1. CefHas(s.engine, P, a) /\ t \in TabIds /\ t \in P
    BY <1>0
  <2> HIDE DEF P, a
  <2>2. /\ CefHas(EngineClose(s.engine, t), P \ {t}, IF a = t THEN NoTabId ELSE a)
        /\ SameBrowsers(s.engine, EngineClose(s.engine, t))
        /\ \A x \in TabIds \ {t} : SameSurface(s.engine, EngineClose(s.engine, t), x)
    BY <2>1, CefCloses
  <2> QED BY <1>1, <2>2 DEF P, a
<1>3. NoneRests(gone)
  BY <1>0, <1>1 DEF NoneRests, Follows
<1>4. QueueIsShown(gone)
  <2> SUFFICES ASSUME NEW x \in Open(gone)
               PROVE  gone.engine.queued[x] # NoUrl =>
                        gone.engine.phase[x] = "pending" /\ gone.tab[x].pending = gone.engine.queued[x]
    BY DEF QueueIsShown
  <2>1. x \in Open(s) /\ SameSurface(s.engine, gone.engine, x) /\ gone.tab[x].pending = s.tab[x].pending
    BY <1>0, <1>1, <1>2
  <2> QED BY <2>1, QueueStays DEF Follows
<1>5. Follows(gone)
  BY <1>1, <1>2, <1>3, <1>4 DEF Follows
<1> QED BY <1>2, <1>5 DEF gone

LEMMA CloseFollows ==
  ASSUME OverCef, NEW s, Follows(s), NEW t \in Open(s), NEW fallback
  PROVE  LET d == CloseTab(s, t, fallback) IN
         /\ Follows(d) /\ SameBrowsers(s.engine, d.engine)
         /\ Open(d) = Open(s) \ {t} /\ d.restored = s.restored
<1> DEFINE gone == RemoveTab(RememberClosed(s, t), t)
           d    == CloseTab(s, t, fallback)
<1>1. /\ SessionInvariant(gone)
      /\ Open(gone) = Open(s) \ {t}
      /\ gone.restored = s.restored
      /\ d = gone \/ \E y \in Open(gone) : d = ActivateTab(gone, y)
  BY CloseTabEffect DEF Follows
<1>2. Follows(gone) /\ SameBrowsers(s.engine, gone.engine)
  BY RemoveFollows
<1> HIDE DEF gone, d
<1>6. CASE d = gone
  BY <1>1, <1>2, <1>6 DEF d
<1>7. ASSUME NEW y \in Open(gone), d = ActivateTab(gone, y)
      PROVE  /\ Follows(d) /\ SameBrowsers(s.engine, d.engine)
             /\ Open(d) = Open(s) \ {t} /\ d.restored = s.restored
  <2>1. Follows(ActivateTab(gone, y)) /\ SameBrowsers(gone.engine, ActivateTab(gone, y).engine)
    BY <1>2, ActivateFollows
  <2>2. Open(ActivateTab(gone, y)) = Open(gone) /\ ActivateTab(gone, y).restored = gone.restored
    BY <1>1, ActivateTabEffect
  <2>3. SameBrowsers(s.engine, ActivateTab(gone, y).engine)
    BY <1>2, <2>1, SameBrowsersChain
  <2> QED BY <1>1, <1>7, <2>1, <2>2, <2>3
<1> QED BY <1>1, <1>6, <1>7 DEF d

LEMMA ReopenFollows ==
  ASSUME OverCef, NEW s, Follows(s), NEW mode, s.restored + 1 \in DOMAIN RestoredId,
         s.engine.phase[RestoredId[s.restored + 1]] = "absent", Reopenable(s, mode) # {}
  PROVE  LET d  == ReopenLastClosedTab(s, mode)
             id == RestoredId[s.restored + 1] IN
         /\ Follows(d) /\ SameBrowsers(s.engine, d.engine)
         /\ Open(d) = Open(s) \cup {id} /\ d.restored = s.restored + 1
<1> DEFINE k   == NewestReopenable(s, mode)
           id  == RestoredId[s.restored + 1]
           tpl == s.closed[k]
           u   == Unlisted(s, k)
<1>0. SessionInvariant(s)
  BY DEF Follows
<1>1. k \in 1 .. Len(s.closed)
  BY <1>0, NewestReopenableEffect
<1>2. ReopenLastClosedTab(s, mode) = OpenTab(u, id, tpl, TRUE) /\ id \in TabIds /\ tpl \in Templates
  BY <1>0, ReopenCases DEF Memorable
<1> HIDE DEF k
<1>3. /\ SessionInvariant(u)
      /\ u.tab = s.tab /\ u.active = s.active /\ u.engine = s.engine /\ Open(u) = Open(s)
      /\ u.restored = s.restored + 1
  BY <1>0, <1>1, UnlistedEffect
<1> HIDE DEF u, id, tpl
<1>4. Follows(u)
  BY <1>3 DEF Follows, NoneRests, QueueIsShown
<1>5. u.engine.phase[id] = "absent"
  BY <1>3 DEF id
<1>6. /\ Follows(OpenTab(u, id, tpl, TRUE)) /\ SameBrowsers(u.engine, OpenTab(u, id, tpl, TRUE).engine)
      /\ Open(OpenTab(u, id, tpl, TRUE)) = Open(u) \cup {id}
      /\ OpenTab(u, id, tpl, TRUE).restored = u.restored
  BY <1>2, <1>4, <1>5, OpenFollows
<1> QED BY <1>2, <1>3, <1>6 DEF id

LEMMA NavigateFollows ==
  ASSUME OverCef, NEW s, Follows(s), NEW t \in Open(s), NEW url \in Urls
  PROVE  LET d == Navigate(s, t, url) IN
         /\ Follows(d) /\ SameBrowsers(s.engine, d.engine)
         /\ Open(d) = Open(s) /\ d.restored = s.restored
<1> DEFINE d   == Navigate(s, t, url)
           tab == s.tab[t]
           rec == Requested(WokenTab(tab), url)
           e   == EngineNavigate(WokenEngine(s, t), t, url)
<1>0. /\ SessionInvariant(s) /\ CefHas(s.engine, Open(s), s.active) /\ Open(s) \subseteq TabIds
      /\ t \in TabIds /\ tab \in TabRecords /\ tab.life \in {"Active", "Background"}
  BY OpenAreIds, OpenTabFacts DEF Follows, SessionInvariant, NoneRests
<1>1. Alive(s, t)
  BY <1>0 DEF Alive, IsOpen
<1>2. CallOnTab(s, d, t, rec, e)
  BY <1>0, <1>1, NavigateEffect
<1>3. WokenTab(tab) = tab /\ WokenEngine(s, t) = s.engine
  BY <1>0 DEF WokenTab, WokenEngine
<1>4. rec.life = tab.life /\ rec.pending = url
  BY <1>0, <1>3 DEF Requested, TabRecords
<1>5. SessionInvariant(d)
  BY <1>0, NavigateKeepsInvariant
<1> HIDE DEF rec, d, tab
<1>6. /\ CefHas(e, Open(s), s.active) /\ SameBrowsers(s.engine, e)
      /\ e.phase = s.engine.phase
      /\ e.queued[t] = IF s.engine.phase[t] = "pending" THEN url ELSE s.engine.queued[t]
      /\ \A x \in TabIds \ {t} : SameSurface(s.engine, e, x)
  <2> DEFINE P == Open(s)
             a == s.active
             f == EngineNavigate(s.engine, t, url)
  <2>1. CefHas(s.engine, P, a)
    BY <1>0
  <2> HIDE DEF P, a
  <2>2. /\ CefHas(f, P, a) /\ SameBrowsers(s.engine, f)
        /\ f.phase = s.engine.phase
        /\ f.queued[t] = IF s.engine.phase[t] = "pending" THEN url ELSE s.engine.queued[t]
        /\ \A x \in TabIds \ {t} : SameSurface(s.engine, f, x)
    BY <1>0, <2>1, CefNavigates
  <2>3. e = f
    BY <1>3
  <2> QED BY <2>2, <2>3 DEF P, a
<1> HIDE DEF e
<1>7. NoneRests(d)
  BY <1>0, <1>2, <1>4 DEF NoneRests, Follows, CallOnTab, tab
<1>8. QueueIsShown(d)
  <2> SUFFICES ASSUME NEW x \in Open(s), e.queued[x] # NoUrl
               PROVE  e.phase[x] = "pending" /\ d.tab[x].pending = e.queued[x]
    BY <1>2 DEF QueueIsShown, CallOnTab
  <2>1. CASE x = t
    <3>1. s.engine.phase[t] # "pending" => s.engine.queued[t] = NoUrl
      BY DEF Follows, QueueIsShown
    <3>2. s.engine.phase[t] = "pending" /\ e.queued[t] = url
      BY <1>6, <2>1, <3>1
    <3>3. d.tab[t] = rec
      BY <1>0, <1>2 DEF CallOnTab
    <3> QED BY <1>4, <1>6, <2>1, <3>2, <3>3
  <2>2. CASE x # t
    <3>1. SameSurface(s.engine, d.engine, x) /\ d.tab[x].pending = s.tab[x].pending /\ d.engine = e
      BY <1>0, <1>2, <1>6, <2>2 DEF CallOnTab
    <3> QED BY <3>1, QueueStays DEF Follows
  <2> QED BY <2>1, <2>2
<1> QED BY <1>2, <1>5, <1>6, <1>7, <1>8 DEF Follows, CallOnTab, d

\* What holds of the session and its engine even when the window is gone.
Consistent(s) ==
  SessionInvariant(s) /\ NoneRests(s) /\ QueueIsShown(s) /\ s.engine \in CefStates

\* An event of a browser: nothing waits for it, so it may change what is pending.
LEMMA EventStaysConsistent ==
  ASSUME NEW s, Consistent(s), NEW t \in TabIds, HasBrowser(s.engine, t), NEW url \in Urls,
         NEW d, d \in {OnNavigationStarted(s, t, url), OnNavigationCommitted(s, t, url),
                       OnRendererCrashed(s, t)}
  PROVE  /\ Consistent(d) /\ Open(d) = Open(s)
         /\ d.engine = s.engine /\ d.active = s.active /\ d.restored = s.restored
<1>0. SessionInvariant(s) /\ Open(s) \subseteq TabIds /\ "page" \in Titles
  BY OpenAreIds DEF Consistent, SessionInvariant, Titles
<1>1. SessionInvariant(d)
  BY <1>0, EventKeepsInvariant
<1>2. CASE ~Alive(s, t)
  <2>1. d = s
    BY <1>2 DEF OnNavigationStarted, OnNavigationCommitted, OnRendererCrashed
  <2> QED BY <2>1
<1>3. CASE Alive(s, t)
  <2>1. EventOnTab(s, d, t, url, "page")
    BY <1>0, <1>3, EventEffect
  <2>2. PICK rec \in TabRecords :
          CallOnTab(s, d, t, rec, s.engine) /\ EventRecord(s.tab[t], rec, url, "page")
    BY <2>1 DEF EventOnTab
  <2>3. /\ Open(d) = Open(s) /\ d.engine = s.engine /\ d.active = s.active
        /\ d.restored = s.restored
        /\ \A x \in TabIds : d.tab[x] = IF x = t THEN rec ELSE s.tab[x]
        /\ rec.life = s.tab[t].life
    BY <2>2 DEF CallOnTab, EventRecord
  <2>4. NoneRests(d)
    BY <1>0, <2>3 DEF NoneRests, Consistent
  <2>5. QueueIsShown(d)
    BY <1>0, <2>3 DEF QueueIsShown, Consistent, HasBrowser
  <2> QED BY <1>1, <2>3, <2>4, <2>5 DEF Consistent
<1> QED BY <1>2, <1>3

-----------------------------------------------------------------------------
(***************************************************************************)
(* What browsers tell the engine.                                          *)
(***************************************************************************)
\* The privacy mode of the engine and the contexts its pages were made in.
SameModes(e, f) == f.private = e.private /\ f.shared = e.shared /\ f.context = e.context

LEMMA MaybeQuitEffect ==
  ASSUME NEW e \in CefStates
  PROVE  LET f == MaybeQuitAfterClose(e) IN
         /\ f \in CefStates
         /\ f.phase = e.phase /\ f.queued = e.queued /\ f.visible = e.visible
         /\ f.active = e.active /\ f.live = e.live
         /\ f.closeAsked = e.closeAsked /\ f.destroyed = e.destroyed
         /\ f.quit => e.quit \/ (e.destroyed /\ e.live = 0)
         /\ SameModes(e, f)
BY DEF MaybeQuitAfterClose, CefStates, SameModes

\* A new state of the engine, told to a consistent session: what waits still does.
LEMMA TellStaysConsistent ==
  ASSUME NEW s, Consistent(s), NEW f \in CefStates,
         \A t \in Open(s) : f.queued[t] # NoUrl =>
           f.queued[t] = s.engine.queued[t] /\ f.phase[t] = s.engine.phase[t]
  PROVE  LET d == Tell(s, f) IN
         /\ Consistent(d) /\ Open(d) = Open(s) /\ d.engine = f
         /\ d.active = s.active /\ d.restored = s.restored
<1> DEFINE d == Tell(s, f)
<1>1. /\ SessionInvariant(d) /\ d.tab = s.tab /\ d.active = s.active
      /\ d.restored = s.restored /\ Open(d) = Open(s) /\ d.engine = f
  BY TellEffect DEF Consistent
<1> HIDE DEF d
<1>2. NoneRests(d) /\ QueueIsShown(d)
  BY <1>1 DEF Consistent, NoneRests, QueueIsShown
<1> QED BY <1>1, <1>2 DEF Consistent, d

LEMMA CreatedEffect ==
  ASSUME OverCef, NEW e \in CefStates, NEW t \in TabIds, e.phase[t] = "pending"
  PROVE  LET f == NotifyBrowserCreated(e, t) IN
         /\ f \in CefStates /\ f.phase[t] = "live" /\ f.queued[t] = NoUrl
         /\ \A x \in TabIds \ {t} : SameSurface(e, f, x)
         /\ f.visible = e.visible /\ f.active = e.active /\ f.live = e.live + 1
         /\ f.closeAsked = e.closeAsked /\ f.destroyed = e.destroyed /\ f.quit = e.quit
         /\ SameModes(e, f)
<1> DEFINE more == e.live + 1
           f    == NotifyBrowserCreated(e, t)
           g    == [e EXCEPT !.phase[t] = "live", !.live = more, !.queued[t] = NoAddress]
<1>1. f = g /\ NoAddress = NoUrl
  BY DEF NotifyBrowserCreated, CefStates, OverCef
<1>2. more \in Nat
  BY DEF CefStates
<1> HIDE DEF more, f
<1>3. /\ g \in CefStates
      /\ g.phase = [e.phase EXCEPT ![t] = "live"]
      /\ g.queued = [e.queued EXCEPT ![t] = NoUrl]
      /\ g.visible = e.visible /\ g.active = e.active /\ g.live = more
      /\ g.closeAsked = e.closeAsked /\ g.destroyed = e.destroyed /\ g.quit = e.quit
      /\ SameModes(e, g)
  BY <1>1, <1>2 DEF CefStates, Phases, SameModes
<1> HIDE DEF g
<1>4. /\ g.phase[t] = "live" /\ g.queued[t] = NoUrl
      /\ \A x \in TabIds \ {t} : SameSurface(e, g, x)
  BY <1>3 DEF CefStates, SameSurface
<1> QED BY <1>1, <1>3, <1>4 DEF more, f

LEMMA GoneEffect ==
  ASSUME NEW e \in CefStates, NEW t \in TabIds, HasBrowser(e, t)
  PROVE  LET f == NotifyBrowserBeforeClose(e, t) IN
         /\ f \in CefStates /\ f.phase[t] = "absent" /\ f.queued = e.queued
         /\ \A x \in TabIds \ {t} : SameSurface(e, f, x)
         /\ f.visible = e.visible \ {t}
         /\ f.active = IF e.active = t THEN NoTabId ELSE e.active
         /\ f.live = IF e.live > 0 THEN e.live - 1 ELSE e.live
         /\ f.destroyed = e.destroyed
         /\ f.quit => e.quit \/ (e.destroyed /\ f.live = 0)
         /\ SameModes(e, f)
<1> DEFINE f    == NotifyBrowserBeforeClose(e, t)
           less == IF e.live > 0 THEN e.live - 1 ELSE e.live
           h    == [e EXCEPT !.phase[t] = "absent", !.visible = @ \ {t}, !.live = less,
                             !.active = IF @ = t THEN NoTabId ELSE @]
<1>1. e.phase[t] # "absent" /\ HasBrowser(e, t)
  BY DEF HasBrowser
<1>2. f = MaybeQuitAfterClose(h)
  BY <1>1 DEF NotifyBrowserBeforeClose, CefStates
<1>3. less \in Nat
  BY DEF CefStates
<1> HIDE DEF less, f
<1>4. /\ h \in CefStates
      /\ h.phase = [e.phase EXCEPT ![t] = "absent"] /\ h.queued = e.queued
      /\ h.visible = e.visible \ {t} /\ h.live = less
      /\ h.active = IF e.active = t THEN NoTabId ELSE e.active
      /\ h.destroyed = e.destroyed /\ h.quit = e.quit /\ SameModes(e, h)
  BY <1>3 DEF CefStates, Phases, SameModes
<1> HIDE DEF h
<1>5. /\ f \in CefStates
      /\ f.phase = h.phase /\ f.queued = h.queued /\ f.visible = h.visible
      /\ f.active = h.active /\ f.live = h.live /\ f.destroyed = h.destroyed
      /\ f.quit => h.quit \/ (h.destroyed /\ h.live = 0)
      /\ SameModes(h, f)
  BY <1>2, <1>4, MaybeQuitEffect
<1>6. SameModes(e, f)
  BY <1>4, <1>5 DEF SameModes
<1>7. /\ f.phase[t] = "absent"
      /\ \A x \in TabIds \ {t} : SameSurface(e, f, x)
  BY <1>4, <1>5 DEF CefStates, SameSurface
<1> QED BY <1>4, <1>5, <1>6, <1>7 DEF less, f

\* A browser that appears changes neither the pages nor what they show.
LEMMA CreatedStaysConsistent ==
  ASSUME OverCef, NEW s, Consistent(s), NEW t \in TabIds, s.engine.phase[t] = "pending"
  PROVE  LET f == NotifyBrowserCreated(s.engine, t)
             d == Tell(s, f) IN
         /\ Consistent(d) /\ Open(d) = Open(s) /\ d.engine = f
         /\ d.active = s.active /\ d.restored = s.restored
         /\ CefHas(s.engine, Open(s), s.active) => CefHas(f, Open(s), s.active)
<1> DEFINE e == s.engine
           f == NotifyBrowserCreated(e, t)
<1>1. e \in CefStates /\ Open(s) \subseteq TabIds
  BY OpenAreIds DEF Consistent, SessionInvariant
<1>2. /\ f \in CefStates /\ f.phase[t] = "live" /\ f.queued[t] = NoUrl
      /\ \A x \in TabIds \ {t} : SameSurface(e, f, x)
      /\ f.visible = e.visible /\ f.active = e.active /\ f.destroyed = e.destroyed
  BY <1>1, CreatedEffect
<1> HIDE DEF f
<1>3. \A x \in Open(s) : f.queued[x] # NoUrl =>
        f.queued[x] = s.engine.queued[x] /\ f.phase[x] = s.engine.phase[x]
  BY <1>1, <1>2 DEF SameSurface
<1>4. /\ Consistent(Tell(s, f)) /\ Open(Tell(s, f)) = Open(s) /\ Tell(s, f).engine = f
      /\ Tell(s, f).active = s.active /\ Tell(s, f).restored = s.restored
  BY <1>2, <1>3, TellStaysConsistent
<1>5. CefHas(e, Open(s), s.active) => CefHas(f, Open(s), s.active)
  BY <1>2 DEF CefHas, Usable, SameSurface
<1> QED BY <1>4, <1>5 DEF f

\* Nor does one that goes when its tab has closed.
LEMMA GoneStaysConsistent ==
  ASSUME NEW s, Consistent(s), NEW t \in TabIds, HasBrowser(s.engine, t)
  PROVE  LET f == NotifyBrowserBeforeClose(s.engine, t)
             d == Tell(s, f) IN
         /\ Consistent(d) /\ Open(d) = Open(s) /\ d.engine = f
         /\ d.active = s.active /\ d.restored = s.restored
         /\ CefHas(s.engine, Open(s), s.active) /\ s.engine.phase[t] = "closing" =>
              CefHas(f, Open(s), s.active)
<1> DEFINE e == s.engine
           f == NotifyBrowserBeforeClose(e, t)
<1>1. e \in CefStates /\ Open(s) \subseteq TabIds /\ NoTabId \notin TabIds
  BY OpenAreIds, NoTabIdAssumption DEF Consistent, SessionInvariant
<1>2. /\ f \in CefStates /\ f.phase[t] = "absent" /\ f.queued = e.queued
      /\ \A x \in TabIds \ {t} : SameSurface(e, f, x)
      /\ f.visible = e.visible \ {t}
      /\ f.active = IF e.active = t THEN NoTabId ELSE e.active
      /\ f.destroyed = e.destroyed
  BY <1>1, GoneEffect
<1> HIDE DEF f
<1>3. \A x \in Open(s) : f.queued[x] # NoUrl =>
        f.queued[x] = s.engine.queued[x] /\ f.phase[x] = s.engine.phase[x]
  <2>1. t \in Open(s) => f.queued[t] = NoUrl
    BY <1>2 DEF Consistent, QueueIsShown, HasBrowser
  <2> QED BY <1>1, <1>2, <2>1 DEF SameSurface
<1>4. /\ Consistent(Tell(s, f)) /\ Open(Tell(s, f)) = Open(s) /\ Tell(s, f).engine = f
      /\ Tell(s, f).active = s.active /\ Tell(s, f).restored = s.restored
  BY <1>2, <1>3, TellStaysConsistent
<1>5. ASSUME CefHas(e, Open(s), s.active), e.phase[t] = "closing"
      PROVE  CefHas(f, Open(s), s.active)
  <2>1. t \notin Open(s)
    BY <1>5 DEF CefHas, Usable
  <2>2. s.active \in TabIds => s.active \in Open(s)
    BY DEF Consistent, SessionInvariant, HasOneActive, IsOpen
  <2>3. s.active \in TabIds \cup {NoTabId}
    BY SessionFields DEF Consistent, SessionInvariant
  <2>4. s.active # t
    BY <1>1, <2>1, <2>2, <2>3
  <2>5. f.active = s.active /\ f.visible = e.visible
    BY <1>1, <1>2, <1>5, <2>4 DEF CefHas
  <2> QED BY <1>2, <1>5, <2>1, <2>5 DEF CefHas, Usable, SameSurface
<1> QED BY <1>4, <1>5 DEF f
=============================================================================
