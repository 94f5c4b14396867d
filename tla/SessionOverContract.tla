------------------------ MODULE SessionOverContract ------------------------
(***************************************************************************)
(* The session together with an engine that keeps the contract of          *)
(* EngineContract: the configuration gives EngineCreate the value          *)
(* ContractCreate, and so on.                                              *)
(***************************************************************************)
EXTENDS BrowserSession, EngineContract

\* The engine is a mirror of the session: a page behind every tab that is not
\* discarded and behind no other, the active tab's page shown, the suspended ones
\* asleep.  It needs every handler to send all its commands, in the right order.
EngineInSync ==
  LET e == session.engine IN
  /\ e \in EngineStates
  /\ e.surfaces = {t \in Open(session) : session.tab[t].life # "Discarded"}
  /\ e.shown = session.active
  /\ e.asleep = {t \in Open(session) : session.tab[t].life = "Suspended"}
=============================================================================
