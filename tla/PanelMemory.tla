----------------------------- MODULE PanelMemory -----------------------------
(***************************************************************************)
(* What the bot remembers of panels, in two maps with a bound:             *)
(* internal/bot/state.go.  The throttle holds the last press of a person   *)
(* on a panel, the registry the message that opened a panel.  Each is used *)
(* under its own mutex; the ages count ticks.                              *)
(***************************************************************************)
EXTENDS Integers, FiniteSets

CONSTANTS
  Pairs,            \* (panel, person) pairs
  ThrottleWindow,   \* throttleWindow
  ThrottlePruneAt,  \* throttlePruneAt
  ThrottleStale,    \* throttleStale
  PanelIds,         \* panels
  PanelMax,         \* panelMax
  PanelTTL          \* panelTTL

ASSUME PanelMemoryAssumption ==
  /\ ThrottleWindow \in Nat \ {0} /\ ThrottlePruneAt \in Nat \ {0} /\ ThrottleStale \in Nat
  /\ ThrottleWindow <= ThrottleStale
  /\ PanelMax \in Nat \ {0} /\ PanelTTL \in Nat
  /\ IsFiniteSet(Pairs) /\ IsFiniteSet(PanelIds)

VARIABLES
  seen,        \* callbackThrottle.seen: how long ago the pair pressed
  passed,      \* history: how long ago a press of the pair was let through
  registry,    \* panelRegistry.m: how long ago the panel was registered
  registered,  \* history: how long ago a panel was registered
  closed       \* history: the panels that were closed

throttleVars == <<seen, passed>>
registryVars == <<registry, registered, closed>>

LongAgo == ThrottleStale + ThrottleWindow + 1
Gone == PanelTTL + 1

MemoryInit ==
  /\ seen = [k \in {} |-> 0]
  /\ passed = [k \in Pairs |-> LongAgo]
  /\ registry = [p \in {} |-> 0]
  /\ registered = [p \in PanelIds |-> Gone]
  /\ closed = {}

Only(f, keys) == [k \in keys |-> f[k]]
Add(f, k) == [j \in DOMAIN f \cup {k} |-> IF j = k THEN 0 ELSE f[j]]
Aged(age, max) == IF age < max THEN age + 1 ELSE max

-----------------------------------------------------------------------------
TooSoon(k) == k \in DOMAIN seen /\ seen[k] < ThrottleWindow

\* Mutant: the map is emptied as soon as it is due for pruning.
ClearAtOnce(f) == IF Cardinality(DOMAIN f) > ThrottlePruneAt THEN Only(f, {}) ELSE f

\* Past the first bound the stale entries go, past the second one all of them.
Pruned(f) ==
  LET fresh == {k \in DOMAIN f : f[k] <= ThrottleStale} IN
  CASE Cardinality(DOMAIN f) <= ThrottlePruneAt -> f
    [] Cardinality(fresh) > 2 * ThrottlePruneAt -> Only(f, {})
    [] OTHER -> Only(f, fresh)

\* hit, of a press that is let through; one that came too soon changes nothing.
Hit(k) ==
  /\ ~TooSoon(k)
  /\ seen' = Pruned(Add(seen, k))
  /\ passed' = [passed EXCEPT ![k] = 0]

ThrottleTick ==
  /\ seen' = [k \in DOMAIN seen |-> Aged(seen[k], LongAgo)]
  /\ passed' = [k \in Pairs |-> Aged(passed[k], LongAgo)]

ThrottleNext == ThrottleTick \/ \E k \in Pairs : Hit(k)

-----------------------------------------------------------------------------
\* Mutant: the newest entries make room.
DropNewest(f) ==
  LET live == {p \in DOMAIN f : f[p] <= PanelTTL} IN
  {Only(f, keys) : keys \in {ks \in SUBSET live :
     /\ Cardinality(ks) = IF Cardinality(live) < PanelMax THEN Cardinality(live) ELSE PanelMax - 1
     /\ \A p \in ks, q \in live \ ks : f[p] >= f[q]}}

\* prune: the expired entries, and then the oldest ones until there is room.
PrunePanels(f) ==
  LET live == {p \in DOMAIN f : f[p] <= PanelTTL} IN
  {Only(f, keys) : keys \in {ks \in SUBSET live :
     /\ Cardinality(ks) = IF Cardinality(live) < PanelMax THEN Cardinality(live) ELSE PanelMax - 1
     /\ \A p \in ks, q \in live \ ks : f[p] <= f[q]}}

\* sendGroupPanel registers a panel that is new; panels have numbers of their own.
Register(p) ==
  /\ registered[p] = Gone /\ p \notin DOMAIN registry
  /\ \E f \in IF Cardinality(DOMAIN registry) >= PanelMax THEN PrunePanels(registry) ELSE {registry} :
       registry' = Add(f, p)
  /\ registered' = [registered EXCEPT ![p] = 0]
  /\ closed' = closed \ {p}

\* take, when the panel is closed.
Take(p) ==
  /\ p \in DOMAIN registry
  /\ registry' = Only(registry, DOMAIN registry \ {p})
  /\ closed' = closed \cup {p}
  /\ UNCHANGED registered

RegistryTick ==
  /\ registry' = [p \in DOMAIN registry |-> Aged(registry[p], Gone)]
  /\ registered' = [p \in PanelIds |-> Aged(registered[p], Gone)]
  /\ UNCHANGED closed

RegistryNext == RegistryTick \/ \E p \in PanelIds : Register(p) \/ Take(p)

\* Each map is used under its own mutex.
MemoryNext ==
  \/ ThrottleNext /\ UNCHANGED registryVars
  \/ RegistryNext /\ UNCHANGED throttleVars

MemorySpec == MemoryInit /\ [][MemoryNext]_<<throttleVars, registryVars>>

-----------------------------------------------------------------------------
(***************************************************************************)
(* Properties                                                              *)
(***************************************************************************)
\* The throttle is bounded and lets a second press through inside the window only under a
\* flood (state.go:53): when more pairs than its second bound pressed just before.
ThrottleHolds ==
  /\ Cardinality(DOMAIN seen') <= 2 * ThrottlePruneAt
  /\ \A k \in Pairs :
       Hit(k) /\ passed[k] < ThrottleWindow =>
         Cardinality({j \in Pairs \ {k} : passed[j] <= ThrottleStale + ThrottleWindow})
           >= 2 * ThrottlePruneAt

\* The registry is bounded and forgets a panel that is open and not expired only when
\* PanelMax others were opened at least as late (state.go:81): Close still finds what
\* opened the newest ones.
RegistryKeepsNewest ==
  /\ Cardinality(DOMAIN registry) <= PanelMax
  /\ \A p \in PanelIds \ (DOMAIN registry \cup closed) :
       registered[p] < Gone =>
         Cardinality({q \in PanelIds \ {p} : registered[q] <= registered[p]}) >= PanelMax

\* The two bounded maps forget only what the least harm is done by forgetting.
MemoryIsBounded ==
  [][ThrottleHolds /\ RegistryKeepsNewest']_<<throttleVars, registryVars>>
=============================================================================
