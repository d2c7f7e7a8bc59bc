-------------------------- MODULE LiveLintingProofs --------------------------
(***************************************************************************)
(* Proofs about LiveLinting, for any snippets, texts and plugins and any   *)
(* number of requests that are not settled.  The invariant adds to the     *)
(* properties what makes them inductive: every request that can still      *)
(* write is the one abortRef names, and once no effect is due the timer    *)
(* holds the input on the screen.                                          *)
(***************************************************************************)
EXTENDS LiveLinting, FiniteSetTheorems, TLAPS

Writers ==
    /\ \A f \in flights : f.id = abortRef
    /\ \A f, g \in flights : f = g
    /\ mounted => (status = "linting" <=> flights # {})
    /\ ~mounted => flights = {} /\ timer = {} /\ effects = {}

TimerIsCurrent == effects = {} /\ timer # {} => timer = {Input}

LiveInv == TypeOK /\ Writers /\ TimerIsCurrent /\ StatusIsCurrent

\* What is sent is a code and a set of plugins.
LEMMA InputType ==
    ASSUME TypeOK
    PROVE  EffectiveEnabled \in SUBSET Plugins /\ Input \in Inputs
<1>1. EffectiveEnabled \in SUBSET Plugins
  <2>1. CASE override = {}
    BY <2>1, PluginsOfAssumption DEF TypeOK, EffectiveEnabled
  <2>2. CASE override # {}
    <3>1. PICK S \in SUBSET Plugins : override = {S}
      BY <2>2 DEF TypeOK
    <3>2. UNION override = S
      BY <3>1
    <3> QED BY <2>2, <3>2 DEF EffectiveEnabled
  <2> QED BY <2>1, <2>2
<1> QED BY <1>1 DEF TypeOK, Input, Inputs

LEMMA InitLive == Init => LiveInv
<1> SUFFICES ASSUME Init PROVE LiveInv
  OBVIOUS
<1>1. TypeOK
  <2>1. override \in {{}} \cup {{S} : S \in SUBSET Plugins}
    BY DEF Init
  <2> QED BY <2>1 DEF Init, TypeOK, Codes
<1> QED BY <1>1 DEF Init, LiveInv, Writers, TimerIsCurrent, StatusIsCurrent

-----------------------------------------------------------------------------
(* What the user does asks for an effect, or takes the page away.          *)

LEMMA UserLive ==
    ASSUME LiveInv, User
    PROVE  LiveInv'
<1> USE DEF LiveInv
<1>1. ASSUME NEW code \in Codes, SetEditorValue(code) PROVE LiveInv'
  <2>1. TypeOK'
    BY <1>1 DEF SetEditorValue, TypeOK, network, answer
  <2> QED
    BY <1>1, <2>1 DEF SetEditorValue, Writers, TimerIsCurrent, StatusIsCurrent, network, answer
<1>2. ASSUME NEW p \in Plugins, TogglePlugin(p) PROVE LiveInv'
  <2>1. override' \in {{}} \cup {{S} : S \in SUBSET Plugins}
    <3>1. Flipped(EffectiveEnabled, p) \in SUBSET Plugins
      BY InputType DEF Flipped
    <3> QED BY <1>2, <3>1 DEF TogglePlugin, Toggled
  <2>2. TypeOK'
    BY <1>2, <2>1 DEF TogglePlugin, TypeOK, network, answer
  <2> QED
    BY <1>2, <2>2 DEF TogglePlugin, Writers, TimerIsCurrent, StatusIsCurrent, network, answer
<1>3. ASSUME NEW s \in Snippets, SelectSnippet(s) PROVE LiveInv'
  <2>1. TypeOK'
    BY <1>3 DEF SelectSnippet, TypeOK, network, answer
  <2> QED
    BY <1>3, <2>1 DEF SelectSnippet, Writers, TimerIsCurrent, StatusIsCurrent, network, answer
<1>4. CASE Unmount
  <2>1. flights' = {}
    BY <1>4 DEF Unmount, Unmounted, Abort, Writers
  <2>2. aborted' \in SUBSET Ids
    BY <1>4 DEF Unmount, Unmounted, Abort, TypeOK, Flights
  <2>3. TypeOK'
    BY <1>4, <2>1, <2>2 DEF Unmount, TypeOK, screen, answer
  <2> QED
    BY <1>4, <2>1, <2>3 DEF Unmount, Writers, TimerIsCurrent, StatusIsCurrent
<1> QED BY <1>1, <1>2, <1>3, <1>4 DEF User

-----------------------------------------------------------------------------
(* What the page does.                                                     *)

\* An effect leaves the timer with the input of its render, which is the
\* one on the screen unless the reset asks for another render.
LEMMA EffectsLive ==
    ASSUME LiveInv, RunEffects
    PROVE  LiveInv'
<1> USE DEF LiveInv
<1>1. timer' = {Input} /\ Input \in Inputs
  BY InputType DEF RunEffects
<1>2. mounted
  BY DEF RunEffects, Writers
<1>3. TypeOK'
  BY <1>1 DEF RunEffects, TypeOK, Codes, network, answer
<1>4. TimerIsCurrent'
  <2> SUFFICES ASSUME effects' = {} PROVE timer' = {Input'}
    BY DEF TimerIsCurrent
  <2>1. editor' = editor
    BY DEF RunEffects
  <2>2. Input' = Input
    BY <2>1 DEF RunEffects, Input, EffectiveEnabled
  <2> QED BY <1>1, <2>2
<1>5. Writers'
  BY <1>2 DEF RunEffects, Writers, network, answer
<1> QED BY <1>1, <1>3, <1>4, <1>5 DEF StatusIsCurrent

\* The request before is the only one, so the new one is alone.
LEMMA LintLive ==
    ASSUME LiveInv, Lint
    PROVE  LiveInv'
<1> USE DEF LiveInv
<1>1. PICK id \in Ids, input \in timer :
         /\ timer' = {}
         /\ Supersede([id |-> id, input |-> input, phase |-> "waiting"])
         /\ abortRef' = id
         /\ status' = "linting"
         /\ UNCHANGED <<screen, effects, findings, mounted>>
  BY DEF Lint
<1> DEFINE f == [id |-> id, input |-> input, phase |-> "waiting"]
<1>2. flights' = {f}
  BY <1>1 DEF Supersede, Writers
<1>3. f \in Flights /\ f.id = id /\ f.input = input
  BY DEF TypeOK, Flights
<1>4. aborted' \in SUBSET Ids
  BY <1>1 DEF Supersede, TypeOK, Flights
<1>5. TypeOK'
  BY <1>1, <1>2, <1>3, <1>4 DEF TypeOK, screen
<1>6. mounted
  BY DEF Writers
<1>7. Writers'
  BY <1>1, <1>2, <1>3, <1>6 DEF Writers
<1>8. StatusIsCurrent'
  <2> SUFFICES ASSUME effects' = {} PROVE {g.input : g \in flights'} = {Input'}
    BY <1>1 DEF StatusIsCurrent
  <2>1. input = Input
    BY <1>1 DEF TimerIsCurrent
  <2>2. Input' = Input
    BY <1>1 DEF screen, Input, EffectiveEnabled
  <2> QED BY <1>2, <1>3, <2>1, <2>2
<1> QED BY <1>1, <1>5, <1>7, <1>8 DEF TimerIsCurrent

\* A request that is settled or half read is the one abortRef names.
LEMMA SettleLive ==
    ASSUME LiveInv, NEW f \in flights, Respond(f) \/ Answer(f) \/ Fail(f)
    PROVE  LiveInv'
<1> USE DEF LiveInv
<1>1. f \in Flights /\ flights = {f} /\ mounted /\ status = "linting"
  BY DEF TypeOK, Writers
<1>2. CASE Respond(f)
  <2> DEFINE g == [f EXCEPT !.phase = "reading"]
  <2>1. flights' = {g}
    BY <1>1, <1>2 DEF Respond
  <2>2. g \in Flights /\ g.id = f.id /\ g.input = f.input
    BY <1>1 DEF Flights
  <2>3. TypeOK'
    BY <1>2, <2>1, <2>2 DEF Respond, TypeOK, screen, answer
  <2>4. Writers'
    BY <1>1, <1>2, <2>1, <2>2 DEF Respond, Writers, answer
  <2>5. Input' = Input
    BY <1>2 DEF Respond, screen, Input, EffectiveEnabled
  <2>6. {h.input : h \in flights'} = {h.input : h \in flights}
    BY <1>1, <2>1, <2>2
  <2> QED
    BY <1>2, <2>3, <2>4, <2>5, <2>6 DEF Respond, TimerIsCurrent, StatusIsCurrent, answer
<1>3. CASE Answer(f)
  <2>1. flights' = {}
    BY <1>1, <1>3 DEF Answer
  <2>2. TypeOK'
    BY <1>1, <1>3, <2>1 DEF Answer, TypeOK, Flights, screen
  <2>3. Writers'
    BY <1>1, <1>3, <2>1 DEF Answer, Writers
  <2>4. Input' = Input
    BY <1>3 DEF Answer, screen, Input, EffectiveEnabled
  <2>5. StatusIsCurrent'
    <3> SUFFICES ASSUME timer = {}, effects = {} PROVE findings' = {Input'}
      BY <1>3 DEF Answer, StatusIsCurrent
    <3>1. {h.input : h \in flights} = {Input}
      BY <1>1 DEF StatusIsCurrent
    <3>2. f.input = Input
      BY <1>1, <3>1
    <3> QED BY <1>3, <2>4, <3>2 DEF Answer
  <2> QED
    BY <1>3, <2>2, <2>3, <2>4, <2>5 DEF Answer, TimerIsCurrent
<1>4. CASE Fail(f)
  <2>1. flights' = {}
    BY <1>1, <1>4 DEF Fail
  <2>2. TypeOK'
    BY <1>4, <2>1 DEF Fail, TypeOK, screen
  <2>3. Input' = Input
    BY <1>4 DEF Fail, screen, Input, EffectiveEnabled
  <2> QED
    BY <1>1, <1>4, <2>1, <2>2, <2>3 DEF Fail, Writers, TimerIsCurrent, StatusIsCurrent
<1> QED BY <1>2, <1>3, <1>4

LEMMA SupersededLive ==
    ASSUME LiveInv, NEW id \in Ids, Superseded(id)
    PROVE  LiveInv'
<1> USE DEF LiveInv
<1>1. TypeOK'
  BY DEF Superseded, TypeOK, screen, answer
<1>2. Input' = Input
  BY DEF Superseded, screen, Input, EffectiveEnabled
<1> QED
  BY <1>1, <1>2 DEF Superseded, Writers, TimerIsCurrent, StatusIsCurrent, answer

(***************************************************************************)
(* Every reachable state of the page satisfies the invariant.              *)
(***************************************************************************)
THEOREM LiveInvariant == Spec => []LiveInv
<1>1. LiveInv /\ [Next]_vars => LiveInv'
  <2> SUFFICES ASSUME LiveInv, [Next]_vars PROVE LiveInv'
    OBVIOUS
  <2>1. CASE User
    BY <2>1, UserLive
  <2>2. CASE Page
    BY <2>2, EffectsLive, LintLive, SettleLive, SupersededLive DEF Page
  <2>3. CASE UNCHANGED vars
    <3>1. /\ UNCHANGED <<slug, editor, override, effects, timer, flights>>
          /\ UNCHANGED <<aborted, abortRef, findings, status, mounted>>
      BY <2>3 DEF vars, screen, network, answer
    <3>2. Input' = Input
      BY <3>1 DEF Input, EffectiveEnabled
    <3> QED
      BY <3>1, <3>2 DEF LiveInv, TypeOK, Writers, TimerIsCurrent, StatusIsCurrent
  <2> QED BY <2>1, <2>2, <2>3 DEF Next
<1> QED BY InitLive, <1>1, PTL DEF Spec

(***************************************************************************)
(* Every variable of the page keeps to its type.                           *)
(***************************************************************************)
THEOREM LiveTypes == Spec => []TypeOK
BY LiveInvariant, PTL DEF LiveInv

(***************************************************************************)
(* "done" and "linting" speak of the code and the plugins on the screen    *)
(* whenever nothing waits to be sent.                                      *)
(***************************************************************************)
THEOREM StatusCurrent == Spec => []StatusIsCurrent
BY LiveInvariant, PTL DEF LiveInv

(***************************************************************************)
(* At most one request can write, none after the unmount, and the spinner  *)
(* never turns without one.                                                *)
(***************************************************************************)
THEOREM SingleWriter == Spec => []OneWriter
<1>1. LiveInv => OneWriter
  <2> SUFFICES ASSUME LiveInv PROVE Cardinality(flights) <= 1
    BY DEF LiveInv, Writers, OneWriter
  <2>1. CASE flights = {}
    BY <2>1, FS_EmptySet
  <2>2. CASE flights # {}
    <3>1. PICK f : flights = {f}
      BY <2>2 DEF LiveInv, Writers
    <3> QED BY <3>1, FS_Singleton
  <2> QED BY <2>1, <2>2
<1> QED BY LiveInvariant, <1>1, PTL

(***************************************************************************)
(* togglePlugin() forgets an override that has as many plugins as the      *)
(* snippet: within the plugins of the snippet only the selection of all of *)
(* them has that many, so one click never changes another plugin.          *)
(***************************************************************************)
THEOREM OnePluginFlips == Spec => TogglesFlip
<1> DEFINE Flips ==
      \A p \in Plugins :
          TogglePlugin(p) /\ EffectiveEnabled \subseteq PluginsOf[slug]
          => EffectiveEnabled' = Flipped(EffectiveEnabled, p)
<1>1. TypeOK => Flips
  <2> SUFFICES ASSUME TypeOK, NEW p \in Plugins, TogglePlugin(p),
                      EffectiveEnabled \subseteq PluginsOf[slug]
               PROVE  EffectiveEnabled' = Flipped(EffectiveEnabled, p)
    OBVIOUS
  <2> DEFINE shown == PluginsOf[slug]
             next == Flipped(EffectiveEnabled, p)
  <2>1. shown \in SUBSET Plugins /\ IsFiniteSet(shown)
    BY PluginsAssumption, PluginsOfAssumption, FS_Subset DEF TypeOK
  <2>2. next \subseteq shown /\ p \in shown
    BY DEF TogglePlugin, Flipped
  <2>3. slug' = slug /\ override' = Toggled(p)
    BY DEF TogglePlugin
  <2> HIDE DEF next
  <2>4. CASE Cardinality(next) = Cardinality(shown)
    <3>1. next = shown
      BY <2>1, <2>2, <2>4, FS_Subset
    <3>2. override' = {}
      BY <2>3, <2>4 DEF Toggled, next
    <3> QED BY <2>3, <3>1, <3>2 DEF EffectiveEnabled, next
  <2>5. CASE Cardinality(next) # Cardinality(shown)
    <3>1. override' = {next}
      BY <2>3, <2>5 DEF Toggled, next
    <3>2. UNION override' = next /\ override' # {}
      BY <3>1
    <3> QED BY <3>2 DEF EffectiveEnabled, next
  <2> QED BY <2>4, <2>5
<1>2. Spec => [][Flips]_vars
  BY <1>1, LiveTypes, PTL DEF Spec
<1> QED BY <1>2 DEF TogglesFlip
=============================================================================
