----------------------------- MODULE LiveLinting -----------------------------
(***************************************************************************)
(* Live linting in the playground of the documentation site:               *)
(* usePlaygroundState.ts keeps what is on the screen, useLiveLinting.ts    *)
(* sends it to the lint API once the user pauses, and shows the answer.    *)
(*                                                                         *)
(* The page is one thread: a handler, a render with its effects, a timer   *)
(* callback and the continuation of an await are steps, in any order.      *)
(* Effects run after the render that asks for them, and a timer or an      *)
(* answer may come between.  Findings stand for the input they were        *)
(* computed from.  Left out: the URL, the copied configuration, and the    *)
(* text of an error.                                                       *)
(***************************************************************************)
EXTENDS Naturals, FiniteSets

CONSTANTS Snippets,    \* the examples; a snippet stands for its code
          Texts,       \* what else can be in the editor
          Plugins,     \* the plugin prefixes
          PluginsOf,   \* pluginsInSnippet()
          MaxFlights   \* bound on the requests that are not settled

ASSUME PluginsAssumption == IsFiniteSet(Plugins)

ASSUME PluginsOfAssumption == PluginsOf \in [Snippets -> SUBSET Plugins]
ASSUME MaxFlightsAssumption == MaxFlights \in Nat

Codes == Snippets \cup Texts
Inputs == [code : Codes, plugins : SUBSET Plugins]

VARIABLES
    slug,      \* currentSlug
    editor,    \* editorValue
    override,  \* enabledPlugins: {} for null, {S} for the set S
    effects,   \* the effects the last render asks for: "reset", "lint"
    timer,     \* debounceRef: {} or {the input of the callback}
    flights,   \* the requests under way: [id, input, phase]
    aborted,   \* those whose controller was aborted, not yet settled
    abortRef,  \* the request of the latest controller, or 0
    findings,  \* liveFindings: {} for null, {i} for those of input i
    status,    \* lintStatus
    mounted    \* is the page still shown?

screen == <<slug, editor, override>>
network == <<flights, aborted, abortRef>>
answer == <<findings, status>>
vars == <<screen, effects, timer, network, answer, mounted>>

Ids == 1..MaxFlights

EffectiveEnabled == IF override = {} THEN PluginsOf[slug] ELSE UNION override

\* Mutant of Input: the override is sent instead of what it amounts to.
InputOverridden == [code |-> editor, plugins |-> override]

Input == [code |-> editor, plugins |-> EffectiveEnabled]

\* Any list of prefixes may be in the URL.
Init ==
    /\ slug \in Snippets
    /\ editor = slug
    /\ override \in {{}} \cup {{S} : S \in SUBSET Plugins \ {{}}}
    /\ effects = {"reset", "lint"}
    /\ timer = {} /\ flights = {} /\ aborted = {} /\ abortRef = 0
    /\ findings = {} /\ status = "idle"
    /\ mounted = TRUE

-----------------------------------------------------------------------------
(* What the user does                                                      *)

SetEditorValue(code) ==
    /\ mounted /\ code # editor
    /\ editor' = code
    /\ effects' = effects \cup {"lint"}
    /\ UNCHANGED <<slug, override, timer, network, answer, mounted>>

Flipped(base, p) == IF p \in base THEN base \ {p} ELSE base \cup {p}

\* Mutant of Toggled: an empty selection counts as none, as it does in the URL.
ToggledNever(p) ==
    LET next == Flipped(EffectiveEnabled, p)
    IN  IF next \in {{}, PluginsOf[slug]} THEN {} ELSE {next}

\* The selection is dropped when it has as many plugins as the snippet.
Toggled(p) ==
    LET next == Flipped(EffectiveEnabled, p)
    IN  IF Cardinality(next) = Cardinality(PluginsOf[slug]) THEN {} ELSE {next}

TogglePlugin(p) ==
    /\ mounted /\ p \in PluginsOf[slug]
    /\ override' = Toggled(p)
    /\ effects' = effects \cup {"lint"}
    /\ UNCHANGED <<slug, editor, timer, network, answer, mounted>>

SelectSnippet(s) ==
    /\ mounted /\ (s # slug \/ override # {})
    /\ slug' = s
    /\ override' = {}
    /\ effects' = effects \cup {"lint"} \cup IF s # slug THEN {"reset"} ELSE {}
    /\ UNCHANGED <<editor, timer, network, answer, mounted>>

\* Mutant of Unmounted: the request is left alone.
UnmountedInFlight == UNCHANGED <<flights, aborted>>

Abort(id) ==
    /\ flights' = {f \in flights : f.id # id}
    /\ aborted' = aborted \cup {f.id : f \in {f \in flights : f.id = id}}

Unmounted == Abort(abortRef)

Unmount ==
    /\ mounted
    /\ mounted' = FALSE
    /\ timer' = {} /\ effects' = {}
    /\ Unmounted
    /\ UNCHANGED <<screen, abortRef, answer>>

User ==
    \/ \E c \in Codes : SetEditorValue(c)
    \/ \E p \in Plugins : TogglePlugin(p)
    \/ \E s \in Snippets : SelectSnippet(s)
    \/ Unmount

-----------------------------------------------------------------------------
(* What the page does                                                      *)

\* Mutant of RunEffects: a timer that is set is left to fire.
RunEffectsThrottled ==
    /\ effects # {}
    /\ timer' = IF timer = {} THEN {Input} ELSE timer
    /\ editor' = IF "reset" \in effects THEN slug ELSE editor
    /\ effects' = IF editor' # editor THEN {"lint"} ELSE {}
    /\ UNCHANGED <<slug, override, network, answer, mounted>>

\* The effect of the playground runs before that of the hook, which still
\* sees the editor of its render; the reset is another render.
RunEffects ==
    /\ effects # {}
    /\ timer' = {Input}
    /\ editor' = IF "reset" \in effects THEN slug ELSE editor
    /\ effects' = IF editor' # editor THEN {"lint"} ELSE {}
    /\ UNCHANGED <<slug, override, network, answer, mounted>>

\* Mutant of Supersede: the request before is not aborted.
SupersedeNone(f) ==
    /\ flights' = flights \cup {f}
    /\ UNCHANGED aborted

Supersede(f) ==
    /\ flights' = {g \in flights : g.id # abortRef} \cup {f}
    /\ aborted' = aborted \cup {g.id : g \in {g \in flights : g.id = abortRef}}

\* lint(): the callback of the timer, with the input of its render.
Lint ==
    \E id \in Ids, input \in timer :
        /\ id \notin aborted /\ \A f \in flights : f.id # id
        /\ timer' = {}
        /\ Supersede([id |-> id, input |-> input, phase |-> "waiting"])
        /\ abortRef' = id
        /\ status' = "linting"
        /\ UNCHANGED <<screen, effects, findings, mounted>>

\* The response is there and ok; its body is still to be read.
Respond(f) ==
    /\ f \in flights /\ f.phase = "waiting"
    /\ flights' = (flights \ {f}) \cup {[f EXCEPT !.phase = "reading"]}
    /\ UNCHANGED <<screen, effects, timer, aborted, abortRef, answer, mounted>>

Answer(f) ==
    /\ f \in flights /\ f.phase = "reading"
    /\ flights' = flights \ {f}
    /\ findings' = {f.input}
    /\ status' = "done"
    /\ UNCHANGED <<screen, effects, timer, aborted, abortRef, mounted>>

\* The network fails, the response is not ok, or it has no findings.
Fail(f) ==
    /\ f \in flights
    /\ flights' = flights \ {f}
    /\ status' = "error"
    /\ UNCHANGED <<screen, effects, timer, aborted, abortRef, findings, mounted>>

\* AbortError: nothing is updated.
Superseded(id) ==
    /\ id \in aborted
    /\ aborted' = aborted \ {id}
    /\ UNCHANGED <<screen, effects, timer, flights, abortRef, answer, mounted>>

Page ==
    \/ RunEffects \/ Lint
    \/ \E f \in flights : Respond(f) \/ Answer(f) \/ Fail(f)
    \/ \E id \in Ids : Superseded(id)

Next == User \/ Page

(***************************************************************************)
(* The page goes on without the user: React runs the effects of a render,  *)
(* the browser fires a timer that is not cleared, and settles a request,   *)
(* one way or the other.                                                   *)
(***************************************************************************)
Spec == Init /\ [][Next]_vars /\ WF_vars(Page)

-----------------------------------------------------------------------------
(* Properties                                                              *)

Flights == [id : Ids, input : Inputs, phase : {"waiting", "reading"}]

TypeOK ==
    /\ slug \in Snippets /\ editor \in Codes
    /\ override \in {{}} \cup {{S} : S \in SUBSET Plugins}
    /\ effects \in SUBSET {"reset", "lint"}
    /\ timer \in {{}} \cup {{i} : i \in Inputs}
    /\ flights \in SUBSET Flights /\ aborted \in SUBSET Ids /\ abortRef \in Ids \cup {0}
    /\ findings \in {{}} \cup {{i} : i \in Inputs}
    /\ status \in {"idle", "linting", "done", "error"}
    /\ mounted \in BOOLEAN

(***************************************************************************)
(* When nothing is waiting to be sent, the status tells the truth about    *)
(* what is on the screen: "done" means that the findings are those of the  *)
(* code and the plugins shown, "linting" that exactly these are being      *)
(* linted, however the requests before them end.                           *)
(***************************************************************************)
StatusIsCurrent ==
    mounted /\ timer = {} /\ effects = {} =>
        /\ status = "done" => findings = {Input}
        /\ status = "linting" => {f.input : f \in flights} = {Input}

(***************************************************************************)
(* The spinner turns while, and only while, a request can still stop it;   *)
(* no two requests can write, and none can after the page is gone.         *)
(***************************************************************************)
OneWriter ==
    /\ Cardinality(flights) <= 1
    /\ mounted => (status = "linting" <=> flights # {})
    /\ ~mounted => flights = {}

(***************************************************************************)
(* A click on a plugin changes that plugin and no other, unless the        *)
(* selection came from a URL that names plugins the snippet does not have. *)
(***************************************************************************)
TogglesFlip ==
    [][\A p \in Plugins :
          TogglePlugin(p) /\ EffectiveEnabled \subseteq PluginsOf[slug]
          => EffectiveEnabled' = Flipped(EffectiveEnabled, p)]_vars

(***************************************************************************)
(* When the user pauses, the page comes to rest: with an error, or with    *)
(* the findings of what is on the screen.                                  *)
(***************************************************************************)
Settled == mounted => status = "error" \/ (status = "done" /\ findings = {Input})

Settles == []<><<User>>_vars \/ <>[]Settled

(***************************************************************************)
(* When the API fails, the findings shown are the static ones of the       *)
(* snippet: visibleFindings takes these while liveFindings is null.        *)
(***************************************************************************)
FallsBackOnError == mounted /\ status = "error" => findings = {}
=============================================================================
