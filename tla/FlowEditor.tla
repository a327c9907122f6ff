----------------------------- MODULE FlowEditor -----------------------------
(***************************************************************************)
(* The admin's editor of bot flows (FlowsService): flows with their entry  *)
(* step, steps with their position, type and configuration. Each request   *)
(* looks something up before it writes, without a lock; what it remembers  *)
(* may be old by then.                                                     *)
(*                                                                         *)
(* A configuration is a function from the fields given to their values:    *)
(* <<"text", t>>, <<"uuid", id>>, <<"number", n>>, <<"list", seq>>,        *)
(* <<"object", f>>, <<"key", a registered function>>.                      *)
(***************************************************************************)
EXTENDS RoutingRules

CONSTANTS StepIds,
          Flow0,     \* [flow -> [name, first]] at the start
          Steps0,    \* [step -> [flow, position, type, config]] at the start
          Functions, \* registered function keys
          LongestDelay,
          Conflicts  \* the sets of requests that may come together

VARIABLES flows,  \* [flow -> [name, first]], of the flows there are
          steps,  \* [step -> [flow, position, type, config]]
          edits,  \* the phase of each request [op, flow, step, type, config, ids, name, first] that comes
          notes,  \* what it has read
          crossed \* edits during which another one wrote

editorVars == <<flows, steps, edits, notes, crossed>>
One(set) == CHOOSE x \in set : TRUE
NoStep == "none"
NotGiven == "unset"

(***************************************************************************)
(* StepConfigValidator: strict before a step is run, lenient when saved    *)
(***************************************************************************)
NoField == <<"absent">>
Get(cfg, field) == IF field \in DOMAIN cfg THEN cfg[field] ELSE NoField
OneOf(v, kinds) == v[1] \in kinds
Texts == {"text", "uuid", "key"}
NonEmpty(v) == OneOf(v, Texts) /\ v # <<"text", "">>
OptionalId(v) == v \in {NoField, <<"text", "">>} \/ OneOf(v, {"uuid"})
RequiredId(v, strict) == IF strict THEN OneOf(v, {"uuid"}) ELSE OptionalId(v)
TextField(v, strict) == OneOf(v, Texts \cup {"absent"}) /\ (strict => NonEmpty(v))
Positive(v, top) == OneOf(v, {"absent"}) \/ (OneOf(v, {"number"}) /\ v[2] \in 1..top)

Options(cfg) == LET o == Get(cfg, "options") IN IF OneOf(o, {"list"}) THEN o[2] ELSE <<>>
MessageValid(cfg, strict) ==
  /\ TextField(Get(cfg, "text"), strict) /\ OptionalId(Get(cfg, "nextStepId"))
  /\ OneOf(Get(cfg, "options"), {"list", "absent"})
  /\ \A i \in DOMAIN Options(cfg) :
       TextField(Get(Options(cfg)[i], "label"), strict) /\ RequiredId(Get(Options(cfg)[i], "nextStepId"), strict)
  /\ Positive(Get(cfg, "timeoutSeconds"), 10 ^ 9)

FunctionValid(cfg, strict) ==
  LET key == Get(cfg, "functionKey")
      wired == Get(cfg, "onOutcome") IN
  /\ key \in {NoField, <<"text", "">>} \cup {<<"key", k>> : k \in Functions}
  /\ strict => NonEmpty(key) /\ NonEmpty(Get(cfg, "outputVariable"))
  /\ OneOf(Get(cfg, "inputs"), {"object", "absent"}) /\ OneOf(Get(cfg, "outputVariable"), Texts \cup {"absent"})
  /\ OptionalId(Get(cfg, "nextStepId"))
  /\ OneOf(wired, {"object", "absent"}) /\ (wired # NoField => \A k \in DOMAIN wired[2] : OptionalId(wired[2][k]))

(* One branch without conditions at most, and that one last.               *)
BranchValid(cfg, strict) ==
  LET given == Get(cfg, "branches") IN
  /\ OneOf(given, {"list", "absent"}) /\ (strict => OneOf(given, {"list"}) /\ given[2] # <<>>)
  /\ OneOf(given, {"list"}) => \A i \in DOMAIN given[2] :
       LET b == given[2][i] IN
       /\ RequiredId(Get(b, "nextStepId"), strict)
       /\ IF Get(b, "conditions") = NoField THEN i = Len(given[2]) ELSE TreeValid(Get(b, "conditions")[2])

HandoffValid(cfg) == OptionalId(Get(cfg, "teamId")) /\ TextField(Get(cfg, "note"), FALSE)
ResolveValid(cfg) == TextField(Get(cfg, "tag"), FALSE) /\ TextField(Get(cfg, "note"), FALSE)
DelayValid(cfg, strict) ==
  /\ Positive(Get(cfg, "amountSeconds"), LongestDelay) /\ (strict => Get(cfg, "amountSeconds") # NoField)
  /\ OptionalId(Get(cfg, "nextStepId"))

ConfigValid(type, cfg, strict) ==
  CASE type = "MESSAGE" -> MessageValid(cfg, strict)
    [] type = "FUNCTION" -> FunctionValid(cfg, strict)
    [] type = "BRANCH" -> BranchValid(cfg, strict)
    [] type = "HANDOFF" -> HandoffValid(cfg)
    [] type = "DELAY" -> DelayValid(cfg, strict)
    [] OTHER -> ResolveValid(cfg)

(***************************************************************************)
(* What the editor starts from: flows in order, as it leaves them; and the *)
(* requests: a step that is made gets an id nobody had (uuid).             *)
(***************************************************************************)
Placed(rows, f) == {rows[s].position : s \in {x \in DOMAIN rows : rows[x].flow = f}}
EditorRows ==
  /\ \A f \in DOMAIN Flow0 :
       /\ Flow0[f] = [name |-> Flow0[f].name, first |-> Flow0[f].first]
       /\ Flow0[f].first # NoStep => Flow0[f].first \in DOMAIN Steps0 /\ Steps0[Flow0[f].first].flow = f
       /\ Placed(Steps0, f) = 0 .. Cardinality({s \in DOMAIN Steps0 : Steps0[s].flow = f}) - 1
  /\ DOMAIN Steps0 \subseteq StepIds /\ IsFiniteSet(DOMAIN Steps0)
  /\ \A s \in DOMAIN Steps0 :
       LET step == Steps0[s] IN
       /\ step = [flow |-> step.flow, position |-> step.position, type |-> step.type, config |-> step.config]
       /\ step.flow \in DOMAIN Flow0 /\ step.position \in Nat /\ ConfigValid(step.type, step.config, FALSE)
EditRequests(comes) ==
  \A q \in comes :
    /\ q.op = "add" => q.step \in StepIds \ DOMAIN Steps0 /\ \A p \in comes \ {q} : p.op = "add" => p.step # q.step
    /\ q.op = "order" => q.ids \in Seq(StepIds)

ASSUME EditorAssumption == EditorRows /\ \A comes \in Conflicts : EditRequests(comes)

(***************************************************************************)
(* The stages of a request                                                 *)
(***************************************************************************)
EditOver == {"done", "refused"}
EditGoes(q, phase, note) == edits' = [edits EXCEPT ![q] = phase] /\ notes' = [notes EXCEPT ![q] = note]
Reads(q, phase, note) == EditGoes(q, phase, note) /\ UNCHANGED <<flows, steps, crossed>>
EditRefused(q) == Reads(q, "refused", notes[q])
(* What a write does to the requests that have read before it.             *)
EditWrote(q) == crossed' = crossed \cup {p \in DOMAIN edits \ {q} : edits[p] \notin EditOver \cup {"ready"}}
EndsEdit(q) == EditGoes(q, "done", notes[q]) /\ EditWrote(q)
StepsOf(f) == {s \in DOMAIN steps : steps[s].flow = f}
WithRow(f, key, row) == [k \in DOMAIN f \cup {key} |-> IF k = key THEN row ELSE f[k]]
Minus(f, keys) == [k \in DOMAIN f \ keys |-> f[k]]

(* A flow's name is unique; the insert or update that repeats one fails.   *)
NameTaken(q) == \E f \in DOMAIN flows \ {q.flow} : flows[f].name = q.name
CreateFlow(q) ==
  /\ q.op = "create" /\ edits[q] = "ready"
  /\ IF NameTaken(q) THEN EditRefused(q)
     ELSE flows' = WithRow(flows, q.flow, [name |-> q.name, first |-> NoStep]) /\ EndsEdit(q) /\ UNCHANGED steps

BelongsAnywhere(q) == q.first # NotGiven => q.first \in DOMAIN steps

Belongs(q) == q.first # NotGiven => q.first \in StepsOf(q.flow)
UpdateFlowFinds(q) ==
  /\ q.op = "update" /\ edits[q] = "ready"
  /\ IF q.flow \in DOMAIN flows /\ Belongs(q)
       THEN Reads(q, "found", notes[q]) ELSE EditRefused(q)
(* The foreign key refuses an entry step that has gone meanwhile.          *)
UpdateFlowWrites(q) ==
  /\ q.op = "update" /\ edits[q] = "found"
  /\ IF q.flow \notin DOMAIN flows \/ (q.first # NotGiven /\ q.first \notin DOMAIN steps) \/ (q.name # NotGiven /\ NameTaken(q))
       THEN EditRefused(q)
     ELSE /\ flows' = [flows EXCEPT ![q.flow] = [name |-> IF q.name = NotGiven THEN @.name ELSE q.name,
                                                 first |-> IF q.first = NotGiven THEN @.first ELSE q.first]]
          /\ EndsEdit(q) /\ UNCHANGED steps

(* The steps of a flow go with it.                                         *)
RemoveFlow(q) ==
  /\ q.op = "remove" /\ edits[q] = "ready"
  /\ IF q.flow \notin DOMAIN flows THEN EditRefused(q)
     ELSE flows' = Minus(flows, {q.flow}) /\ steps' = Minus(steps, StepsOf(q.flow)) /\ EndsEdit(q)

AddStepFinds(q) ==
  /\ q.op = "add" /\ edits[q] = "ready"
  /\ IF q.flow \in DOMAIN flows /\ ConfigValid(q.type, One(q.config), FALSE)
       THEN Reads(q, "found", [first |-> flows[q.flow].first, position |-> 0]) ELSE EditRefused(q)
AddStepCounts(q) ==
  /\ q.op = "add" /\ edits[q] = "found"
  /\ Reads(q, "counted", [notes[q] EXCEPT !.position = Cardinality(StepsOf(q.flow))])
(* The step that was added to a flow without an entry becomes its entry.   *)
Entered(q) == IF notes[q].first = NoStep THEN [flows EXCEPT ![q.flow].first = q.step] ELSE flows
AddStepSaves(q) ==
  /\ q.op = "add" /\ edits[q] = "counted"
  /\ IF q.flow \notin DOMAIN flows THEN EditRefused(q)
     ELSE /\ steps' = WithRow(steps, q.step, [flow |-> q.flow, position |-> notes[q].position,
                                              type |-> q.type, config |-> One(q.config)])
          /\ flows' = Entered(q) /\ EndsEdit(q)

Patched(q, step) ==
  [step EXCEPT !.type = IF q.type = NotGiven THEN @ ELSE q.type, !.config = IF q.config = {} THEN @ ELSE One(q.config)]
CheckedAs(q, step) == [type |-> IF q.type = NotGiven THEN step.type ELSE q.type, config |-> step.config]

(* The type and configuration there will be, as far as it knows.           *)
Checked(q, step) == Patched(q, [type |-> step.type, config |-> step.config])
UpdateStepFinds(q) ==
  /\ q.op = "patch" /\ edits[q] = "ready"
  /\ IF q.step \in StepsOf(q.flow) /\ LET c == Checked(q, steps[q.step]) IN ConfigValid(c.type, c.config, FALSE)
       THEN Reads(q, "found", notes[q]) ELSE EditRefused(q)
UpdateStepWrites(q) ==
  /\ q.op = "patch" /\ edits[q] = "found"
  /\ steps' = IF q.step \in DOMAIN steps THEN [steps EXCEPT ![q.step] = Patched(q, @)] ELSE steps
  /\ EndsEdit(q) /\ UNCHANGED flows

RemoveStepFinds(q) ==
  /\ q.op = "drop" /\ edits[q] = "ready"
  /\ IF q.step \in StepsOf(q.flow) THEN Reads(q, "found", [first |-> NoStep, position |-> steps[q.step].position])
     ELSE EditRefused(q)
CompactedNone(ss, f, pos) == ss

(* Positions after the removed one move down by one.                       *)
Compacted(ss, f, pos) ==
  [s \in DOMAIN ss |-> IF ss[s].flow = f /\ ss[s].position > pos THEN [ss[s] EXCEPT !.position = @ - 1] ELSE ss[s]]
WithEntry(step) == flows

WithoutEntry(step) == [f \in DOMAIN flows |-> IF flows[f].first = step THEN [flows[f] EXCEPT !.first = NoStep] ELSE flows[f]]
RemoveStepWrites(q) ==
  /\ q.op = "drop" /\ edits[q] = "found"
  /\ IF q.flow \notin DOMAIN flows THEN EditRefused(q)
     ELSE /\ steps' = Compacted(Minus(steps, {q.step}), q.flow, notes[q].position)
          /\ flows' = WithoutEntry(q.step) /\ EndsEdit(q)

(* Every step of the flow, once each.                                      *)
ReorderStepsFinds(q) ==
  /\ q.op = "order" /\ edits[q] = "ready"
  /\ IF Len(q.ids) = Cardinality(StepsOf(q.flow)) /\ IsInjective(q.ids) /\ ToSet(q.ids) \subseteq StepsOf(q.flow)
       THEN Reads(q, "found", notes[q]) ELSE EditRefused(q)
ReorderStepsWrites(q) ==
  /\ q.op = "order" /\ edits[q] = "found"
  /\ steps' = [s \in DOMAIN steps |-> IF s \in ToSet(q.ids)
                 THEN [steps[s] EXCEPT !.position = (CHOOSE i \in DOMAIN q.ids : q.ids[i] = s) - 1] ELSE steps[s]]
  /\ EndsEdit(q) /\ UNCHANGED flows

EditorInit(comes) ==
  /\ flows = Flow0 /\ steps = Steps0
  /\ edits = [q \in comes |-> "ready"] /\ notes = [q \in comes |-> [first |-> NoStep, position |-> 0]] /\ crossed = {}
EditStep(q) ==
  \/ CreateFlow(q) \/ UpdateFlowFinds(q) \/ UpdateFlowWrites(q) \/ RemoveFlow(q)
  \/ AddStepFinds(q) \/ AddStepCounts(q) \/ AddStepSaves(q) \/ UpdateStepFinds(q) \/ UpdateStepWrites(q)
  \/ RemoveStepFinds(q) \/ RemoveStepWrites(q) \/ ReorderStepsFinds(q) \/ ReorderStepsWrites(q)
EditorNext == \E q \in DOMAIN edits : EditStep(q)
EditorSpec == (\E comes \in Conflicts : EditorInit(comes)) /\ [][EditorNext]_editorVars
----------------------------------------------------------------------------
EditorTypeOK ==
  /\ \A f \in DOMAIN flows : flows[f].first \in DOMAIN steps \cup {NoStep}
  /\ DOMAIN steps \subseteq StepIds
  /\ \A s \in DOMAIN steps : steps[s].flow \in DOMAIN flows /\ steps[s].position \in Nat
  /\ edits \in [DOMAIN edits -> {"ready", "found", "counted"} \cup EditOver] /\ crossed \subseteq DOMAIN edits

(* The entry of a flow is one of its own steps, whatever is removed while  *)
(* it is chosen.                                                           *)
EntryIsOwn == \A f \in DOMAIN flows : flows[f].first # NoStep => flows[f].first \in StepsOf(f)

(* The steps of a flow sit at 0..N-1 unless two edits of it overlapped.    *)
PositionsDense ==
  \A f \in DOMAIN flows :
    (\A q \in crossed : q.flow # f) => {steps[s].position : s \in StepsOf(f)} = 0..(Cardinality(StepsOf(f)) - 1)

(* A stored configuration suits its step's type, unless one edit changed   *)
(* the type while another changed the configuration.                       *)
ConfigSuits ==
  \A s \in DOMAIN steps :
    \/ ConfigValid(steps[s].type, steps[s].config, FALSE)
    \/ \E q \in crossed : q.op = "patch" /\ q.step = s

(* Overlapping edits leave a flow that can be run, with its own entry,     *)
(* dense positions and configurations of their types (FlowsService).       *)
EditorSound == EditorTypeOK /\ EntryIsOwn /\ PositionsDense /\ ConfigSuits
=============================================================================
