----------------------------- MODULE Generation -----------------------------
(***************************************************************************)
(* What generate/yaml_gen.py makes of a design, as far as names go: whether *)
(* it renders at all, which integrations the render loads, which ids it    *)
(* emits, and what becomes of the automations and the display widgets;     *)
(* with the warnings of intent.py and generate/display_intent.py about     *)
(* what is left out.                                                       *)
(***************************************************************************)
EXTENDS Designs

\* A part's template: reads gives what it cannot do without ("bus", "parent"
\* and pin roles), loads the integrations it names, emits whether it carries
\* the component's id; an empty template is never rendered.
Templated(d) == {c \in DOMAIN d.comps : Parts[d.comps[c].lib].template}
ConnsOf(d, id) == {i \in DOMAIN d.conns : d.conns[i].comp = id}

\* _bus_for and _parent_for take the first connection that leads somewhere.
LeadsTo(d, id, kind, things) ==
    {i \in ConnsOf(d, id) : /\ d.conns[i].target.kind = kind
                            /\ d.conns[i].target.to \in Ids(things)}

\* _pins_for: the roles that have a pin, be it an empty one.
PinnedRoles(d, id) ==
    {d.conns[i].role : i \in {j \in ConnsOf(d, id) :
                                d.conns[j].target.kind \in {"gpio", "expander_pin"}}}

\* render_component raises nothing.
ComponentRenders(d, comp) ==
    LET reads == Parts[comp.lib].reads IN
      /\ \A i \in ConnsOf(d, comp.id) :
            d.conns[i].target.kind = "expander_pin" => d.conns[i].target.to \in Ids(d.comps)
      /\ "bus" \in reads => LeadsTo(d, comp.id, "bus", d.buses) # {}
      /\ "parent" \in reads => LeadsTo(d, comp.id, "component", d.comps) # {}
      /\ reads \ {"bus", "parent"} \subseteq PinnedRoles(d, comp.id)

Renders(d) ==
    /\ d.board \in DOMAIN Boards
    /\ \A c \in DOMAIN d.comps : d.comps[c].lib \in DOMAIN Parts
    /\ \A c \in Templated(d) : ComponentRenders(d, d.comps[c])

\* The integrations build_yaml_dict loads; the one of a bus by its type.
BusIntegration(type) ==
    CASE type = "i2s" -> <<"i2s_audio", 0>> [] type = "1wire" -> <<"one_wire", 0>>
      [] OTHER -> <<type, 0>>
Loaded(d) ==
    {<<"esphome", 0>>, <<"logger", 0>>}
    \cup {BusIntegration(d.buses[b].type) : b \in DOMAIN d.buses}
    \cup UNION {Parts[d.comps[c].lib].loads : c \in Templated(d)}

\* The ids it emits: an I2S block carries none.
EmittedIds(d) ==
    {d.buses[b].id : b \in {e \in DOMAIN d.buses : d.buses[e].type # "i2s"}}
    \cup {d.comps[c].id : c \in {e \in Templated(d) : Parts[d.comps[e].lib].emits}}

\* esphome_id_conflicts: ids ESPHome refuses because the render loads an
\* integration of that name.
IdConflicts(d) == (Ids(d.comps) \cup Ids(d.buses)) \cap Loaded(d) \cap EmittedIds(d)

-----------------------------------------------------------------------------
(* Automations: [id, trigger, conditions, actions]; a trigger is a         *)
(* component's event, an action and a condition name what it must accept   *)
(* or support.  A part's capability says what it provides, accepts and     *)
(* checks, or there is none.                                               *)

Capable(d, id) == Known(d, id) /\ PartOf(d, id).cap # None
Triggers(d, t) == Capable(d, t.comp) /\ t.event \in PartOf(d, t.comp).cap.provides
Acts(d, a) == /\ Capable(d, a.comp) /\ a.action \in PartOf(d, a.comp).cap.accepts
              /\ a.song # "unknown"
Holds(d, c) == Capable(d, c.comp) /\ c.predicate \in PartOf(d, c.comp).cap.checks

\* _lower_automations: what is left of each, under its trigger's component; a
\* range entry is written for bounds whatever the event is.
Lowered(d) ==
    {[id |-> a.id, at |-> a.trigger.comp,
      actions |-> Picked(a.actions, {i \in DOMAIN a.actions : Acts(d, a.actions[i])}),
      conditions |-> Picked(a.conditions, {i \in DOMAIN a.conditions : Holds(d, a.conditions[i])}),
      range |-> a.trigger.bounds] :
        a \in {e \in d.automations : /\ Triggers(d, e.trigger)
                                     /\ \E i \in DOMAIN e.actions : Acts(d, e.actions[i])}}

\* Mutant: an unknown component is nobody's business.
Reference_Quiet(d, comp, serves) ==
    IF ~Known(d, comp) THEN {}
    ELSE IF PartOf(d, comp).cap = None THEN {"automation_component_no_capability"}
    ELSE IF serves THEN {} ELSE {"automation_unserved"}
\* validate_automations: what it says of one automation.  A component of an
\* unknown part is left to others.
Reference(d, comp, serves) ==
    IF comp \notin Ids(d.comps) THEN {"automation_unknown_component"}
    ELSE IF ~Known(d, comp) THEN {}
    ELSE IF PartOf(d, comp).cap = None THEN {"automation_component_no_capability"}
    ELSE IF serves THEN {} ELSE {"automation_unserved"}

ActionWarnings(d, act) ==
    Reference(d, act.comp, act.action \in PartOf(d, act.comp).cap.accepts)
    \cup (IF Capable(d, act.comp) /\ act.song = "unknown"
          THEN {"automation_unknown_song"} ELSE {})
    \cup (IF Capable(d, act.comp) /\ act.action = "play" /\ act.song = None
          THEN {"automation_play_needs_song"} ELSE {})

TriggerWarnings(d, t) ==
    (IF t.bounds /\ t.event # "on_value_range"
     THEN {"automation_bounds_require_value_range"} ELSE {})
    \cup (IF ~t.bounds /\ t.event = "on_value_range"
          THEN {"automation_value_range_needs_bounds"} ELSE {})
    \cup Reference(d, t.comp, Triggers(d, t))
ConditionWarnings(d, c) == Reference(d, c.comp, Holds(d, c))

AutomationWarnings(d, a) ==
    TriggerWarnings(d, a.trigger)
    \cup (UNION {ConditionWarnings(d, c) : c \in ToSet(a.conditions)})
    \cup UNION {ActionWarnings(d, act) : act \in ToSet(a.actions)}

-----------------------------------------------------------------------------
(* Displays: a component's show, the widgets on it.                        *)

Dialects == {"pixel", "character", "seven_segment"}
Shows(d) == {c \in DOMAIN d.comps : d.comps[c].show # <<>> /\ d.comps[c].lib \in DOMAIN Parts}

\* lower_show: the displays whose widgets are drawn; a lambda written by hand
\* wins over them.
Drawn(d) ==
    {c \in Shows(d) : /\ Parts[d.comps[c].lib].dialect \in Dialects
                      /\ "lambda" \notin d.comps[c].params}

\* validate_show: what it says of a display's widgets.
ShowWarnings(d, c) ==
    LET dialect == Parts[d.comps[c].lib].dialect
        show == d.comps[c].show
        values(id) == IF Capable(d, id) THEN PartOf(d, id).cap.values ELSE {}
        Of(w) == IF w.kind \notin {"text", "value", "time"} THEN {"show_unknown_widget"}
                 ELSE IF w.kind # "value" THEN {}
                 ELSE IF w.source \notin Ids(d.comps) THEN {"show_unknown_source"}
                 ELSE IF ~Known(d, w.source) THEN {}
                 ELSE IF values(w.source) = {} THEN {"show_source_not_a_sensor"}
                 ELSE IF /\ w.channel # None /\ values(w.source) \ {None} # {}
                         /\ w.channel \notin values(w.source)
                      THEN {"show_unknown_channel"} ELSE {}
    IN IF dialect \notin Dialects THEN {"show_not_a_display"}
       ELSE (IF dialect = "seven_segment" /\ Len(show) > 1 THEN {"show_too_many_widgets"} ELSE {})
            \cup UNION {Of(show[k]) : k \in DOMAIN show}
=============================================================================
