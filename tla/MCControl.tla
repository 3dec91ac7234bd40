------------------------------ MODULE MCControl ------------------------------
(* The command lines: each verb with none of its options, with one, or with *)
(* all of them; some with --agentfs and --config.                           *)
EXTENDS ControlPlane

Line(verb, opts, globals) ==
  [verb |-> verb, opts |-> [o \in Required(verb) \cup opts |-> "typed"],
   globals |-> [g \in globals |-> "typed"]]

Choices(verb) == {{}, Optional(verb)} \cup {{o} : o \in Optional(verb)}

MCLines ==
  UNION {{Line(verb, opts, {}) : opts \in Choices(verb)} : verb \in Verbs}
    \cup {Line(verb, {}, globals) : verb \in {"init", "new", "env list"},
                                    globals \in SUBSET Globals}

MCRemoteLines == {Line("-t", {}, {}), Line("env list", {}, {}), Line("env list", {}, {"agentfs"})}
==============================================================================
