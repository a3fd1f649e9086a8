------------------------------ MODULE MCHook ------------------------------
(* A small instance of Hook.                                               *)
EXTENDS Hook

CONSTANTS h1, h2

Words(tasks, paths, cmds, text) ==
  [tasks |-> tasks, paths |-> paths, cmds |-> cmds, text |-> text]

Lesson(id, scope, status, line, trigger, when, size) ==
  [id |-> id, scope |-> scope, status |-> status, line |-> line,
   trigger |-> trigger, when |-> when, size |-> size]

(* Three lines of which only two fit; the first to be printed is not the   *)
(* one with the lowest number.  A number that was given twice makes a text *)
(* invalid.                                                                *)
G1 == Lesson(1, "global", "enforced", 1, {}, Words({}, {"sh"}, {}, {"db"}), 2)
D1 == Lesson(1, "global", "enforced", 3, {}, Words({}, {"sh"}, {}, {}), 3)
G2 == Lesson(2, "global", "pending", 2, {"db", "add"}, NoWhen, 2)
P3 == Lesson(3, "project", "checklist", 1, {}, Words({"fix"}, {}, {"rm"}, {}),
             3)

Text(lessons, valid, parses) ==
  [lessons |-> lessons, valid |-> valid, parses |-> parses]

MCTexts ==
  [global  |-> {Text({G1, G2}, TRUE, TRUE), Text({G1, D1}, FALSE, TRUE),
                Text({G2}, TRUE, FALSE)},
   project |-> {Text({P3}, TRUE, TRUE)}]

Ev(runtime, stage, project, query, request, active, form) ==
  [runtime |-> runtime, stage |-> stage, project |-> project,
   query |-> query, request |-> request, active |-> active,
   form |-> form]

None == Words({}, {}, {}, {})
Ask  == Words({"fix"}, {"sh"}, {"rm"}, {"db", "add"})

MCEvents ==
  {Ev("claude-code", "prompt", TRUE, Ask, NoRequest, FALSE, "ok"),
   Ev("codex", "pretool", FALSE, Ask, NoRequest, FALSE, "ok"),
   Ev("claude-code", "completion", FALSE, Ask, "keep", FALSE, "ok"),
   Ev("claude-code", "completion", FALSE, None, NoRequest, FALSE, "ok"),
   Ev("claude-code", "completion", FALSE, Ask, "keep", TRUE, "ok"),
   Ev("codex", "prompt", FALSE, None, NoRequest, FALSE, "json"),
   Ev("claude-code", "completion", TRUE, Ask, "keep", FALSE, "event")}
=============================================================================
