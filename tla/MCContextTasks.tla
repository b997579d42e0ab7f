--------------------------- MODULE MCContextTasks ---------------------------
(* ContextTasks for TLC: two tasks and the span they share (each property  *)
(* speaks of one span), and contexts of two tenants, one of them in two    *)
(* sessions.                                                               *)
EXTENDS ContextTasks, TLC

CONSTANTS k1, k2, s1

TwoTasks == {k1, k2}
OneSpan == {s1}
Symmetry == Permutations(TwoTasks)

NoValue == "-"
FieldValues == {"acme", "umbrella", "prod", "one", "two"}
InSession(value) == With(With(New("acme"), "env", "prod"), "session", value)
ThreeContexts == {New("umbrella"), InSession("one"), InSession("two")}
OneContext == {New("umbrella")}
=============================================================================
