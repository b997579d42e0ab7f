--------------------------- MODULE MCOperationSubs ---------------------------
(* OperationSubs for TLC: two operations with two names, and the provider  *)
(* configurations in three families, since what the fields of one do never *)
(* depends on those of another.                                            *)
EXTENDS OperationSubs, TLC

CONSTANTS o1, o2, send, ping

OneOp    == {o1}
TwoOps   == {o1, o2}
TwoNames == {send, ping}
OpSymmetry == Permutations(TwoOps)

Default ==
  [enable_operation_subs |-> TRUE, operation_subs_mode |-> "other",
   include_denied_ops |-> TRUE, payload_policy |-> "other",
   drop_payloads |-> FALSE, exclude_ops |-> {},
   include_tenant |-> TRUE, include_team |-> TRUE,
   include_team_in_metrics |-> FALSE, hash_ids |-> FALSE]

(* The configurations that differ in what is emitted ...                   *)
Disabled == [Default EXCEPT !.enable_operation_subs = FALSE]

Selecting ==
  {[Default EXCEPT !.operation_subs_mode = m, !.include_denied_ops = d,
                   !.exclude_ops = ex] :
     m \in SubsModes, d \in BOOLEAN, ex \in {{}, {ping}}}

(* ... in what is said about the payload ...                               *)
Describing ==
  {[Default EXCEPT !.payload_policy = p, !.drop_payloads = dr] :
     p \in Policies, dr \in BOOLEAN}

(* ... and in what is said about the tenant and the team.                  *)
Attributing ==
  {[Default EXCEPT !.include_tenant = te, !.include_team = tm,
                   !.include_team_in_metrics = tl, !.hash_ids = h] :
     te \in BOOLEAN, tm \in BOOLEAN, tl \in BOOLEAN, h \in BOOLEAN}

AllProviders == {Disabled} \cup Selecting \cup Describing \cup Attributing
Excluding    == {[Default EXCEPT !.exclude_ops = {ping}]}
==============================================================================
