----------------------------- MODULE MCNetwork -----------------------------
(* Instances of NetworkControl for TLC.                                     *)
EXTENDS NetworkControl

Hub     == [parts |-> 1, first |-> "word"]
HubUser == [parts |-> 2, first |-> "word"]
Foreign == [parts |-> 3, first |-> "host"]

P(schema, external, rules, sidecars, envs, wrong) ==
  [schema |-> schema, external |-> external, rules |-> rules, sidecars |-> sidecars,
   dockerfile |-> envs # {}, envs |-> envs, faults |-> wrong]

(* The topologies: none, router, internal network, and both; two sidecars,  *)
(* a sidecar whose registry is not allowed, sidecar and custom environment. *)
MCProblems ==
  {P("none", "none", FALSE, <<>>, {}, 1),
   P("legacy", "white", TRUE, <<>>, {}, 2),
   P("new", "black", FALSE, <<Hub>>, {}, 2),
   P("new", "white", TRUE, <<Hub, HubUser>>, {}, 1),
   P("new", "white", FALSE, <<Hub, Foreign>>, {}, 1),
   P("new", "none", FALSE, <<Hub>>, {1}, 1),
   P("new", "white", TRUE, <<Hub>>, {1}, 1)}

MCRegistries == {"docker.io"}
=============================================================================
