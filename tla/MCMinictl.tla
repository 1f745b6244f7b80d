------------------------------- MODULE MCMinictl -------------------------------
(* Constants for the runs that check Minictl: one plane of each provider, and two of
   one provider, which tear down each other's domains and records. *)
EXTENDS Minictl

CONSTANTS p1, p2

MCPlanes == {p1, p2}

Setup(first, second, serve, front, commands, failures) ==
  [provider |-> [p \in MCPlanes |-> IF p = p1 THEN first ELSE second],
   serving |-> serve, fronted |-> front, deploys |-> commands, faults |-> failures]

MCScenarios ==
  {Setup("aliyun", "tencent", {p1, p2}, {}, 2, 1),
   Setup("aliyun", "tencent", {p1}, {p1}, 1, 1),
   Setup("aliyun", "tencent", {p2}, {p2}, 1, 1),
   Setup("tencent", "tencent", {}, {p1, p2}, 1, 0),
   Setup("aliyun", "aliyun", {}, {p1}, 1, 1),
   Setup("aliyun", "aliyun", {}, {p1, p2}, 1, 0)}
================================================================================
