----------------------------- MODULE BindingMC -----------------------------
(* An instance of Binding for TLC.                                         *)
EXTENDS Binding, TLC

CONSTANTS a1, a2, c1, c2, t1, t2

Reg(adapter, client, tenant, default, caps) ==
  [adapter |-> adapter, client |-> client, tenant |-> tenant,
   default |-> default, caps |-> caps]

\* Two clients of one adapter, for everybody and for a tenant, and a second
\* adapter; one default, two or none; every capability somewhere missing.
Registrations == {
  Reg(a1, c1, Empty, FALSE, {"root"}), Reg(a1, c1, Empty, TRUE, {"root", "options"}),
  Reg(a1, c1, t1, FALSE, {"root", "options"}),
  Reg(a1, c2, Empty, FALSE, {"root", "options"}), Reg(a1, c2, Empty, TRUE, {"root"}),
  Reg(a1, c2, t1, FALSE, {}), Reg(a1, c1, t2, FALSE, {"root"}),
  Reg(a2, c1, Empty, FALSE, {"root", "options"})}
=============================================================================
