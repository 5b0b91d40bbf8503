------------------------------ MODULE Binding ------------------------------
(***************************************************************************)
(* Which backend an execution works on: the registry (registry.go), the    *)
(* resolver (resolver.go, manager.go ResolveBinding), and what the manager *)
(* checks before it binds a UnitOfWork, begins its root or nests in it.    *)
(*                                                                         *)
(* One UnitOfWork, shared by the callers that have its context, while the  *)
(* registry grows.  A call first resolves its binding against a snapshot   *)
(* of the registry and then acts on the UnitOfWork; a refused call changes *)
(* nothing, and no property tells its errors apart.  Names are trimmed.    *)
(***************************************************************************)
EXTENDS Naturals, Sequences, Functions

CONSTANTS
  AdapterNames, ClientNames, Tenants,
  Empty,                \* the empty string
  Unset,                \* a Selector that is not Set
  DefaultAdapterName,   \* Config: a name, or Empty
  DefaultClientName,
  OptionValues,         \* read-only, an isolation level, a timeout
  Offered,              \* the registrations that the program makes
  MaxRegistrations,     \* bound: how many of them
  Callers,
  NoUnit, NoCall,       \* no UnitOfWork in the context; no call under way
  Missing, Ambiguous    \* no registration was found, or too many

Registration == [adapter : AdapterNames, client : ClientNames,
  tenant : Tenants \cup {Empty}, default : BOOLEAN,
  caps : SUBSET {"root", "options"}]   \* what its adapter can do

ASSUME OfferedAssumption == Offered \subseteq Registration /\ MaxRegistrations \in Nat
ASSUME NameAssumption ==
  /\ Empty \notin AdapterNames \cup ClientNames \cup Tenants \cup OptionValues
  /\ Unset \notin AdapterNames \cup ClientNames \cup Tenants \cup {Empty}
  /\ DefaultAdapterName \in AdapterNames \cup {Empty}
  /\ DefaultClientName \in ClientNames \cup {Empty}

VARIABLES
  config,   \* Config: is a tenant required, may options be downgraded?
  list,     \* the registrations, in order; items is the set of their keys
  unit,     \* the UnitOfWork in the context
  call,     \* what each caller has resolved
  asked     \* the options that the running callbacks have asked for

vars == <<config, list, unit, call, asked>>

-----------------------------------------------------------------------------
(* Types.                                                                  *)

Config == [requireTenant : BOOLEAN, downgrade : BOOLEAN]
Options == OptionValues \cup {Empty}

Unit == [reg : Registration, tenant : Tenants \cup {Empty},
  status : {"none", "active", "finished"}, option : Options]

\* bind: Bind, Attach, Run without a transaction.  begin, nest: InTx, and Run
\* with one, as InTransaction answered.
CallRecord == [kind : {"bind", "begin", "nest"}, reg : Registration,
  tenant : Tenants \cup {Empty}, option : Options, asked : Options]

ASSUME NullAssumption ==
  /\ NoUnit \notin Unit /\ NoCall \notin CallRecord
  /\ Missing \notin Registration /\ Ambiguous \notin Registration /\ Missing # Ambiguous

InTransaction == unit # NoUnit /\ unit.status = "active"

BindingTypeOK ==
  /\ config \in Config
  /\ list \in Seq(Registration)
  /\ unit \in Unit \cup {NoUnit}
  /\ call \in [Callers -> CallRecord \cup {NoCall}]
  /\ asked \subseteq Options
  /\ asked # {} => InTransaction

Init ==
  /\ config \in Config
  /\ list = <<>>
  /\ unit = NoUnit
  /\ call = [g \in Callers |-> NoCall]
  /\ asked = {}

-----------------------------------------------------------------------------
(* The registry.                                                           *)

Registered(l) == Range(l)
BadregistrationKey(r) == <<r.adapter, r.client, r.tenant, r.default>>
registrationKey(r) == <<r.adapter, r.client, r.tenant>>

\* normalizeRegistration lets through what Registration describes.
Register(r) ==
  /\ Len(list) < MaxRegistrations
  /\ \A other \in Registered(list) : registrationKey(other) # registrationKey(r)
  /\ list' = Append(list, r)
  /\ UNCHANGED <<config, unit, call, asked>>

-----------------------------------------------------------------------------
(* What a call selects.                                                    *)

Field == {"adapter", "client", "tenant"}
Selectors == [adapter : AdapterNames \cup {Empty, Unset},
  client : ClientNames \cup {Empty, Unset}, tenant : Tenants \cup {Empty, Unset}]

Conflict(mode, request, override) ==
  /\ mode = "explicit"
  /\ \E f \in Field : /\ Unset \notin {request[f], override[f]}
                      /\ request[f] # override[f]

\* An ambient call prefers the override of its context, an explicit call its
\* own request.
mergeSelectors(mode, request, override) ==
  LET first == IF mode = "ambient" THEN override ELSE request
      second == IF mode = "ambient" THEN request ELSE override
  IN [f \in Field |-> IF first[f] # Unset THEN first[f] ELSE second[f]]

\* The configured default fills a name that is not set or set to nothing.
Defaulted(value, default) == IF value \in {Empty, Unset} THEN default ELSE value
WithDefaults(sel) == [
  adapter |-> Defaulted(sel.adapter, DefaultAdapterName),
  client |-> Defaulted(sel.client, DefaultClientName),
  tenant |-> sel.tenant]

Requests == [mode : {"ambient", "explicit"}, request : Selectors, override : Selectors]
Selections ==
  {WithDefaults(mergeSelectors(m.mode, m.request, m.override)) :
     m \in {n \in Requests : ~Conflict(n.mode, n.request, n.override)}}

Choice(value, derived) == [value |-> value, derived |-> derived]

\* The tenants that a call may resolve to: the one selected, or else the one
\* that the tenant policy derives, or none unless one is required.
NoTenant == IF config.requireTenant THEN {} ELSE {Choice(Empty, FALSE)}
Derived == {Choice(t, TRUE) : t \in Tenants}
resolveTenant(selector) ==
  IF selector \in Tenants THEN {Choice(selector, FALSE)}
  ELSE IF selector = Empty THEN NoTenant
  ELSE Derived \cup NoTenant

-----------------------------------------------------------------------------
(* The choice of a registration.  Candidates are a set: only the last      *)
(* resort of chooseRegistration looks at their order.                      *)

Single(S) == \E x \in S : S = {x}
Only(S) == CHOOSE x \in S : TRUE
First(l, C) == l[CHOOSE i \in DOMAIN l :
                   l[i] \in C /\ \A j \in DOMAIN l : l[j] \in C => i <= j]

AmbiguousNames(C, sel) ==
  \/ sel.adapter = Empty /\ ~Single({r.adapter : r \in C})
  \/ sel.client = Empty /\ ~Single({r.client : r \in C})

chooseRegistration(l, C, sel) ==
  LET defaults == {r \in C : r.default} IN
  IF C = {} THEN Missing
  ELSE IF Single(C) THEN Only(C)
  ELSE IF Single(defaults) THEN Only(defaults)
  ELSE IF AmbiguousNames(C, sel) THEN Ambiguous
  ELSE First(l, C)

Badfilter(l, sel) == {r \in Registered(l) : sel.adapter \in {Empty, r.adapter}}
filter(l, sel) == {r \in Registered(l) : /\ sel.adapter \in {Empty, r.adapter}
                                         /\ sel.client \in {Empty, r.client}}
OfTenant(C, tenant) == {r \in C : r.tenant = tenant}

allowFallback(tenant) == tenant.derived /\ ~config.requireTenant

\* The registration for a selection and a tenant, or Missing or Ambiguous.
ResolveBinding(l, sel, tenant) ==
  LET regs == filter(l, sel)
      exact == chooseRegistration(l, OfTenant(regs, tenant.value), sel)
      global == chooseRegistration(l, OfTenant(regs, Empty), sel)
  IN IF exact = Missing /\ allowFallback(tenant) THEN global ELSE exact

-----------------------------------------------------------------------------
(* Calls.                                                                  *)

BadInfo(b) == <<b.reg.adapter, b.reg.client>>
Info(b) == <<b.reg.adapter, b.reg.client, b.tenant>>   \* BindingInfo
\* What is left of an option when the adapter does not support it.
Supported(reg, option) == option = Empty \/ "options" \in reg.caps
Refuses(reg, option) == ~Supported(reg, option) /\ ~config.downgrade
Badeffective(reg, option) == option
effective(reg, option) == IF Supported(reg, option) THEN option ELSE Empty

\* A call resolves its binding.  To begin a root it also asks the adapter of
\* the binding that it has resolved for its capabilities.  Without a
\* UnitOfWork in the context there is one caller.
Resolve(g) ==
  /\ call[g] = NoCall
  /\ unit # NoUnit \/ \A h \in Callers : call[h] = NoCall
  /\ \E sel \in Selections, option \in Options, transaction \in BOOLEAN :
     \E tenant \in resolveTenant(sel.tenant) :
       LET reg == ResolveBinding(list, sel, tenant)
           kind == IF ~transaction THEN "bind"
                   ELSE IF InTransaction THEN "nest" ELSE "begin"
           o == IF kind = "begin" THEN effective(reg, option) ELSE option
           c == [kind |-> kind, reg |-> reg, tenant |-> tenant.value,
                 option |-> o, asked |-> option]
       IN /\ reg \notin {Missing, Ambiguous}
          /\ kind = "begin" => "root" \in reg.caps /\ ~Refuses(reg, option)
          /\ unit # NoUnit => Info(unit) = Info(c)
          /\ call' = [call EXCEPT ![g] = c]
  /\ UNCHANGED <<config, list, unit, asked>>

Fits(g, kind) == call[g] # NoCall /\ call[g].kind = kind
Answer(g) == call' = [call EXCEPT ![g] = NoCall]

New(c) == [reg |-> c.reg, tenant |-> c.tenant, status |-> "none", option |-> Empty]

Bind(g) ==
  /\ Fits(g, "bind")
  /\ unit' = IF unit = NoUnit THEN New(call[g]) ELSE unit
  /\ Answer(g)
  /\ UNCHANGED <<config, list, asked>>

\* An existing UnitOfWork keeps the binding that it has.
BeginRoot(g) ==
  /\ Fits(g, "begin")
  /\ unit # NoUnit => unit.status = "none"
  /\ unit' = [(IF unit = NoUnit THEN New(call[g]) ELSE unit)
                EXCEPT !.status = "active", !.option = call[g].option]
  /\ asked' = {call[g].asked}
  /\ Answer(g)
  /\ UNCHANGED <<config, list>>

\* validateReentrantRoot
BadReentrant(option) == TRUE
Reentrant(option) == option \in {Empty, unit.option}
BadNest(g) ==
  /\ Fits(g, "nest")
  /\ Reentrant(call[g].option)
  /\ asked' = asked \cup {call[g].asked}
  /\ Answer(g)
  /\ UNCHANGED <<config, list, unit>>
Nest(g) ==
  /\ Fits(g, "nest")
  /\ InTransaction /\ Reentrant(call[g].option)
  /\ asked' = asked \cup {call[g].asked}
  /\ Answer(g)
  /\ UNCHANGED <<config, list, unit>>

\* Or the call is refused: where BeginRoot and Nest are not enabled, and where
\* the adapter, an interceptor or the rollback-only mark is against it.
Refuse(g) ==
  /\ Fits(g, "begin") \/ Fits(g, "nest")
  /\ Answer(g)
  /\ UNCHANGED <<config, list, unit, asked>>

\* The root ends, and with it its callbacks.
Finish ==
  /\ InTransaction
  /\ unit' = [unit EXCEPT !.status = "finished"]
  /\ asked' = {}
  /\ UNCHANGED <<config, list, call>>

\* The execution is over; the next one starts from a context without a unit.
Leave ==
  /\ unit # NoUnit /\ ~InTransaction /\ \A g \in Callers : call[g] = NoCall
  /\ unit' = NoUnit
  /\ UNCHANGED <<config, list, call, asked>>

Next ==
  \/ \E r \in Offered : Register(r)
  \/ \E g \in Callers : Resolve(g) \/ Bind(g) \/ BeginRoot(g) \/ Nest(g) \/ Refuse(g)
  \/ Finish \/ Leave

Spec == Init /\ [][Next]_vars

-----------------------------------------------------------------------------
(* Properties.                                                             *)

Reordered(l, p) == [i \in DOMAIN l |-> l[p[i]]]

\* What a call resolves to does not depend on the order of registration: the
\* last resort of chooseRegistration, the first of several, is never reached.
OrderIrrelevant ==
  \A p \in Bijection(DOMAIN list, DOMAIN list), sel \in Selections :
    \A tenant \in resolveTenant(sel.tenant) :
      ResolveBinding(Reordered(list, p), sel, tenant) = ResolveBinding(list, sel, tenant)

\* No UnitOfWork works for a tenant on another tenant's registration, and none
\* falls back to a shared one where a tenant is required.  A later call, however
\* it selects its tenant, acts only on the UnitOfWork of that tenant, although
\* the UnitOfWork may be bound, begun or finished between its resolution and
\* its action.
TenantIsolation ==
  unit # NoUnit =>
    /\ unit.reg.tenant \in {Empty, unit.tenant}
    /\ config.requireTenant => unit.tenant # Empty /\ unit.reg.tenant = unit.tenant
    /\ \A g \in Callers : call[g] # NoCall => call[g].tenant = unit.tenant

\* Every callback runs in a root with the option that it has asked for, unless
\* the configuration lets options be downgraded.
OptionsGranted ==
  InTransaction => \A option \in asked :
    option \in {Empty, unit.option} \/ (config.downgrade /\ unit.option = Empty)

\* A root begins only on an adapter that can do what is asked of it, although
\* the adapter that was asked is that of a later resolution.  (A UnitOfWork
\* bound by fallback is another matter: its tenant may have registered since,
\* and then the adapter that was asked is that of the tenant.)
BeginsWithinCapabilities ==
  InTransaction /\ unit.reg.tenant = unit.tenant =>
    "root" \in unit.reg.caps /\ Supported(unit.reg, unit.option)

\* Registering does not disturb a call that selects both its adapter and its
\* client: what it resolved to it still does, unless its tenant has registered
\* in the place of a shared registration.
Displaces(new, old, tenant) ==
  old.tenant = Empty /\ new.tenant = tenant.value /\ tenant.derived
StableWhenSelected ==
  [][\A sel \in Selections : Empty \notin {sel.adapter, sel.client} =>
       \A tenant \in resolveTenant(sel.tenant) :
         LET old == ResolveBinding(list, sel, tenant)
             new == ResolveBinding(list', sel, tenant)
         IN old \in Registered(list) =>
              new = old \/ (new \in Registered(list') /\ Displaces(new, old, tenant))]_list

\* A call whose binding is not that of the UnitOfWork in its context begins no
\* root on it (root.spec.md:1054).  Only names are compared, and the registration
\* that a tenant has made since it fell back to a shared one may have the same.
BeginsOnResolved ==
  [][\A g \in Callers : BeginRoot(g) /\ unit # NoUnit => call[g].reg = unit.reg]_vars
=============================================================================
