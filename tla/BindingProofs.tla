--------------------------- MODULE BindingProofs ---------------------------
(***************************************************************************)
(* Proofs about Binding, for every set of names, tenants, options, offered *)
(* registrations and callers.                                              *)
(***************************************************************************)
EXTENDS Binding, TLAPS

KeysDistinct(l) == \A i, j \in DOMAIN l :
  registrationKey(l[i]) = registrationKey(l[j]) => i = j

-----------------------------------------------------------------------------
(* The choice of a registration.                                           *)

\* The candidates of one tenant under a selection.
Candidates(l, sel, t) == OfTenant(filter(l, sel), t)

\* What chooseRegistration answers, the last resort left out.
Pick(C) ==
  IF C = {} THEN Missing
  ELSE IF Single(C) THEN Only(C)
  ELSE IF Single({r \in C : r.default}) THEN Only({r \in C : r.default})
  ELSE Ambiguous

\* A single element is the one that is taken.
LEMMA OnlyMember == ASSUME NEW S, Single(S) PROVE Only(S) \in S /\ S = {Only(S)}
BY DEF Single, Only

\* Two candidates with the same adapter and client are one registration.
LEMMA CandidatesDiffer ==
  ASSUME NEW l, KeysDistinct(l), NEW sel, NEW t,
         NEW r \in Candidates(l, sel, t), NEW s \in Candidates(l, sel, t),
         r.adapter = s.adapter, r.client = s.client
  PROVE  r = s
<1>1. PICK i \in DOMAIN l : l[i] = r
  BY DEF Candidates, OfTenant, filter, Registered, Range
<1>2. PICK j \in DOMAIN l : l[j] = s
  BY DEF Candidates, OfTenant, filter, Registered, Range
<1>3. registrationKey(l[i]) = registrationKey(l[j])
  BY <1>1, <1>2 DEF registrationKey, Candidates, OfTenant
<1> QED BY <1>1, <1>2, <1>3 DEF KeysDistinct

\* Several candidates are ambiguous: the last resort is never reached.
LEMMA LastResortUnreached ==
  ASSUME NEW l, KeysDistinct(l), NEW sel, NEW t
  PROVE  LET C == Candidates(l, sel, t) IN
         C # {} /\ ~Single(C) => AmbiguousNames(C, sel)
<1> DEFINE C == Candidates(l, sel, t)
<1> SUFFICES ASSUME C # {}, ~AmbiguousNames(C, sel) PROVE Single(C)
  OBVIOUS
<1>1. PICK r : r \in C
  OBVIOUS
<1>2. \A s \in C : s.adapter = r.adapter
  <2>1. CASE sel.adapter = Empty
    <3>1. PICK a : {x.adapter : x \in C} = {a}
      BY <2>1 DEF AmbiguousNames, Single
    <3>2. \A s \in C : s.adapter \in {x.adapter : x \in C}
      OBVIOUS
    <3> QED BY <1>1, <3>1, <3>2
  <2>2. CASE sel.adapter # Empty
    BY <1>1, <2>2 DEF Candidates, OfTenant, filter
  <2> QED BY <2>1, <2>2
<1>3. \A s \in C : s.client = r.client
  <2>1. CASE sel.client = Empty
    <3>1. PICK a : {x.client : x \in C} = {a}
      BY <2>1 DEF AmbiguousNames, Single
    <3>2. \A s \in C : s.client \in {x.client : x \in C}
      OBVIOUS
    <3> QED BY <1>1, <3>1, <3>2
  <2>2. CASE sel.client # Empty
    BY <1>1, <2>2 DEF Candidates, OfTenant, filter
  <2> QED BY <2>1, <2>2
<1>4. \A s \in C : s = r
  BY <1>1, <1>2, <1>3, CandidatesDiffer
<1>5. C = {r}
  BY <1>1, <1>4
<1> QED BY <1>5 DEF Single

\* So chooseRegistration is a function of the set of its candidates.
LEMMA ChoosesBySet ==
  ASSUME NEW l, KeysDistinct(l), NEW sel, NEW t
  PROVE  chooseRegistration(l, Candidates(l, sel, t), sel) = Pick(Candidates(l, sel, t))
<1> DEFINE C == Candidates(l, sel, t)
<1>1. C # {} /\ ~Single(C) => AmbiguousNames(C, sel)
  BY LastResortUnreached
<1> HIDE DEF C
<1>2. chooseRegistration(l, C, sel) = Pick(C)
  BY <1>1 DEF chooseRegistration, Pick
<1> QED BY <1>2 DEF C

\* And so is ResolveBinding.
LEMMA ResolvesBySet ==
  ASSUME NEW l, KeysDistinct(l), NEW sel, NEW tenant
  PROVE  ResolveBinding(l, sel, tenant) =
           IF Pick(Candidates(l, sel, tenant.value)) = Missing /\ allowFallback(tenant)
           THEN Pick(Candidates(l, sel, Empty)) ELSE Pick(Candidates(l, sel, tenant.value))
<1>1. \A t : chooseRegistration(l, OfTenant(filter(l, sel), t), sel)
               = Pick(Candidates(l, sel, t))
  BY ChoosesBySet DEF Candidates
<1> QED BY <1>1 DEF ResolveBinding

\* The answer is a candidate, or missing when there is none, or ambiguous.
LEMMA PickFacts ==
  ASSUME NEW C \in SUBSET Registration
  PROVE  /\ Pick(C) \in C \cup {Missing, Ambiguous}
         /\ Pick(C) = Missing <=> C = {}
<1>1. CASE C = {}
  BY <1>1 DEF Pick
<1>2. CASE C # {} /\ Single(C)
  BY <1>2, OnlyMember, NullAssumption DEF Pick
<1>3. CASE C # {} /\ ~Single(C) /\ Single({r \in C : r.default})
  <2>1. Only({r \in C : r.default}) \in {r \in C : r.default}
    BY <1>3, OnlyMember
  <2> QED BY <1>3, <2>1, NullAssumption DEF Pick
<1>4. CASE C # {} /\ ~Single(C) /\ ~Single({r \in C : r.default})
  BY <1>4, NullAssumption DEF Pick
<1> QED BY <1>1, <1>2, <1>3, <1>4

\* What a binding that was found looks like: the tenant's own registration, or,
\* where falling back is allowed and the tenant has none, a shared one.
LEMMA Found ==
  ASSUME NEW l \in Seq(Registration), KeysDistinct(l), NEW sel, NEW tenant,
         NEW reg, reg = ResolveBinding(l, sel, tenant), reg \notin {Missing, Ambiguous}
  PROVE  \/ reg \in Candidates(l, sel, tenant.value)
         \/ /\ reg \in Candidates(l, sel, Empty)
            /\ Candidates(l, sel, tenant.value) = {} /\ allowFallback(tenant)
<1>1. \A t : Candidates(l, sel, t) \subseteq Registration
  BY DEF Candidates, OfTenant, filter, Registered, Range
<1>2. \A t : /\ Pick(Candidates(l, sel, t)) \in Candidates(l, sel, t) \cup {Missing, Ambiguous}
             /\ Pick(Candidates(l, sel, t)) = Missing <=> Candidates(l, sel, t) = {}
  BY <1>1, PickFacts
<1> QED BY <1>2, ResolvesBySet

\* The order of registration does not matter.
LEMMA SameSetSameBinding ==
  ASSUME NEW l \in Seq(Registration), KeysDistinct(l),
         NEW p \in Bijection(DOMAIN l, DOMAIN l), NEW sel, NEW tenant
  PROVE  ResolveBinding(Reordered(l, p), sel, tenant) = ResolveBinding(l, sel, tenant)
<1> DEFINE k == Reordered(l, p)
<1>1. DOMAIN k = DOMAIN l /\ \A i \in DOMAIN l : p[i] \in DOMAIN l /\ k[i] = l[p[i]]
  BY DEF Reordered, Bijection, Injection
<1>2. \A i, j \in DOMAIN l : p[i] = p[j] => i = j
  BY DEF Bijection, Injection, IsInjective
<1> HIDE DEF k
<1>3. KeysDistinct(k)
  BY <1>1, <1>2 DEF KeysDistinct
<1>4. Registered(k) = Registered(l)
  <2>1. \A j \in DOMAIN l : \E i \in DOMAIN l : p[i] = j
    BY DEF Bijection, Surjection
  <2>2. \A r : r \in Registered(k) <=> \E i \in DOMAIN l : r = l[p[i]]
    BY <1>1 DEF Registered, Range
  <2>3. \A r : r \in Registered(l) <=> \E i \in DOMAIN l : r = l[p[i]]
    <3>1. \A r : r \in Registered(l) <=> \E j \in DOMAIN l : r = l[j]
      BY DEF Registered, Range
    <3>2. ASSUME NEW r, NEW j \in DOMAIN l, r = l[j]
          PROVE  \E i \in DOMAIN l : r = l[p[i]]
      <4>1. PICK i \in DOMAIN l : p[i] = j
        BY <2>1
      <4> QED BY <3>2, <4>1
    <3> QED BY <1>1, <3>1, <3>2
  <2> QED BY <2>2, <2>3
<1>5. \A t : Candidates(k, sel, t) = Candidates(l, sel, t)
  BY <1>4 DEF Candidates, filter
<1>6. ResolveBinding(k, sel, tenant) = ResolveBinding(l, sel, tenant)
  BY <1>3, <1>5, ResolvesBySet
<1> QED BY <1>6 DEF k

\* What one more registration adds.
LEMMA Registering ==
  ASSUME NEW l \in Seq(Registration), KeysDistinct(l), NEW r \in Registration,
         \A other \in Registered(l) : registrationKey(other) # registrationKey(r)
  PROVE  /\ Append(l, r) \in Seq(Registration) /\ KeysDistinct(Append(l, r))
         /\ Registered(Append(l, r)) = Registered(l) \cup {r}
<1> DEFINE k == Append(l, r)
<1>1. /\ k \in Seq(Registration) /\ DOMAIN k = DOMAIN l \cup {Len(l) + 1}
      /\ \A i \in DOMAIN l : k[i] = l[i] /\ i # Len(l) + 1
      /\ k[Len(l) + 1] = r
  OBVIOUS
<1> HIDE DEF k
<1>2. Registered(k) = Registered(l) \cup {r}
  BY <1>1 DEF Registered, Range
<1>3. \A i \in DOMAIN l : registrationKey(l[i]) # registrationKey(r)
  BY DEF Registered, Range
<1>4. KeysDistinct(k)
  BY <1>1, <1>3 DEF KeysDistinct
<1> QED BY <1>1, <1>2, <1>4 DEF k

\* A tenant that a call may resolve to; none only where none is required, and
\* only a derived one falls back.
LEMMA TenantFacts ==
  ASSUME NEW selector, NEW tenant \in resolveTenant(selector)
  PROVE  /\ tenant.value \in Tenants \cup {Empty}
         /\ config.requireTenant => tenant.value # Empty
<1>1. tenant \in NoTenant => ~config.requireTenant /\ tenant.value = Empty
  BY DEF NoTenant, Choice
<1>2. tenant \notin NoTenant => tenant.value \in Tenants
  BY DEF resolveTenant, Derived, Choice
<1> QED BY <1>1, <1>2, NameAssumption

-----------------------------------------------------------------------------
(* The inductive invariant: a call that has resolved its binding is still  *)
(* right about it when it acts, whatever has been registered since.        *)

\* Both a UnitOfWork and a call are for a tenant and have a registration.
Isolated(b) ==
  /\ b.reg.tenant \in {Empty, b.tenant}
  /\ config.requireTenant => b.tenant # Empty /\ b.reg.tenant = b.tenant

\* An adapter was asked only by a call that begins a root.
Admitted(c) ==
  IF c.kind = "begin"
  THEN /\ "root" \in c.reg.caps /\ Supported(c.reg, c.option)
       /\ c.option = c.asked \/ (config.downgrade /\ c.option = Empty)
  ELSE c.option = c.asked

\* A call has found the registration of the UnitOfWork, except where that was
\* a fallback.
Agrees(u, c) == Info(u) = Info(c) /\ (u.reg.tenant = u.tenant => c.reg = u.reg)

Pending(g) == call[g] # NoCall
UnitIsolated == unit # NoUnit => Isolated(unit)
CallsOK == \A g \in Callers : Pending(g) =>
  /\ call[g].reg \in Registered(list) /\ Isolated(call[g]) /\ Admitted(call[g])
  /\ unit # NoUnit => Agrees(unit, call[g])
OneCaller == unit = NoUnit => \A g, h \in Callers : Pending(g) /\ Pending(h) => g = h

BInv ==
  /\ BindingTypeOK
  /\ KeysDistinct(list)
  /\ unit # NoUnit => unit.reg \in Registered(list)
  /\ UnitIsolated
  /\ OptionsGranted
  /\ BeginsWithinCapabilities
  /\ CallsOK
  /\ OneCaller

\* Nothing is registered, nothing under way.
LEMMA InitBInv == Init => BInv
<1> SUFFICES ASSUME Init PROVE BInv
  OBVIOUS
<1>1. BindingTypeOK /\ unit = NoUnit /\ ~InTransaction /\ \A g \in Callers : ~Pending(g)
  BY DEF Init, BindingTypeOK, InTransaction, Pending
<1>2. KeysDistinct(list)
  BY DEF Init, KeysDistinct
<1> QED BY <1>1, <1>2 DEF BInv, UnitIsolated, OptionsGranted,
          BeginsWithinCapabilities, CallsOK, OneCaller

\* One more registration leaves all that has been resolved as it was.
LEMMA RegisterBInv ==
  ASSUME BInv, NEW r \in Offered, Register(r)
  PROVE  BInv'
<1>1. r \in Registration
  BY OfferedAssumption
<1>2. /\ list' \in Seq(Registration) /\ KeysDistinct(list')
      /\ Registered(list') = Registered(list) \cup {r}
  BY <1>1, Registering DEF Register, BInv, BindingTypeOK
<1>3. UNCHANGED <<config, unit, call, asked>>
  BY DEF Register
<1>4. BindingTypeOK' /\ UnitIsolated' /\ OptionsGranted' /\ BeginsWithinCapabilities'
  BY <1>2, <1>3 DEF BInv, BindingTypeOK, UnitIsolated, Isolated, OptionsGranted,
     BeginsWithinCapabilities, InTransaction
<1>5. OneCaller'
  BY <1>3 DEF BInv, OneCaller, Pending
<1>6. CallsOK'
  BY <1>2, <1>3 DEF BInv, CallsOK, Pending, Isolated, Admitted, Agrees
<1>7. unit' # NoUnit => unit'.reg \in Registered(list')
  BY <1>2, <1>3 DEF BInv
<1> QED BY <1>2, <1>4, <1>5, <1>6, <1>7 DEF BInv

\* What a call has just resolved is registered, and its tenant's or shared.
LEMMA Resolved ==
  ASSUME list \in Seq(Registration), KeysDistinct(list),
         NEW sel, NEW tenant \in resolveTenant(sel.tenant),
         NEW reg, reg = ResolveBinding(list, sel, tenant), reg \notin {Missing, Ambiguous}
  PROVE  /\ reg \in Registered(list) /\ reg \in Registration
         /\ reg.tenant \in {Empty, tenant.value}
         /\ config.requireTenant => tenant.value # Empty /\ reg.tenant = tenant.value
<1>1. \/ reg \in Candidates(list, sel, tenant.value)
      \/ reg \in Candidates(list, sel, Empty) /\ allowFallback(tenant)
  BY Found
<1>2. reg \in Registered(list) /\ reg.tenant \in {Empty, tenant.value}
  BY <1>1 DEF Candidates, OfTenant, filter
<1>3. config.requireTenant => reg.tenant = tenant.value
  BY <1>1 DEF Candidates, OfTenant, allowFallback
<1>4. reg \in Registration
  BY <1>2 DEF Registered, Range
<1> QED BY <1>2, <1>3, <1>4, TenantFacts

\* A call whose binding has the names of the UnitOfWork's has found its
\* registration: the tenant had it registered, so nothing fell back.
LEMMA SameNamesSameRegistration ==
  ASSUME list \in Seq(Registration), KeysDistinct(list),
         NEW u, u.reg \in Registered(list), u.reg.tenant = u.tenant,
         NEW sel, NEW tenant,
         NEW reg, reg = ResolveBinding(list, sel, tenant), reg \notin {Missing, Ambiguous},
         u.reg.adapter = reg.adapter, u.reg.client = reg.client, u.tenant = tenant.value
  PROVE  reg = u.reg
<1>1. \/ reg \in Candidates(list, sel, tenant.value)
      \/ /\ reg \in Candidates(list, sel, Empty)
         /\ Candidates(list, sel, tenant.value) = {}
  BY Found
<1>2. u.reg \in Candidates(list, sel, tenant.value)
  BY <1>1 DEF Candidates, OfTenant, filter
<1> QED BY <1>1, <1>2, CandidatesDiffer

\* A call that resolves finds what CallsOK says of it.
LEMMA ResolveBInv ==
  ASSUME BInv, NEW g \in Callers, Resolve(g)
  PROVE  BInv'
<1>1. PICK sel \in Selections, option \in Options, transaction \in BOOLEAN :
      \E tenant \in resolveTenant(sel.tenant) :
       LET reg == ResolveBinding(list, sel, tenant)
           kind == IF ~transaction THEN "bind"
                   ELSE IF InTransaction THEN "nest" ELSE "begin"
           o == IF kind = "begin" THEN effective(reg, option) ELSE option
           c == [kind |-> kind, reg |-> reg, tenant |-> tenant.value,
                 option |-> o, asked |-> option]
       IN /\ reg \notin {Missing, Ambiguous}
          /\ kind = "begin" => "root" \in reg.caps /\ ~Refuses(reg, option)
          /\ unit # NoUnit => Info(unit) = Info(c)
          /\ call' = [call EXCEPT ![g] = c]
  BY DEF Resolve
<1>2. PICK tenant \in resolveTenant(sel.tenant) :
       LET reg == ResolveBinding(list, sel, tenant)
           kind == IF ~transaction THEN "bind"
                   ELSE IF InTransaction THEN "nest" ELSE "begin"
           o == IF kind = "begin" THEN effective(reg, option) ELSE option
           c == [kind |-> kind, reg |-> reg, tenant |-> tenant.value,
                 option |-> o, asked |-> option]
       IN /\ reg \notin {Missing, Ambiguous}
          /\ kind = "begin" => "root" \in reg.caps /\ ~Refuses(reg, option)
          /\ unit # NoUnit => Info(unit) = Info(c)
          /\ call' = [call EXCEPT ![g] = c]
  BY <1>1
<1> DEFINE reg == ResolveBinding(list, sel, tenant)
           kind == IF ~transaction THEN "bind"
                   ELSE IF InTransaction THEN "nest" ELSE "begin"
           o == IF kind = "begin" THEN effective(reg, option) ELSE option
           c == [kind |-> kind, reg |-> reg, tenant |-> tenant.value,
                 option |-> o, asked |-> option]
<1>3. /\ reg \notin {Missing, Ambiguous}
      /\ kind = "begin" => "root" \in reg.caps /\ ~Refuses(reg, option)
      /\ unit # NoUnit => Info(unit) = Info(c)
      /\ call' = [call EXCEPT ![g] = c]
  BY <1>2
<1>4. UNCHANGED <<config, list, unit, asked>>
  BY DEF Resolve
<1>5. list \in Seq(Registration) /\ KeysDistinct(list) /\ call \in [Callers -> CallRecord \cup {NoCall}]
  BY DEF BInv, BindingTypeOK
<1> HIDE DEF reg
<1>6. /\ reg \in Registered(list) /\ reg \in Registration
      /\ reg.tenant \in {Empty, tenant.value}
      /\ config.requireTenant => tenant.value # Empty /\ reg.tenant = tenant.value
  BY <1>3, <1>5, Resolved DEF reg
<1>7. kind \in {"bind", "begin", "nest"} /\ o \in Options
  BY DEF effective, Options
<1>8. /\ c.reg = reg /\ c.tenant = tenant.value /\ c.kind = kind /\ c.option = o
      /\ c.asked = option
  OBVIOUS
<1> HIDE DEF kind, o
<1>9. c \in CallRecord
  BY <1>6, <1>7, TenantFacts DEF CallRecord
<1>10. Isolated(c)
  BY <1>6, <1>8 DEF Isolated
<1>11. Admitted(c)
  <2>1. kind = "begin" => "root" \in reg.caps /\ ~Refuses(reg, option) /\ o = effective(reg, option)
    BY <1>3 DEF o
  <2>2. kind # "begin" => o = option
    BY DEF o
  <2> QED BY <1>8, <2>1, <2>2 DEF Admitted, Refuses, effective, Supported
<1>12. unit # NoUnit => Agrees(unit, c)
  <2> SUFFICES ASSUME unit # NoUnit PROVE Agrees(unit, c)
    OBVIOUS
  <2>1. Info(unit) = Info(c)
    BY <1>3
  <2>2. unit.reg.adapter = reg.adapter /\ unit.reg.client = reg.client /\ unit.tenant = tenant.value
    BY <2>1, <1>8 DEF Info
  <2>3. unit.reg.tenant = unit.tenant => reg = unit.reg
    BY <2>2, <1>3, <1>5, SameNamesSameRegistration DEF BInv, reg
  <2> QED BY <2>1, <2>3, <1>8 DEF Agrees
<1> HIDE DEF c
<1>13. \A h \in Callers : call'[h] = IF h = g THEN c ELSE call[h]
  BY <1>3, <1>5
<1>14. BindingTypeOK' /\ UnitIsolated' /\ OptionsGranted' /\ BeginsWithinCapabilities'
  BY <1>3, <1>4, <1>5, <1>9 DEF BInv, BindingTypeOK, UnitIsolated, Isolated, OptionsGranted,
     BeginsWithinCapabilities, InTransaction
<1>15. CallsOK'
  <2> SUFFICES ASSUME NEW h \in Callers, call'[h] # NoCall
               PROVE  /\ call'[h].reg \in Registered(list) /\ Isolated(call'[h])
                      /\ Admitted(call'[h]) /\ (unit # NoUnit => Agrees(unit, call'[h]))
    BY <1>4 DEF CallsOK, Pending, Isolated, Admitted, Agrees
  <2>1. CASE h = g
    BY <2>1, <1>6, <1>8, <1>10, <1>11, <1>12, <1>13
  <2>2. CASE h # g
    BY <2>2, <1>13 DEF BInv, CallsOK, Pending
  <2> QED BY <2>1, <2>2
<1>16. OneCaller'
  BY <1>4, <1>13 DEF Resolve, OneCaller, Pending
<1>17. KeysDistinct(list') /\ (unit' # NoUnit => unit'.reg \in Registered(list'))
  BY <1>4 DEF BInv
<1> QED BY <1>14, <1>15, <1>16, <1>17 DEF BInv

\* A call that has answered is no longer pending, and changes nothing else.
LEMMA Answered ==
  ASSUME BInv, NEW g \in Callers, Answer(g), UNCHANGED <<config, list>>
  PROVE  /\ call' \in [Callers -> CallRecord \cup {NoCall}]
         /\ \A h \in Callers : Pending(h)' => Pending(h) /\ h # g /\ call'[h] = call[h]
         /\ unit' = unit => CallsOK' /\ OneCaller'
<1>1. call \in [Callers -> CallRecord \cup {NoCall}]
  BY DEF BInv, BindingTypeOK
<1>2. call' \in [Callers -> CallRecord \cup {NoCall}]
  BY <1>1 DEF Answer
<1>3. \A h \in Callers : call'[h] = IF h = g THEN NoCall ELSE call[h]
  BY <1>1 DEF Answer
<1>4. \A h \in Callers : Pending(h)' => Pending(h) /\ h # g /\ call'[h] = call[h]
  BY <1>3 DEF Pending
<1>5. ASSUME unit' = unit PROVE CallsOK' /\ OneCaller'
  <2>1. CallsOK'
    BY <1>4, <1>5 DEF BInv, CallsOK, Isolated, Admitted, Agrees
  <2>2. OneCaller'
    BY <1>4, <1>5 DEF BInv, OneCaller
  <2> QED BY <2>1, <2>2
<1> QED BY <1>2, <1>4, <1>5

\* The UnitOfWork that a call makes is as good as the call.
LEMMA Made ==
  ASSUME BInv, NEW g \in Callers, Pending(g), unit = NoUnit
  PROVE  LET u == New(call[g]) IN
         /\ u \in Unit /\ u.reg \in Registered(list) /\ Isolated(u)
         /\ \A h \in Callers : Pending(h) => h = g
<1>1. call[g] \in CallRecord /\ call[g].reg \in Registered(list) /\ Isolated(call[g])
  BY DEF BInv, BindingTypeOK, CallsOK, Pending
<1>2. New(call[g]) \in Unit
  BY <1>1 DEF New, CallRecord, Unit, Options
<1>3. New(call[g]).reg = call[g].reg /\ New(call[g]).tenant = call[g].tenant
  BY DEF New
<1> QED BY <1>1, <1>2, <1>3 DEF Isolated, BInv, OneCaller

\* Bind makes a UnitOfWork, or takes the one that is there.
LEMMA BindBInv ==
  ASSUME BInv, NEW g \in Callers, Bind(g)
  PROVE  BInv'
<1>1. Pending(g) /\ Answer(g) /\ UNCHANGED <<config, list, asked>>
  BY DEF Bind, Fits, Pending
<1>2. CASE unit # NoUnit
  <2>1. unit' = unit
    BY <1>2 DEF Bind
  <2>2. BindingTypeOK' /\ UnitIsolated' /\ OptionsGranted' /\ BeginsWithinCapabilities'
    BY <1>1, <2>1, Answered DEF BInv, BindingTypeOK, UnitIsolated, Isolated, OptionsGranted,
       BeginsWithinCapabilities, InTransaction
  <2> QED BY <1>1, <2>1, <2>2, Answered DEF BInv
<1>3. CASE unit = NoUnit
  <2>1. unit' = New(call[g]) /\ unit'.status = "none"
    BY <1>3 DEF Bind, New
  <2>2. /\ unit' \in Unit /\ unit' # NoUnit /\ unit'.reg \in Registered(list')
        /\ unit'.reg.tenant \in {Empty, unit'.tenant}
        /\ config.requireTenant => unit'.tenant # Empty /\ unit'.reg.tenant = unit'.tenant
        /\ \A h \in Callers : ~Pending(h)'
    BY <1>1, <1>3, <2>1, Made, Answered, NullAssumption DEF Isolated
  <2>3. ~InTransaction' /\ asked' = {}
    BY <1>1, <1>3, <2>1 DEF InTransaction, BInv, BindingTypeOK
  <2>4. BindingTypeOK'
    BY <1>1, <2>2, <2>3, Answered DEF BInv, BindingTypeOK
  <2>5. UnitIsolated' /\ OptionsGranted' /\ BeginsWithinCapabilities'
    BY <1>1, <2>2, <2>3 DEF UnitIsolated, Isolated, OptionsGranted, BeginsWithinCapabilities
  <2>6. CallsOK' /\ OneCaller'
    BY <2>2 DEF CallsOK, OneCaller
  <2> QED BY <1>1, <2>2, <2>4, <2>5, <2>6 DEF BInv
<1> QED BY <1>2, <1>3

\* The root of a UnitOfWork begins on its registration, which is the one that
\* the call has asked, unless it was a fallback.
LEMMA BeginRootBInv ==
  ASSUME BInv, NEW g \in Callers, BeginRoot(g)
  PROVE  BInv'
<1> DEFINE u == IF unit = NoUnit THEN New(call[g]) ELSE unit
<1>1. /\ Pending(g) /\ call[g].kind = "begin" /\ Answer(g)
      /\ config' = config /\ list' = list /\ asked' = {call[g].asked}
      /\ unit' = [u EXCEPT !.status = "active", !.option = call[g].option]
  BY DEF BeginRoot, Fits, Pending
<1>2. /\ call[g] \in CallRecord /\ call[g].reg \in Registered(list)
      /\ "root" \in call[g].reg.caps /\ Supported(call[g].reg, call[g].option)
      /\ call[g].option = call[g].asked \/ (config.downgrade /\ call[g].option = Empty)
      /\ unit # NoUnit => Agrees(unit, call[g])
  BY <1>1 DEF BInv, BindingTypeOK, CallsOK, Pending, Admitted
<1>3. u \in Unit /\ u.reg \in Registered(list) /\ Isolated(u)
      /\ (u.reg.tenant = u.tenant => call[g].reg = u.reg)
      /\ Info(u) = Info(call[g])
  <2>1. CASE unit = NoUnit
    <3>1. New(call[g]).reg = call[g].reg /\ New(call[g]).tenant = call[g].tenant
      BY DEF New
    <3> QED BY <1>1, <2>1, <3>1, Made DEF Info
  <2>2. CASE unit # NoUnit
    BY <1>2, <2>2 DEF BInv, BindingTypeOK, UnitIsolated, Isolated, Agrees
  <2> QED BY <2>1, <2>2
<1> HIDE DEF u
<1>4. /\ unit' \in Unit /\ unit' # NoUnit
      /\ unit'.reg = u.reg /\ unit'.tenant = u.tenant
      /\ unit'.status = "active" /\ unit'.option = call[g].option
  <2>1. unit' \in Unit
    BY <1>1, <1>2, <1>3 DEF Unit, CallRecord
  <2> QED BY <1>1, <1>3, <2>1, NullAssumption DEF Unit
<1>5. BindingTypeOK'
  <2>1. call[g].asked \in Options
    BY <1>2 DEF CallRecord
  <2> QED BY <1>1, <1>4, <2>1, Answered DEF BInv, BindingTypeOK, InTransaction
<1>6. UnitIsolated'
  BY <1>1, <1>3, <1>4 DEF UnitIsolated, Isolated
<1>7. OptionsGranted'
  BY <1>1, <1>2, <1>4 DEF OptionsGranted
<1>8. BeginsWithinCapabilities'
  BY <1>2, <1>3, <1>4 DEF BeginsWithinCapabilities, Supported
<1>9. CallsOK'
  <2> SUFFICES ASSUME NEW h \in Callers, Pending(h)'
               PROVE  /\ call'[h].reg \in Registered(list') /\ Isolated(call[h])
                      /\ Admitted(call[h]) /\ call'[h] = call[h]
                      /\ Agrees(unit', call[h])
    BY <1>1 DEF CallsOK, Isolated, Admitted
  <2>1. Pending(h) /\ h # g /\ call'[h] = call[h]
    BY <1>1, Answered
  <2>2. unit # NoUnit
    BY <1>1, <2>1 DEF BInv, OneCaller
  <2>3. Agrees(unit', call[h])
    BY <1>4, <2>1, <2>2 DEF u, BInv, CallsOK, Agrees, Info
  <2> QED BY <1>1, <2>1, <2>3 DEF BInv, CallsOK
<1>10. OneCaller'
  BY <1>4 DEF OneCaller
<1> QED BY <1>1, <1>3, <1>4, <1>5, <1>6, <1>7, <1>8, <1>9, <1>10 DEF BInv

\* A call that nests asks for nothing that the root does not have.
LEMMA NestBInv ==
  ASSUME BInv, NEW g \in Callers, Nest(g)
  PROVE  BInv'
<1>1. /\ Pending(g) /\ call[g].kind = "nest" /\ InTransaction /\ Reentrant(call[g].option)
      /\ asked' = asked \cup {call[g].asked} /\ Answer(g)
      /\ config' = config /\ list' = list /\ unit' = unit
  BY DEF Nest, Fits, Pending
<1>2. call[g] \in CallRecord /\ call[g].option = call[g].asked
  BY <1>1 DEF BInv, BindingTypeOK, CallsOK, Pending, Admitted
<1>3. BindingTypeOK'
  <2>1. call[g].asked \in Options
    BY <1>2 DEF CallRecord
  <2> QED BY <1>1, <2>1, Answered DEF BInv, BindingTypeOK, InTransaction
<1>4. OptionsGranted'
  BY <1>1, <1>2 DEF BInv, OptionsGranted, InTransaction, Reentrant
<1>5. UnitIsolated' /\ BeginsWithinCapabilities'
  BY <1>1 DEF BInv, UnitIsolated, Isolated, BeginsWithinCapabilities, InTransaction
<1> QED BY <1>1, <1>3, <1>4, <1>5, Answered DEF BInv

\* A refused call changes nothing.
LEMMA RefuseBInv ==
  ASSUME BInv, NEW g \in Callers, Refuse(g)
  PROVE  BInv'
<1>1. Answer(g) /\ config' = config /\ list' = list /\ unit' = unit /\ asked' = asked
  BY DEF Refuse
<1>2. BindingTypeOK' /\ UnitIsolated' /\ OptionsGranted' /\ BeginsWithinCapabilities'
  BY <1>1, Answered DEF BInv, BindingTypeOK, UnitIsolated, Isolated, OptionsGranted,
     BeginsWithinCapabilities, InTransaction
<1> QED BY <1>1, <1>2, Answered DEF BInv

\* A root that has ended keeps its UnitOfWork's binding.
LEMMA FinishBInv ==
  ASSUME BInv, Finish
  PROVE  BInv'
<1>1. /\ unit \in Unit /\ unit # NoUnit /\ unit' = [unit EXCEPT !.status = "finished"]
      /\ asked' = {} /\ config' = config /\ list' = list /\ call' = call
  BY DEF Finish, InTransaction, BInv, BindingTypeOK
<1>2. /\ unit' \in Unit /\ unit' # NoUnit /\ unit'.status = "finished"
      /\ unit'.reg = unit.reg /\ unit'.tenant = unit.tenant
  BY <1>1, NullAssumption DEF Unit
<1>3. ~InTransaction'
  BY <1>2 DEF InTransaction
<1>4. BindingTypeOK' /\ UnitIsolated' /\ OptionsGranted' /\ BeginsWithinCapabilities'
  BY <1>1, <1>2, <1>3 DEF BInv, BindingTypeOK, UnitIsolated, Isolated, OptionsGranted,
     BeginsWithinCapabilities
<1>5. CallsOK' /\ OneCaller'
  BY <1>1, <1>2 DEF BInv, CallsOK, OneCaller, Pending, Isolated, Admitted, Agrees, Info
<1> QED BY <1>1, <1>2, <1>4, <1>5 DEF BInv

\* An execution is over only when no call is under way.
LEMMA LeaveBInv ==
  ASSUME BInv, Leave
  PROVE  BInv'
<1>1. /\ unit' = NoUnit /\ config' = config /\ list' = list /\ call' = call
      /\ asked' = asked /\ ~InTransaction /\ \A g \in Callers : ~Pending(g)
  BY DEF Leave, Pending
<1>2. ~InTransaction' /\ \A g \in Callers : ~Pending(g)'
  BY <1>1 DEF InTransaction, Pending
<1>3. BindingTypeOK'
  BY <1>1, <1>2 DEF BInv, BindingTypeOK
<1>4. UnitIsolated' /\ OptionsGranted' /\ BeginsWithinCapabilities' /\ CallsOK' /\ OneCaller'
  BY <1>1, <1>2 DEF UnitIsolated, OptionsGranted, BeginsWithinCapabilities, CallsOK, OneCaller
<1> QED BY <1>1, <1>3, <1>4 DEF BInv

\* The invariant is inductive.
LEMMA BInvInductive == BInv /\ [Next]_vars => BInv'
<1> SUFFICES ASSUME BInv, [Next]_vars PROVE BInv'
  OBVIOUS
<1>1. CASE \E r \in Offered : Register(r)
  BY <1>1, RegisterBInv
<1>2. CASE \E g \in Callers : Resolve(g)
  BY <1>2, ResolveBInv
<1>3. CASE \E g \in Callers : Bind(g)
  BY <1>3, BindBInv
<1>4. CASE \E g \in Callers : BeginRoot(g)
  BY <1>4, BeginRootBInv
<1>5. CASE \E g \in Callers : Nest(g)
  BY <1>5, NestBInv
<1>6. CASE \E g \in Callers : Refuse(g)
  BY <1>6, RefuseBInv
<1>7. CASE Finish
  BY <1>7, FinishBInv
<1>8. CASE Leave
  BY <1>8, LeaveBInv
<1>9. CASE UNCHANGED vars
  BY <1>9 DEF vars, BInv, BindingTypeOK, UnitIsolated, OptionsGranted, InTransaction,
     BeginsWithinCapabilities, CallsOK, OneCaller, Pending, Isolated, Admitted
<1> QED BY <1>1, <1>2, <1>3, <1>4, <1>5, <1>6, <1>7, <1>8, <1>9 DEF Next

LEMMA BInvInvariant == Spec => []BInv
BY InitBInv, BInvInductive, PTL DEF Spec

-----------------------------------------------------------------------------
(* The theorems.                                                           *)

\* The types, and the options of running callbacks only while there are any.
THEOREM BindingTypeCorrect == Spec => []BindingTypeOK
<1>1. BInv => BindingTypeOK
  BY DEF BInv
<1> QED BY <1>1, BInvInvariant, PTL

\* What a call resolves to does not depend on the order of registration.
THEOREM OrderDoesNotMatter == Spec => []OrderIrrelevant
<1>1. BInv => OrderIrrelevant
  BY SameSetSameBinding DEF BInv, BindingTypeOK, OrderIrrelevant
<1> QED BY <1>1, BInvInvariant, PTL

\* No UnitOfWork works for a tenant on the registration of another, nor on a
\* shared one where a tenant is required; and no call acts on the UnitOfWork of
\* another tenant than the one that it has resolved to.
THEOREM TenantsAreIsolated == Spec => []TenantIsolation
<1>1. ASSUME BInv, unit # NoUnit, NEW g \in Callers, call[g] # NoCall
      PROVE  call[g].tenant = unit.tenant
  BY <1>1 DEF BInv, CallsOK, Pending, Agrees, Info
<1>2. BInv => TenantIsolation
  BY <1>1 DEF BInv, UnitIsolated, Isolated, TenantIsolation
<1> QED BY <1>2, BInvInvariant, PTL

\* Every callback has the option that it has asked for, or the configuration
\* allows a downgrade.
THEOREM OptionsAreGranted == Spec => []OptionsGranted
<1>1. BInv => OptionsGranted
  BY DEF BInv
<1> QED BY <1>1, BInvInvariant, PTL

\* Outside fallback, the adapter that begins a root is the one that was asked
\* for its capabilities.
THEOREM BeginsAreSupported == Spec => []BeginsWithinCapabilities
<1>1. BInv => BeginsWithinCapabilities
  BY DEF BInv
<1> QED BY <1>1, BInvInvariant, PTL

\* Under a selection of both names a tenant has at most one candidate.
LEMMA SelectedCandidate ==
  ASSUME NEW l, KeysDistinct(l), NEW sel, Empty \notin {sel.adapter, sel.client},
         NEW t, NEW r \in Candidates(l, sel, t)
  PROVE  Candidates(l, sel, t) = {r} /\ Pick(Candidates(l, sel, t)) = r
<1>1. \A s \in Candidates(l, sel, t) : s.adapter = r.adapter /\ s.client = r.client
  BY DEF Candidates, OfTenant, filter
<1>2. Candidates(l, sel, t) = {r}
  BY <1>1, CandidatesDiffer
<1> HIDE DEF Candidates
<1>3. Single(Candidates(l, sel, t)) /\ Only(Candidates(l, sel, t)) = r
  BY <1>2, OnlyMember DEF Single
<1> QED BY <1>2, <1>3 DEF Pick

\* A registration leaves such a selection alone, or gives its tenant a
\* registration in the place of a shared one.
LEMMA RegisterStable ==
  ASSUME BInv, NEW r \in Offered, Register(r),
         NEW sel, Empty \notin {sel.adapter, sel.client},
         NEW tenant, ResolveBinding(list, sel, tenant) \in Registered(list)
  PROVE  LET old == ResolveBinding(list, sel, tenant)
             new == ResolveBinding(list', sel, tenant)
         IN new = old \/ (new \in Registered(list') /\ Displaces(new, old, tenant))
<1> DEFINE old == ResolveBinding(list, sel, tenant)
           new == ResolveBinding(list', sel, tenant)
           exact == Candidates(list, sel, tenant.value)
           global == Candidates(list, sel, Empty)
<1>1. /\ list \in Seq(Registration) /\ KeysDistinct(list)
      /\ KeysDistinct(list') /\ Registered(list') = Registered(list) \cup {r}
      /\ r \in Registration
  BY OfferedAssumption, Registering DEF Register, BInv, BindingTypeOK
<1>2. old \in Registration
  BY <1>1 DEF Registered, Range
<1>3. \A t : Candidates(list, sel, t) \subseteq Candidates(list', sel, t)
  BY <1>1 DEF Candidates, OfTenant, filter
<1>4. \/ old \in exact
      \/ old \in global /\ exact = {} /\ allowFallback(tenant)
  BY <1>1, <1>2, Found, NullAssumption
<1>5. CASE old \in exact
  <2>1. Pick(Candidates(list', sel, tenant.value)) = old
    BY <1>1, <1>3, <1>5, SelectedCandidate
  <2>2. old # Missing
    BY <1>2, NullAssumption
  <2>3. new = old
    BY <1>1, <2>1, <2>2, ResolvesBySet
  <2> QED BY <2>3
<1>6. CASE old \in global /\ allowFallback(tenant)
  <2>1. Pick(Candidates(list', sel, Empty)) = old
    BY <1>1, <1>3, <1>6, SelectedCandidate
  <2>2. CASE Candidates(list', sel, tenant.value) = {}
    <3>1. Pick(Candidates(list', sel, tenant.value)) = Missing
      BY <2>2 DEF Pick
    <3>2. new = old
      BY <1>1, <1>6, <2>1, <3>1, ResolvesBySet
    <3> QED BY <3>2
  <2>3. CASE Candidates(list', sel, tenant.value) # {}
    <3>1. PICK s : s \in Candidates(list', sel, tenant.value)
      BY <2>3
    <3>2. Pick(Candidates(list', sel, tenant.value)) = s
      BY <1>1, <3>1, SelectedCandidate
    <3>3. s \in Registered(list') /\ s \in Registration /\ s.tenant = tenant.value
      <4>1. s \in Registered(list') /\ s.tenant = tenant.value
        BY <3>1 DEF Candidates, OfTenant, filter
      <4>2. Registered(list) \subseteq Registration
        BY <1>1 DEF Registered, Range
      <4> QED BY <1>1, <4>1, <4>2
    <3>4. new = s
      BY <1>1, <3>2, <3>3, ResolvesBySet, NullAssumption
    <3>5. old.tenant = Empty /\ tenant.derived
      BY <1>6 DEF Candidates, OfTenant, allowFallback
    <3> QED BY <3>3, <3>4, <3>5 DEF Displaces
  <2> QED BY <2>2, <2>3
<1> QED BY <1>4, <1>5, <1>6

\* Registering does not disturb a call that selects both its adapter and its
\* client, but for a tenant's registration in the place of a shared one.
THEOREM SelectionIsStable == Spec => StableWhenSelected
<1> DEFINE Stable == \A sel \in Selections : Empty \notin {sel.adapter, sel.client} =>
       \A tenant \in resolveTenant(sel.tenant) :
         LET old == ResolveBinding(list, sel, tenant)
             new == ResolveBinding(list', sel, tenant)
         IN old \in Registered(list) =>
              new = old \/ (new \in Registered(list') /\ Displaces(new, old, tenant))
<1>1. BInv /\ [Next]_vars => [Stable]_list
  <2> SUFFICES ASSUME BInv, [Next]_vars, list' # list PROVE Stable
    OBVIOUS
  <2>1. PICK r \in Offered : Register(r)
    BY DEF Next, vars, Resolve, Bind, BeginRoot, Nest, Refuse, Finish, Leave
  <2> QED BY <2>1, RegisterStable
<1> QED BY <1>1, BInvInvariant, PTL DEF Spec, StableWhenSelected
=============================================================================
