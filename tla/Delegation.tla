------------------------------ MODULE Delegation ----------------------------
(***************************************************************************)
(* Delegated authority: the issuer of ordin/assurance/delegation.py, the   *)
(* review and commit of ordin/assurance/delegating_gate.py, and the        *)
(* service of ordin/swarm/delegation.py that lends them to workloads       *)
(* authenticated by ordin/swarm/workload_auth.py.                          *)
(*                                                                         *)
(* Every operation runs under the service lock and the issuer lock, the    *)
(* forwarded effect of guarded_dispatch included, and is one action.  What *)
(* runs beside it (the clock, TLS channels, enrollments) commutes with     *)
(* recording that the effect has returned.                                 *)
(*                                                                         *)
(* An authority is a set of rights, and one authority within another is    *)
(* the subset relation.  Assurance, policy runtime, containment and human  *)
(* governance can refuse an action; what they decide is a choice here.  A  *)
(* full audit log refuses everything, as unavailability does.              *)
(***************************************************************************)
EXTENDS Integers, FiniteSets

CONSTANTS
    Workloads,      \* enrolled workloads, each a principal
    Root,           \* the workload of the issuer's own host source
    Grants,         \* grant ids, at most maximum_grants of them
    Rights,         \* what an authority may contain
    Maximum,        \* rights within the operator's and the task's maximum
    Offers,         \* terms a grant may be asked for: rights, life, depth
    Reviews,        \* calls of review
    Needs,          \* [Reviews -> SUBSET Rights]: what the action requires
    ActiveChildren, InFlight, ActionsPerGrant,   \* DelegationLimits
    AdmissionLife,  \* admission_lifetime
    MaxTime, MaxRevocations, MaxSessions, MaxContexts, MaxLosses,   \* bounds of the model
    None

ASSUME DelegationConstants ==
    /\ IsFiniteSet(Grants) /\ IsFiniteSet(Reviews)
    /\ Root \in Workloads
    /\ Maximum \subseteq Rights
    /\ Offers \subseteq [rights : SUBSET Rights, life : Nat \ {0}, depth : Nat]
    /\ Needs \in [Reviews -> SUBSET Rights]
    /\ ActiveChildren \in Nat \ {0} /\ InFlight \in Nat \ {0} /\ ActionsPerGrant \in Nat \ {0}
    /\ AdmissionLife \in Nat \ {0}
    /\ MaxTime \in Nat /\ MaxRevocations \in Nat /\ MaxSessions \in Nat
    /\ MaxContexts \in Nat /\ MaxLosses \in Nat
    /\ None \notin Workloads /\ None \notin Grants

VARIABLES
    grant,       \* issuer._issued; line is a grant with all it derives from
    revoked,     \* issuer._revoked
    used,        \* issuer._used
    slots,       \* issuer._pending: reviews that hold an operation ticket
    generation,  \* issuer._generation
    active,      \* workloads whose enrollment and registry record are not ended
    session,     \* how many TLS channels of a workload were closed or fenced
    context,     \* generation of a workload's registry context
    bound,       \* grant a context names, and the parent generation it cites
    published,   \* service._grants: grants that workloads can name
    available,   \* service._available
    epoch,       \* service._generation
    admission,   \* state of the admission of a review
    ticket,      \* what the admission was issued on
    now          \* the issuer's clock

issuer == <<grant, revoked, used, slots, generation>>
identity == <<active, session, context, bound>>
service == <<published, available, epoch, admission, ticket>>
vars == <<issuer, identity, service, now>>

Unissued == [principal |-> None, parent |-> None, rights |-> {}, expires |-> 0,
             depth |-> 0, limit |-> 0, line |-> {}]
NoTicket == [grant |-> None, session |-> 0, ancestry |-> [w \in {} |-> 0],
             generation |-> 0, epoch |-> 0, expires |-> 0]

Init ==
    /\ grant = [g \in Grants |-> Unissued]
    /\ revoked = {}
    /\ used = [g \in Grants |-> 0]
    /\ slots = {}
    /\ generation = 0
    /\ active = Workloads
    /\ session = [w \in Workloads |-> 0]
    /\ context = [w \in Workloads |-> 0]
    /\ bound = [w \in Workloads |-> [grant |-> None, cites |-> 0]]
    /\ published = {}
    /\ available = TRUE
    /\ epoch = 0
    /\ admission = [q \in Reviews |-> "none"]
    /\ ticket = [q \in Reviews |-> NoTicket]
    /\ now = 0
-----------------------------------------------------------------------------
(* What is current.                                                        *)

Issued == {g \in Grants : grant[g].principal # None}
Owner(g) == grant[g].principal
Valid(g) == g \notin revoked /\ now < grant[g].expires

\* _require_current: the grant and everything it derives from.
Current(g) == g \in Issued /\ \A h \in grant[g].line : Valid(h)

\* The workloads above w in the registry, w included.
Bound(w) == bound[w].grant # None
Superior(w) == Owner(grant[bound[w].grant].parent)
Chain(w) ==
    LET up[n \in 0 .. Cardinality(Workloads)] ==
            IF n = 0 THEN {}
            ELSE {Superior(v) : v \in {x \in {w} \cup up[n - 1] : Bound(x)}}
    IN  {w} \cup up[Cardinality(Workloads)]

\* enrollment and _live: w and all above it are enrolled and active, and each
\* names the current generation of the next.
Live(w) ==
    \A v \in Chain(w) : v \in active /\ (Bound(v) => bound[v].cites = context[Superior(v)])

\* _ancestry_digest: the workloads behind a grant and their contexts, all of
\* them live and naming no other grant.
Ancestry(g) == [w \in {Owner(h) : h \in grant[g].line} |-> context[w]]
Traceable(g) == \A h \in grant[g].line : Live(Owner(h)) /\ bound[Owner(h)].grant \in {None, h}

\* _grant, for a caller on a current channel of the grant's workload.
Usable(g) == available /\ g \in published /\ Traceable(g) /\ Current(g)

\* The tickets open on g.
Holding(g) == {q \in slots : ticket[q].grant = g}

\* _expire_admissions: a pending admission that time or a change has ended.
Lapsed(q) ==
    /\ admission[q] = "pending"
    /\ LET g == ticket[q].grant IN
        \/ now >= ticket[q].expires
        \/ ticket[q].generation # generation
        \/ ticket[q].session # session[Owner(g)]
        \/ ~Traceable(g) \/ Ancestry(g) # ticket[q].ancestry

AfterExpiry == [q \in Reviews |-> IF Lapsed(q) THEN "expired" ELSE admission[q]]
AfterFence == [q \in Reviews |-> IF admission[q] = "pending" THEN "fenced" ELSE admission[q]]
-----------------------------------------------------------------------------
(* Grants.                                                                 *)

\* A principal holds one current grant at a time.
Alone(w, p) == \A g \in Issued : Owner(g) = w => ~Valid(g)

\* _issue, below parent p (None for the root) to workload w.
Issue(g, w, p, o) ==
    /\ g \in Grants \ Issued
    /\ Alone(w, p)
    /\ o.rights \subseteq Maximum
    /\ p # None =>
         /\ w \notin {Owner(h) : h \in grant[p].line}
         /\ o.rights \subseteq grant[p].rights
         /\ now + o.life <= grant[p].expires
         /\ o.depth <= grant[p].limit /\ grant[p].depth + 1 <= o.depth
         /\ Cardinality({h \in Issued : grant[h].parent = p /\ Valid(h)}) < ActiveChildren
    /\ grant' = [grant EXCEPT ![g] =
          [principal |-> w, parent |-> p, rights |-> o.rights, expires |-> now + o.life,
           depth |-> IF p = None THEN 0 ELSE grant[p].depth + 1, limit |-> o.depth,
           line |-> {g} \cup (IF p = None THEN {} ELSE grant[p].line)]]
    /\ UNCHANGED <<revoked, used, slots, generation, identity, available, epoch,
                   admission, ticket, now>>

\* authorize_root, by the host; workloads cannot name the grant yet.
AuthorizeRoot(g, o) == Issue(g, Root, None, o) /\ UNCHANGED published

PublishRoot(g) ==
    /\ available /\ Live(Root)
    /\ g \in Issued \ published /\ Current(g)
    /\ published' = published \cup {g}
    /\ UNCHANGED <<issuer, identity, available, epoch, admission, ticket, now>>

\* issue_child; a repeated request id returns the grant it already created.
IssueChild(p, g, w, o) ==
    /\ Usable(p) /\ Live(w) /\ Issue(g, w, p, o)
    /\ published' = published \cup {g}

\* bind_delegation_context over the registry's rebind_delegation: the child's
\* context names its grant; channels, admissions and contexts on the old one
\* lapse.  Binding again what is bound changes nothing.
BindContext(g) ==
    /\ available /\ g \in published /\ grant[g].parent # None /\ Current(g)
    /\ LET w == Owner(g)
           above == Owner(grant[g].parent)
           to == [grant |-> g, cites |-> context[above]]
           step == IF bound[w] = to THEN 0 ELSE 1
           ends == {q \in Reviews : Lapsed(q) \/
                      (step = 1 /\ admission[q] = "pending" /\ w \in DOMAIN ticket[q].ancestry)} IN
        /\ w \in active /\ Live(above) /\ w \notin Chain(above)
        /\ context[w] + step <= MaxContexts
        /\ bound' = [bound EXCEPT ![w] = to]
        /\ context' = [context EXCEPT ![w] = @ + step]
        /\ session' = [session EXCEPT ![w] = @ + step]
        /\ admission' = [q \in Reviews |-> IF q \in ends THEN "expired" ELSE admission[q]]
        /\ slots' = slots \ ends
    /\ UNCHANGED <<grant, revoked, used, generation, active, published, available, epoch,
                   ticket, now>>

\* Mutant of Below: revocation reaches the children only.
BelowOnce(g) == {h \in Issued : h = g \/ grant[h].parent = g}

\* The grants that derive from g.
Below(g) == {h \in Issued : g \in grant[h].line}

\* issuer.revoke: every ticket is cleared, whoever holds it.
RevokeGrant(g) ==
    /\ g \in Issued /\ generation < MaxRevocations
    /\ revoked' = revoked \cup Below(g)
    /\ generation' = generation + 1
    /\ slots' = {}
    /\ UNCHANGED <<grant, used>>

\* revoke by a workload above, operator_revoke.
Revoke(g) ==
    /\ g \in published /\ RevokeGrant(g)
    /\ admission' = AfterFence
    /\ UNCHANGED <<identity, published, available, epoch, ticket, now>>

\* DelegatingAssuranceGate.reset revokes behind the service's back.
GateReset(g) ==
    /\ g \in published /\ RevokeGrant(g)
    /\ UNCHANGED <<identity, service, now>>
-----------------------------------------------------------------------------
(* Reviews and dispatch.                                                   *)

\* Mutant of WithinQuota: tickets not yet used do not count.
UsedWithinQuota(g, open) == Cardinality(open) < InFlight /\ used[g] < ActionsPerGrant

\* _preview_operation: the quotas of g with the tickets it has open.
WithinQuota(g, open) ==
    Cardinality(open) < InFlight /\ used[g] + Cardinality(open) < ActionsPerGrant

\* review: lapsed admissions give their slots back, then the action is judged.
\* "failed": the policy projection raised after the ticket was reserved.
Review(q, g, end) ==
    /\ admission[q] = "none" /\ Usable(g)
    /\ LET kept == {x \in slots : ~Lapsed(x)} IN
        \/ end = "refused" /\ slots' = kept
        \/ /\ end \in {"pending", "failed"}
           /\ Needs[q] \subseteq grant[g].rights
           /\ WithinQuota(g, {x \in kept : ticket[x].grant = g})
           /\ slots' = kept \cup {q}
    /\ admission' = [AfterExpiry EXCEPT ![q] = end]
    /\ ticket' = [ticket EXCEPT ![q] =
          [grant |-> g, session |-> session[Owner(g)], ancestry |-> Ancestry(g),
           generation |-> generation, epoch |-> epoch,
           expires |-> IF grant[g].expires < now + AdmissionLife
                       THEN grant[g].expires ELSE now + AdmissionLife]]
    /\ UNCHANGED <<grant, revoked, used, generation, identity, published, available, epoch, now>>

\* The channel the admission was given to is still open.
Connected(q) ==
    Live(Owner(ticket[q].grant)) /\ ticket[q].session = session[Owner(ticket[q].grant)]

\* cancel, by the workload.
Cancel(q) ==
    /\ available /\ admission[q] = "pending" /\ Connected(q)
    /\ admission' = [admission EXCEPT ![q] = "canceled"]
    /\ slots' = slots \ {q}
    /\ UNCHANGED <<grant, revoked, used, generation, identity, published, available, epoch, ticket, now>>

\* Mutant of Committable: the chain above the caller is not looked at again.
CommittableAnyway(q) ==
    LET g == ticket[q].grant IN
    /\ Owner(g) \in active /\ ticket[q].session = session[Owner(g)] /\ Current(g)
    /\ ticket[q].epoch = epoch /\ now < ticket[q].expires
    /\ q \in slots /\ ticket[q].generation = generation /\ used[g] < ActionsPerGrant

\* guarded_dispatch and commit_use: what was reviewed still holds.
Committable(q) ==
    LET g == ticket[q].grant IN
    /\ Connected(q) /\ Usable(g)
    /\ Ancestry(g) = ticket[q].ancestry
    /\ ticket[q].epoch = epoch /\ now < ticket[q].expires
    /\ q \in slots /\ ticket[q].generation = generation /\ used[g] < ActionsPerGrant

\* guarded_dispatch: the ticket is used up and the effect is run, or refused.
Dispatch(q, end) ==
    /\ available /\ admission[q] = "pending" /\ Committable(q)
    /\ admission' = [admission EXCEPT ![q] = end]
    /\ slots' = slots \ {q}
    /\ used' = [used EXCEPT ![ticket[q].grant] = @ + 1]
    /\ UNCHANGED <<grant, revoked, generation, identity, published, available, epoch, ticket, now>>

\* Mutant of Refuse: the ticket of a refused dispatch is left behind.
RefuseOnly(q) ==
    /\ available /\ admission[q] = "pending"
    /\ admission' = [admission EXCEPT ![q] = "denied"]
    /\ UNCHANGED <<issuer, identity, published, available, epoch, ticket, now>>

\* A consumed admission is refused for good.
Refuse(q) ==
    /\ available /\ admission[q] = "pending"
    /\ admission' = [admission EXCEPT ![q] = "denied"]
    /\ slots' = slots \ {q}
    /\ UNCHANGED <<grant, revoked, used, generation, identity, published, available, epoch, ticket, now>>
-----------------------------------------------------------------------------
(* Availability, policy and identity.                                      *)

\* set_available: a partition, and its end, fence what is pending.
SetAvailable ==
    /\ epoch < MaxRevocations
    /\ available' = ~available
    /\ epoch' = epoch + 1
    /\ admission' = AfterFence
    /\ slots' = {q \in slots : admission[q] # "pending"}
    /\ UNCHANGED <<grant, revoked, used, generation, identity, published, ticket, now>>

\* fence_policy: all grants, channels and pending admissions end.
FencePolicy ==
    /\ epoch < MaxRevocations /\ generation < MaxRevocations
    /\ revoked' = revoked \cup Issued
    /\ generation' = generation + 1
    /\ slots' = {}
    /\ session' = [w \in Workloads |-> session[w] + 1]
    /\ epoch' = epoch + 1
    /\ admission' = AfterFence
    /\ UNCHANGED <<grant, used, active, context, bound, published, available, ticket, now>>

\* The authenticator drops the channels of w (end of connection, expiry, fence).
CloseChannel(w) ==
    /\ session[w] < MaxSessions
    /\ session' = [session EXCEPT ![w] = @ + 1]
    /\ UNCHANGED <<issuer, active, context, bound, service, now>>

\* revoke_enrollment, or the registry context of w is paused or ended.
Deactivate(w) ==
    /\ w \in active /\ Cardinality(Workloads \ active) < MaxLosses
    /\ active' = active \ {w}
    /\ UNCHANGED <<issuer, session, context, bound, service, now>>

Tick ==
    /\ now < MaxTime
    /\ now' = now + 1
    /\ UNCHANGED <<issuer, identity, service>>

Next ==
    \/ Tick \/ SetAvailable \/ FencePolicy
    \/ \E w \in Workloads : CloseChannel(w) \/ Deactivate(w)
    \/ \E g \in Grants : PublishRoot(g) \/ BindContext(g) \/ Revoke(g) \/ GateReset(g)
    \/ \E g \in Grants, o \in Offers :
         \/ AuthorizeRoot(g, o)
         \/ \E p \in Grants, w \in Workloads : IssueChild(p, g, w, o)
    \/ \E q \in Reviews :
         \/ Cancel(q) \/ Refuse(q)
         \/ \E end \in {"completed", "uncertain"} : Dispatch(q, end)
         \/ \E g \in Grants, end \in {"pending", "failed", "refused"} : Review(q, g, end)

Spec == Init /\ [][Next]_vars
-----------------------------------------------------------------------------
(* Properties.                                                             *)

\* Grants, tickets and identities stay well formed.
TypeOK ==
    /\ grant \in [Grants -> [principal : Workloads \cup {None}, parent : Grants \cup {None},
          rights : SUBSET Rights, expires : Nat, depth : Nat, limit : Nat, line : SUBSET Grants]]
    /\ revoked \subseteq Issued /\ published \subseteq Issued
    /\ used \in [Grants -> Nat]
    /\ slots \subseteq Reviews
    /\ generation \in Nat /\ epoch \in Nat /\ now \in Nat
    /\ active \subseteq Workloads
    /\ session \in [Workloads -> Nat] /\ context \in [Workloads -> Nat]
    /\ bound \in [Workloads -> [grant : Grants \cup {None}, cites : Nat]]
    /\ available \in BOOLEAN
    /\ admission \in [Reviews -> {"none", "pending", "failed", "refused", "expired", "fenced",
                                 "canceled", "denied", "completed", "uncertain"}]
    /\ \A q \in Reviews : ticket[q].grant \in Grants \cup {None}

Forwarded == {q \in Reviews : admission[q] \in {"completed", "uncertain"}}

\* Counted over its whole life a grant lets no more actions through than its
\* quota, tickets that can still be used included, every one is counted, and the
\* grants in force under it stay within its limit.
QuotaHolds ==
    \A g \in Grants :
        /\ used[g] = Cardinality({q \in Forwarded : ticket[q].grant = g})
        /\ used[g] + Cardinality(Holding(g)) <= ActionsPerGrant
        /\ Cardinality(Holding(g)) <= InFlight
        /\ Cardinality({h \in Issued : grant[h].parent = g /\ Valid(h)}) <= ActiveChildren

\* Authority dies from the top: a grant never outlives or outranks any grant it
\* derives from, however late it was issued and in whatever order grants end.
Attenuation ==
    \A g \in Issued : \A h \in grant[g].line :
        /\ grant[g].rights \subseteq grant[h].rights \cap Maximum
        /\ h \in revoked => g \in revoked
        /\ grant[g].expires <= grant[h].expires /\ grant[g].depth <= grant[h].limit

\* A principal is never ambiguous: it holds at most one grant that is in force.
OneGrantEach ==
    \A g, h \in Issued : Owner(g) = Owner(h) /\ Valid(g) /\ Valid(h) => g = h

\* A ticket is given back on every path, so that it cannot starve its grant;
\* only a review that raised after reserving keeps one.
NoSlotLeaks == \A q \in slots : admission[q] \in {"pending", "failed"}

\* The records of issuer, gate and service agree: they are well formed, no
\* principal is ambiguous and no ticket outlives its review.
Integrity == TypeOK /\ OneGrantEach /\ NoSlotLeaks

\* An action is forwarded only on exactly the chain of workloads it was
\* reviewed for, every grant of which covers it and is in force.
ForwardedAsReviewed ==
    [][\A q \in Reviews : (q \notin Forwarded /\ q \in Forwarded') =>
          \A h \in grant[ticket[q].grant].line :
              /\ Valid(h) /\ Needs[q] \subseteq grant[h].rights
              /\ Owner(h) \in active /\ context[Owner(h)] = ticket[q].ancestry[Owner(h)]]_vars
=============================================================================
