----------------------------- MODULE MCIncident -----------------------------
(***************************************************************************)
(* Two tasks of one tenant, a workload with one job in each; the           *)
(* controller was built for the first task.  A behaviour is about two      *)
(* tenant incidents and a job of the other task, about one tenant incident *)
(* and a job of each task, or about an action and its agent in the         *)
(* controller's own task.                                                  *)
(***************************************************************************)
EXTENDS IncidentControl, TLC

CONSTANTS ka, kb, sa, sb, ja, jb, tenant1, tenant2, action, agent

VARIABLE about

MCSpan == [x \in Realms |-> {ka, kb}]
MCHome == (sa :> ka) @@ (sb :> kb)
MCSubj == (ja :> sa) @@ (jb :> sb)
MCAction == (ja :> "read") @@ (jb :> "read")
OnTenant == [kind |-> "tenant", subject |-> "none", action |-> "none"]
MCAsk == (tenant1 :> OnTenant) @@ (tenant2 :> OnTenant)
         @@ (action :> [kind |-> "action", subject |-> sa, action |-> "read"])
         @@ (agent :> [kind |-> "agent", subject |-> sa, action |-> "none"])

Incidents ==
    {[signals |-> {tenant1, tenant2}, jobs |-> {jb}, scopes |-> {ka, kb}, faults |-> 0],
     [signals |-> {tenant1}, jobs |-> {ja, jb}, scopes |-> {ka, kb}, faults |-> 1],
     [signals |-> {action, agent, "none"}, jobs |-> {ja}, scopes |-> {ka}, faults |-> 1]}

\* Only the third has fences without a signal: leases that are given up.  In the
\* first no process fails: no crash and no failing notification.
Within ==
    /\ \A g \in Signals \ about.signals : incident'[g] = Unused
    /\ \A j \in Jobs \ about.jobs : broker'[j] = "none"
    /\ \A k \in Scopes : /\ \A e \in DOMAIN intents'[k] : intents'[k][e].signal \in about.signals
                         /\ k \notin about.scopes => owner'[k] = owner[k] /\ intents'[k] = <<>>
    /\ crashes' <= about.faults
    /\ about.faults = 0 => \A g \in Signals : ~incident'[g].error

MCInit ==
    /\ Init
    /\ about \in Incidents
MCNext == Next /\ Within /\ UNCHANGED about
MCSpec == MCInit /\ [][MCNext]_<<vars, about>> /\ WF_vars(\E g \in Signals : Notify(g))
=============================================================================
