----------------------------- MODULE MultiAgent -----------------------------
(***************************************************************************)
(* Several agents over one reality: claims recorded in the private memory  *)
(* of an agent, in that of a team, for an organization or in public, each  *)
(* with a policy for sharing it; evidence handed from agent to agent; and  *)
(* the audit log of it all, whose entries are numbered by their place.     *)
(***************************************************************************)
EXTENDS Naturals, Sequences, SequencesExt

CONSTANTS
  Agent, Team,
  Recording,  \* what agents may record: a claim, namespace, policy and author
  Membership, \* the sets of agents that a team may be registered with
  MaxAudit    \* bound of the exploration: entries in the audit log

VARIABLES
  agents,   \* registered agents
  teams,    \* the members of each registered team
  records,  \* the belief record of each claim id
  audit_log

multiAgentVars == <<agents, teams, records, audit_log>>

(***************************************************************************)
(* Who may be handed a record, and who reads it.  What was shared counts   *)
(* for records of a private namespace only.                                *)
(***************************************************************************)
AllowsExchange(policy, from, to) ==
  \/ from = to
  \/ policy.kind = "DirectAgents" /\ to \in policy.agents
  \/ policy.kind = "Team" /\ policy.team \in DOMAIN teams /\ {from, to} \subseteq teams[policy.team]
  \/ policy.kind \in {"Organization", "Public"}

CanRead(agent, r) ==
  CASE r.namespace.kind = "AgentPrivate" -> agent = r.namespace.owner \/ agent \in r.shared_with
    [] r.namespace.kind = "Team" ->
         r.namespace.team \in DOMAIN teams /\ agent \in teams[r.namespace.team]
    [] OTHER -> TRUE

Beliefs(agent) == {c \in DOMAIN records : CanRead(agent, records[c])}
TeamBeliefs(team) ==
  {c \in DOMAIN records : \/ records[c].namespace.kind = "PublicWorldState"
                          \/ records[c].namespace = [kind |-> "Team", team |-> team]}
GloballyAccepted == {c \in DOMAIN records : records[c].namespace.kind = "PublicWorldState"}

ClaimsConflict(c, d) ==
  LET left == records[c].claim
      right == records[d].claim
  IN  /\ c # d /\ left.key = right.key /\ left.object # right.object
      /\ left.from < right.until /\ right.from < left.until

ConflictsAmong(ids) == {{p[1], p[2]} : p \in {q \in ids \X ids : ClaimsConflict(q[1], q[2])}}
ConflictsForAgents(set) == ConflictsAmong(UNION {Beliefs(a) : a \in set \cap agents})

KnowledgeDelta(left, right) ==
  [left |-> Beliefs(left) \ Beliefs(right), right |-> Beliefs(right) \ Beliefs(left)]

RecommendSharing(source, target) ==
  {c \in DOMAIN records \ Beliefs(target) :
     /\ records[c].created_by = source
     /\ AllowsExchange(records[c].policy, source, target)}

(***************************************************************************)
(* The operations.                                                         *)
(***************************************************************************)
RegisterAgent(agent) ==
  /\ agents' = agents \cup {agent}
  /\ UNCHANGED <<teams, records, audit_log>>

RegisterTeam(team, members) ==
  /\ agents' = agents \cup members
  /\ teams' = [t \in DOMAIN teams \cup {team} |-> IF t = team THEN members ELSE teams[t]]
  /\ UNCHANGED <<records, audit_log>>

AppendAudit(action, actor, target, ids) ==
  /\ Len(audit_log) < MaxAudit
  /\ audit_log' = Append(audit_log,
       [action |-> action, actor |-> actor, target |-> target, claims |-> ids])

RecordMemory(m) ==
  /\ m.namespace.kind = "Team" =>
       m.namespace.team \in DOMAIN teams /\ m.by \in teams[m.namespace.team]
  /\ agents' = IF m.namespace.kind = "Team" THEN agents ELSE agents \cup {m.by}
  /\ records' = [c \in DOMAIN records \cup {m.claim.id} |->
                   IF c = m.claim.id
                   THEN [claim |-> m.claim, namespace |-> m.namespace, policy |-> m.policy,
                         created_by |-> m.by, shared_with |-> {}]
                   ELSE records[c]]
  /\ AppendAudit("MemoryRecorded", m.by, m.by, {m.claim.id})
  /\ UNCHANGED teams

\* A slip the properties must notice: anyone shares what a policy allows.
MayShareAny(from, to, c) == AllowsExchange(records[c].policy, from, to)

MayShare(from, to, c) ==
  records[c].created_by = from /\ AllowsExchange(records[c].policy, from, to)

ExchangeEvidence(from, to, ids) ==
  /\ {from, to} \subseteq agents
  /\ ids \subseteq DOMAIN records
  /\ \/ /\ \A c \in ids : MayShare(from, to, c)
        /\ records' = [c \in DOMAIN records |->
             IF c \in ids THEN [records[c] EXCEPT !.shared_with = @ \cup {to}] ELSE records[c]]
        /\ AppendAudit("EvidenceExchanged", from, to, ids)
     \/ \E refused \in ids :
          /\ ~MayShare(from, to, refused)
          /\ AppendAudit("ShareDenied", from, to, {refused})
          /\ UNCHANGED records
  /\ UNCHANGED <<agents, teams>>

MultiAgentInit ==
  agents = {} /\ teams = <<>> /\ records = <<>> /\ audit_log = <<>>

MultiAgentNext ==
  \/ \E a \in Agent \ agents : RegisterAgent(a)
  \/ \E t \in Team, members \in Membership : RegisterTeam(t, members)
  \/ \E m \in Recording : RecordMemory(m)
  \/ \E from, to \in agents : \E ids \in SUBSET DOMAIN records :
       ids # {} /\ ExchangeEvidence(from, to, ids)

(***************************************************************************)
(* A private record that another agent reads was handed to that agent by   *)
(* its owner in an exchange the audit log shows, made since the record was *)
(* last written; and every claim held has its recording in the log         *)
(* (exchange_evidence, insert_record, agent_can_read_record).              *)
(***************************************************************************)
SharingIsAudited ==
  \A c \in DOMAIN records :
    LET r == records[c]
        Entries(action) == {i \in DOMAIN audit_log :
                              audit_log[i].action = action /\ c \in audit_log[i].claims}
        written == CHOOSE i \in Entries("MemoryRecorded") :
                     \A j \in Entries("MemoryRecorded") : j <= i
    IN  /\ Entries("MemoryRecorded") # {} /\ audit_log[written].actor = r.created_by
        /\ r.namespace.kind = "AgentPrivate" =>
             \A reader \in Agent \ {r.namespace.owner} :
               CanRead(reader, r) =>
                 \E i \in Entries("EvidenceExchanged") :
                   /\ i > written
                   /\ audit_log[i].actor = r.namespace.owner /\ audit_log[i].target = reader

(***************************************************************************)
(* An exchange is whole or nothing: when an agent comes to know something  *)
(* without a claim or a team being written, the exchange just logged       *)
(* handed it over, each claim of it by its author and within its policy;   *)
(* and a private claim that was recommended for sharing is known to the    *)
(* target once the recommendation is followed (exchange_evidence,          *)
(* recommend_sharing_for_task).                                            *)
(***************************************************************************)
ExchangeIsWhole ==
  [][\A a \in Agent :
       LET entry == Last(audit_log')
           learned == Beliefs(a)' \ Beliefs(a)
       IN  /\ (/\ learned # {} /\ teams' = teams /\ DOMAIN records' = DOMAIN records
               /\ entry.action # "MemoryRecorded")
              => /\ entry.action = "EvidenceExchanged" /\ entry.target = a
                 /\ learned \subseteq entry.claims
                 /\ \A c \in entry.claims :
                      records[c].created_by = entry.actor
                      /\ AllowsExchange(records[c].policy, entry.actor, a)
           /\ Len(audit_log') > Len(audit_log) /\ entry.action = "EvidenceExchanged" /\ entry.target = a =>
                \A c \in entry.claims \cap RecommendSharing(entry.actor, a) :
                  records[c].namespace.kind = "AgentPrivate" => c \in Beliefs(a)'
    ]_multiAgentVars
=============================================================================
