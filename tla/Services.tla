------------------------------ MODULE Services ------------------------------
(***************************************************************************)
(* The services around the graph that keep a state of their own: the agent *)
(* memory, agents that share, the cognitive cache, governance, federation  *)
(* and the snapshot files.  They share no variable, so that each one has a *)
(* specification of its own, and what it promises is a property of it.     *)
(***************************************************************************)
EXTENDS Naturals, Sequences, FiniteSets

CONSTANTS
  Reader, MemoryWrite, MaxJournal,                            \* of the agent memory
  Agent, Team, Recording, Membership, MaxExchanges,           \* of agents that share
  Key, Thing, Assertion, Reads, Summary, Capacity, MaxClock,  \* of the cache
  PolicyPrincipal, Pack, PolicyRule, PolicyTenant, MaxAudit,  \* of governance
  FederatedGraph, Asker, Entity, MaxLinks, MaxPlans, Anyone,  \* of federation
  StorageEvent, MaxEvents, MaxCrashes                         \* of the snapshot files

VARIABLES
  service, journal,
  agents, teams, records, exchange_log,
  entries, index, tracked, summaries, working_set, changed, clock,
  policy, audit_log,
  nodes, plans, aliases, members,
  events, files, job, published, backed_up, crashes

\* The assertions of a pack come from one graph, where an id names one of them.
ASSUME PackAssumption ==
  \A pack \in Pack : \A a, b \in pack.assertions : a.id = b.id => a = b

ASSUME RuleAssumption == \A r \in PolicyRule : r.kind \in {"read", "source", "memory", "redaction"}

ASSUME ThingAssumption == Reads \subseteq SUBSET Thing

\* The fields of a write that an agent asks for.
ASSUME WriteAssumption ==
  \A w \in MemoryWrite :
    w = [id |-> w.id, supersedes |-> w.supersedes, contradicts |-> w.contradicts, lifecycle |-> w.lifecycle,
         readers |-> w.readers, public |-> w.public, valid |-> w.valid, sources |-> w.sources]

\* Private memory is recorded by the agent whose it is (record_private_memory).
ASSUME RecordingAssumption ==
  \A m \in Recording : m.namespace.kind = "AgentPrivate" => m.namespace.owner = m.by

Memory == INSTANCE AgentMemory WITH Write <- MemoryWrite
Agents == INSTANCE MultiAgent WITH MaxAudit <- MaxExchanges, audit_log <- exchange_log
Cache == INSTANCE CognitiveCache
Access == INSTANCE Governance WITH Principal <- PolicyPrincipal, Rule <- PolicyRule
Graphs == INSTANCE Federation WITH Node <- FederatedGraph
Snapshots == INSTANCE SnapshotFiles WITH Event <- StorageEvent

MemorySpec == Memory!MemoryInit /\ [][Memory!MemoryNext]_Memory!memoryVars
SharingSpec == Agents!MultiAgentInit /\ [][Agents!MultiAgentNext]_Agents!multiAgentVars
CacheSpec == Cache!CacheInit /\ [][Cache!CacheNext]_Cache!cacheVars
GovernanceSpec == Access!GovernanceInit /\ [][Access!GovernanceNext]_Access!governanceVars
FederationSpec == Graphs!FederationInit /\ [][Graphs!FederationNext]_Graphs!federationVars
SnapshotSpec == Snapshots!SnapshotInit /\ [][Snapshots!SnapshotNext]_Snapshots!snapshotVars

-----------------------------------------------------------------------------
(***************************************************************************)
(* What a restart rebuilds from the journal is the service that wrote it,  *)
(* and a memory once corrected is never again offered as current truth     *)
(* (AgentMemoryService::replay, retrieve_memory, explain_memory).          *)
(***************************************************************************)
MemoryStands == Memory!MemoryIsJournal /\ Memory!CorrectedStaysOut

(***************************************************************************)
(* A private record that another agent reads was handed over by its owner  *)
(* in an exchange on the audit log (exchange_evidence, insert_record).     *)
(***************************************************************************)
SharingIsAudited == Agents!SharingIsAudited

(***************************************************************************)
(* An exchange is whole or nothing, and what is recommended for sharing is *)
(* known once it is shared (exchange_evidence, recommend_sharing_for_task).*)
(***************************************************************************)
ExchangeIsWhole == Agents!ExchangeIsWhole

(***************************************************************************)
(* No cache offers what was read before a change of it                     *)
(* (TemporalInvalidationIndex::track, invalidate_keys).                    *)
(***************************************************************************)
CachedIsFresh == Cache!CachedIsFresh

(***************************************************************************)
(* A pack that a policy cut down stands on its own and rests on nothing    *)
(* that is denied (enforce_evidence_pack_inner, check_source_access).      *)
(***************************************************************************)
GovernedPackIsClosed == Access!GovernedPackIsClosed

(***************************************************************************)
(* A redaction takes away and never reveals (with_redaction).              *)
(***************************************************************************)
RedactionNeverReveals == Access!RedactionNeverReveals

(***************************************************************************)
(* No graph of a plan is lost silently, and no evidence, join or alias     *)
(* comes from elsewhere than it says (execute_plan, evaluate_join).        *)
(***************************************************************************)
FederationAccounts == Graphs!FederationAccounts

(***************************************************************************)
(* A snapshot, once published, is restored whole, and no backup in part    *)
(* (write_atomic, SnapshotReader::read, BackupWriter, BackupReader).       *)
(***************************************************************************)
SnapshotsRestoreWhole == Snapshots!SnapshotsRestoreWhole

-----------------------------------------------------------------------------
(***************************************************************************)
(* What was stored is what is served: the memory that its journal says,    *)
(* with its corrections; a snapshot and a backup that are whole; a cached  *)
(* answer that nothing has changed since.                                  *)
(***************************************************************************)
StoredIsServed == MemoryStands /\ SnapshotsRestoreWhole /\ CachedIsFresh

(***************************************************************************)
(* Whoever is shown something was given it: by an exchange on the audit    *)
(* log, by a policy that closes packs over what it denies, by the graphs   *)
(* that a plan may reach; and no step shares in part or takes back a       *)
(* redaction.                                                              *)
(***************************************************************************)
ShownIsPermitted ==
  /\ [](SharingIsAudited /\ GovernedPackIsClosed /\ FederationAccounts)
  /\ ExchangeIsWhole
  /\ RedactionNeverReveals
=============================================================================
