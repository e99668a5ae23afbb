---------------------------- MODULE PlatformProofs ----------------------------
(***************************************************************************)
(* Theorems about what the provider is run with: client policies           *)
(* (ClientRegistry), the use of tokens (TokenUse), the secrets of realms   *)
(* (RealmKeys), SAML (SamlLogin), directories (DirectorySync), and the     *)
(* migrations and development stacks (DevStack), for any number of rows    *)
(* and of requests; and about these components together.                   *)
(***************************************************************************)
EXTENDS MCPlatform, FiniteSetTheorems, TLAPS

-----------------------------------------------------------------------------
(* ClientRegistry: no write stores a client that a rule in force from the  *)
(* beginning of its request forbids.                                       *)

\* What a request has read says about the rules it holds: the profiles it listed are those
\* of the rules, the row it is about to write obeys them, and so does the one it wrote.
WriteTrue(q) ==
    LET j == clientJob[q] IN
    /\ j.at = "policies" => \A r \in held[q] : r.allowed = j.seen[r.profile]
    /\ j.at = "write" => Enforced(held[q], Context(q), Candidate(q))
    /\ j.stored # NoClient =>
          j.at \in {"config", "done"} /\ Enforced(held[q], Context(q), j.stored)
    /\ j.at \in {"profiles", "policies", "write", "config"} => j.client \in Client
    /\ j.at = "store" => j.row.profile \in Profile

\* A policy that is there names a profile.
PolicyNamesProfile == \A p \in Policy : policy[p].status = "live" => policy[p].profile \in Profile

ClientInv ==
    /\ ClientTypeOK
    /\ PolicyNamesProfile
    /\ \A q \in ClientRequest : WriteTrue(q)

\* The fields of a request.
LEMMA ClientJobTypes ==
    ASSUME ClientTypeOK, NEW q \in ClientRequest
    PROVE  /\ clientJob[q] \in ClientWork /\ clientJob[q].draft \in ClientRow
           /\ clientJob[q].draft.features \subseteq Feature
           /\ clientJob[q].adds \subseteq Feature /\ clientJob[q].row \in PolicyRow
           /\ clientJob[q].at \in ClientPlaces
BY DEF ClientTypeOK, ClientWork, ClientRow

\* The rules in force have the type of rules.
LEMMA RulesTyped ==
    ASSUME ClientTypeOK, PolicyNamesProfile
    PROVE  RulesOf(policy, profile) \subseteq Rule
BY DEF ClientTypeOK, PolicyNamesProfile, RulesOf, Rule, PolicyRow

\* A request that has begun loses rules and gains none.
LEMMA HeldShrinks ==
    ASSUME ClientTypeOK, Watch, NEW q \in ClientRequest, clientJob[q].at # "new"
    PROVE  held'[q] \subseteq held[q]
BY DEF Watch

\* The history keeps its type.
LEMMA HeldTyped ==
    ASSUME ClientTypeOK, PolicyNamesProfile, Watch
    PROVE  held' \in [ClientRequest -> SUBSET Rule]
<1>1. \A q \in ClientRequest : held[q] \subseteq Rule
  BY DEF ClientTypeOK
<1> QED BY <1>1, RulesTyped DEF Watch

\* A request that stays where it is keeps what is true of it: it can only lose rules.
LEMMA WriteKept ==
    ASSUME ClientTypeOK, Watch, NEW q \in ClientRequest, WriteTrue(q),
           clientJob'[q] = clientJob[q]
    PROVE  WriteTrue(q)'
<1>1. CASE clientJob[q].at = "new"
  BY <1>1 DEF WriteTrue
<1>2. CASE clientJob[q].at # "new"
  BY <1>2, HeldShrinks DEF WriteTrue, Enforced, Context, Candidate
<1> QED BY <1>1, <1>2

\* A step of one request keeps the invariant when it keeps it of that request and of the
\* tables.
LEMMA ClientMoves ==
    ASSUME ClientInv, Watch, NEW q \in ClientRequest, NEW x \in ClientWork,
           clientJob' = [clientJob EXCEPT ![q] = x], UNCHANGED clientScene,
           client' \in [Client -> ClientRow],
           assigned' \subseteq Client \X Feature, cibaConfig' \subseteq Client,
           profile' \in [Profile -> {NoClient} \cup SUBSET Feature],
           policy' \in [Policy -> PolicyRow], PolicyNamesProfile', WriteTrue(q)'
    PROVE  ClientInv'
<1>1. clientJob' \in [ClientRequest -> ClientWork]
  BY DEF ClientInv, ClientTypeOK
<1>2. held' \in [ClientRequest -> SUBSET Rule]
  BY HeldTyped DEF ClientInv
<1>3. ClientTypeOK'
  BY <1>1, <1>2 DEF ClientInv, ClientTypeOK
<1>4. ASSUME NEW r \in ClientRequest PROVE WriteTrue(r)'
  <2>1. CASE r = q
    BY <2>1
  <2>2. CASE r # q
    <3>1. clientJob'[r] = clientJob[r]
      BY <2>2 DEF ClientInv, ClientTypeOK
    <3> QED BY <3>1, WriteKept DEF ClientInv
  <2> QED BY <2>1, <2>2
<1> QED BY <1>3, <1>4 DEF ClientInv

\* So does a step that touches no table.
LEMMA ClientReads ==
    ASSUME ClientInv, Watch, NEW q \in ClientRequest, NEW x \in ClientWork,
           clientJob' = [clientJob EXCEPT ![q] = x], UNCHANGED <<Clients, Policies, clientScene>>,
           WriteTrue(q)'
    PROVE  ClientInv'
<1>1. PolicyNamesProfile'
  BY DEF ClientInv, PolicyNamesProfile, Policies
<1>2. /\ client' = client /\ assigned' = assigned /\ cibaConfig' = cibaConfig
      /\ profile' = profile /\ policy' = policy /\ clientScene' = clientScene
  BY DEF Clients, Policies
<1>3. ClientTypeOK
  BY DEF ClientInv
<1> QED
  <2>1. /\ client' \in [Client -> ClientRow] /\ assigned' \subseteq Client \X Feature
        /\ cibaConfig' \subseteq Client /\ policy' \in [Policy -> PolicyRow]
        /\ profile' \in [Profile -> {NoClient} \cup SUBSET Feature]
    BY <1>2, <1>3 DEF ClientTypeOK
  <2> QED BY <1>1, <1>2, <2>1, ClientMoves

\* A step of no request keeps it when the tables keep their types.
LEMMA ClientTables ==
    ASSUME ClientInv, Watch, UNCHANGED <<clientJob, clientScene>>,
           client' \in [Client -> ClientRow],
           assigned' \subseteq Client \X Feature, cibaConfig' \subseteq Client,
           profile' \in [Profile -> {NoClient} \cup SUBSET Feature],
           policy' \in [Policy -> PolicyRow], PolicyNamesProfile'
    PROVE  ClientInv'
<1>1. held' \in [ClientRequest -> SUBSET Rule]
  BY HeldTyped DEF ClientInv
<1>2. ClientTypeOK'
  BY <1>1 DEF ClientInv, ClientTypeOK
<1>3. ASSUME NEW r \in ClientRequest PROVE WriteTrue(r)'
  BY WriteKept DEF ClientInv
<1> QED BY <1>2, <1>3 DEF ClientInv

\* A request that changes its place only.
LEMMA ClientGoes ==
    ASSUME ClientTypeOK, NEW q \in ClientRequest, NEW place \in ClientPlaces, GoTo(q, place)
    PROVE  \E x \in ClientWork :
              /\ clientJob' = [clientJob EXCEPT ![q] = x] /\ clientJob'[q] = x
              /\ x.at = place /\ x.kind = clientJob[q].kind /\ x.client = clientJob[q].client
              /\ x.draft = clientJob[q].draft /\ x.adds = clientJob[q].adds
              /\ x.seen = clientJob[q].seen /\ x.row = clientJob[q].row
              /\ x.stored = clientJob[q].stored
<1>1. PICK x : x = [clientJob[q] EXCEPT !.at = place]
  OBVIOUS
<1>2. clientJob[q] \in ClientWork
  BY DEF ClientTypeOK
<1>3. x \in ClientWork
  BY <1>1, <1>2 DEF ClientWork
<1>4. clientJob' = [clientJob EXCEPT ![q] = x]
  BY <1>1 DEF GoTo
<1>5. clientJob'[q] = x
  BY <1>4 DEF ClientTypeOK
<1>6. /\ x.at = place /\ x.kind = clientJob[q].kind /\ x.client = clientJob[q].client
      /\ x.draft = clientJob[q].draft /\ x.adds = clientJob[q].adds
      /\ x.seen = clientJob[q].seen /\ x.row = clientJob[q].row
      /\ x.stored = clientJob[q].stored
  BY <1>1, <1>2 DEF ClientWork
<1> QED BY <1>3, <1>4, <1>5, <1>6

\* A write of a client begins: it has read nothing yet.
LEMMA WriteStarts ==
    ASSUME ClientInv, Watch, NEW q \in ClientRequest, NEW kind \in Writes, NEW c \in Client,
           NEW d \in ClientRow, NEW more \in SUBSET Feature, StartWrite(q, kind, c, d, more)
    PROVE  ClientInv'
<1>1. PICK x : x = [clientJob[q] EXCEPT !.kind = kind, !.client = c, !.draft = d,
                                        !.adds = more, !.at = "profiles"]
  OBVIOUS
<1>2. clientJob[q] \in ClientWork
  BY DEF ClientInv, ClientTypeOK
<1>3. x \in ClientWork
  BY <1>1, <1>2 DEF ClientWork, ClientPlaces
<1>4. clientJob' = [clientJob EXCEPT ![q] = x]
  BY <1>1 DEF StartWrite
<1>5. clientJob'[q] = x
  BY <1>4 DEF ClientInv, ClientTypeOK
<1>6. x.at = "profiles" /\ x.client = c /\ x.stored = clientJob[q].stored
  BY <1>1, <1>2 DEF ClientWork
<1>7. clientJob[q].stored = NoClient
  BY DEF StartWrite, ClientInv, WriteTrue
<1>8. WriteTrue(q)'
  BY <1>5, <1>6, <1>7 DEF WriteTrue
<1> QED BY <1>3, <1>4, <1>8, ClientReads DEF StartWrite

\* The five ways in which a write of a client begins.
LEMMA DraftStep ==
    ASSUME ClientInv, Watch, NEW q \in ClientRequest,
           DraftClient(q) \/ RegisterClient(q) \/ EditClient(q) \/ SwitchCiba(q) \/ GiveScope(q)
    PROVE  ClientInv'
<1>1. \A f \in SUBSET Feature, e \in BOOLEAN : NewClient(f, e) \in ClientRow
  BY DEF NewClient, ClientRow
<1>2. \A c \in Client : client[c] \in ClientRow
  BY DEF ClientInv, ClientTypeOK
<1>3. CASE DraftClient(q)
  BY <1>1, <1>3, WriteStarts DEF DraftClient, Writes
<1>4. CASE RegisterClient(q)
  BY <1>1, <1>4, WriteStarts DEF RegisterClient, Writes
<1>5. CASE EditClient(q)
  <2>1. PICK c \in Client, f \in SUBSET Feature, e \in BOOLEAN :
           StartWrite(q, "update", c, [client[c] EXCEPT !.features = f, !.enabled = e], {})
    BY <1>5 DEF EditClient
  <2>2. [client[c] EXCEPT !.features = f, !.enabled = e] \in ClientRow
    BY <1>2 DEF ClientRow
  <2> QED BY <2>1, <2>2, WriteStarts DEF Writes
<1>6. CASE SwitchCiba(q)
  <2>1. PICK c \in Client, on \in BOOLEAN :
           StartWrite(q, IF on THEN "ciba_on" ELSE "ciba_off", c,
                [client[c] EXCEPT !.features = IF on THEN @ \cup {Ciba} ELSE @ \ {Ciba}], {})
    BY <1>6 DEF SwitchCiba
  <2>2. client[c].features \subseteq Feature /\ Ciba \in Feature
    BY <1>2, ClientAssumption DEF ClientRow
  <2>3. [client[c] EXCEPT !.features = IF on THEN @ \cup {Ciba} ELSE @ \ {Ciba}] \in ClientRow
    BY <1>2, <2>2 DEF ClientRow
  <2>4. (IF on THEN "ciba_on" ELSE "ciba_off") \in Writes
    BY DEF Writes
  <2> QED BY <2>1, <2>3, <2>4, WriteStarts
<1>7. CASE GiveScope(q)
  <2>1. PICK c \in Client, s \in Feature : StartWrite(q, "assign", c, client[c], {s})
    BY <1>7 DEF GiveScope
  <2>2. {s} \in SUBSET Feature /\ "assign" \in Writes
    BY DEF Writes
  <2> QED BY <1>2, <2>1, <2>2, WriteStarts
<1> QED BY <1>3, <1>4, <1>5, <1>6, <1>7

\* The profiles are listed: a rule the request goes on holding allows what was listed.
LEMMA ReadProfilesStep ==
    ASSUME ClientInv, Watch, NEW q \in ClientRequest, ReadProfiles(q)
    PROVE  ClientInv'
<1>1. PICK x : x = [clientJob[q] EXCEPT !.seen = profile, !.at = "policies"]
  OBVIOUS
<1>2. clientJob[q] \in ClientWork /\ profile \in [Profile -> {NoClient} \cup SUBSET Feature]
  BY DEF ClientInv, ClientTypeOK
<1>3. x \in ClientWork
  BY <1>1, <1>2 DEF ClientWork, ClientPlaces
<1>4. clientJob' = [clientJob EXCEPT ![q] = x]
  BY <1>1 DEF ReadProfiles
<1>5. clientJob'[q] = x
  BY <1>4 DEF ClientInv, ClientTypeOK
<1>6. /\ x.at = "policies" /\ x.client = clientJob[q].client /\ x.stored = clientJob[q].stored
      /\ x.seen = profile
  BY <1>1, <1>2 DEF ClientWork
<1>7. clientJob[q].stored = NoClient /\ clientJob[q].client \in Client
  BY DEF ReadProfiles, ClientInv, WriteTrue
<1>8. held'[q] \subseteq RulesOf(policy, profile)
  BY <1>5, <1>6 DEF Watch, ReadProfiles
<1>9. \A r \in held'[q] : r.allowed = profile[r.profile]
  BY <1>8 DEF RulesOf
<1>10. WriteTrue(q)'
  BY <1>5, <1>6, <1>7, <1>9 DEF WriteTrue
<1> QED BY <1>3, <1>4, <1>10, ClientReads DEF ReadProfiles

\* The policies are listed and the decision made: what is let through obeys every rule
\* that the request still holds.
LEMMA EnforceStep ==
    ASSUME ClientInv, Watch, NEW q \in ClientRequest, EnforcePolicies(q)
    PROVE  ClientInv'
<1> DEFINE obeys == Enforced(RulesOf(policy, clientJob[q].seen), Context(q), Candidate(q))
<1>1. PICK place \in ClientPlaces : place = IF obeys THEN "write" ELSE "done"
  BY DEF ClientPlaces
<1>2. GoTo(q, place)
  BY <1>1 DEF EnforcePolicies
<1>3. PICK x \in ClientWork :
         /\ clientJob' = [clientJob EXCEPT ![q] = x] /\ clientJob'[q] = x
         /\ x.at = place /\ x.kind = clientJob[q].kind /\ x.client = clientJob[q].client
         /\ x.draft = clientJob[q].draft /\ x.adds = clientJob[q].adds
         /\ x.stored = clientJob[q].stored
  BY <1>2, ClientGoes DEF ClientInv
<1>4. clientJob[q].stored = NoClient /\ clientJob[q].client \in Client
  BY DEF EnforcePolicies, ClientInv, WriteTrue
<1>5. Context(q)' = Context(q) /\ Candidate(q)' = Candidate(q)
  BY <1>3 DEF Context, Candidate
<1>6. held'[q] \subseteq RulesOf(policy, profile) /\ held'[q] \subseteq held[q]
  BY <1>1, <1>3 DEF Watch, EnforcePolicies
<1>7. \A r \in held[q] : r.allowed = clientJob[q].seen[r.profile]
  BY DEF EnforcePolicies, ClientInv, WriteTrue
<1>8. held'[q] \subseteq RulesOf(policy, clientJob[q].seen)
  BY <1>6, <1>7 DEF RulesOf
<1>9. obeys => Enforced(held'[q], Context(q), Candidate(q))
  BY <1>8 DEF Enforced
<1>10. WriteTrue(q)'
  BY <1>1, <1>3, <1>4, <1>5, <1>9 DEF WriteTrue
<1> QED BY <1>3, <1>10, ClientReads DEF EnforcePolicies

\* The row is written.
LEMMA WriteClientStep ==
    ASSUME ClientInv, Watch, NEW q \in ClientRequest, WriteClient(q)
    PROVE  ClientInv'
<1>1. PICK place \in {"config", "done"} :
         place = IF clientJob[q].kind \in {"ciba_on", "ciba_off"} THEN "config" ELSE "done"
  OBVIOUS
<1>2. PICK x : x = [clientJob[q] EXCEPT !.stored = clientJob[q].draft.features \cup clientJob[q].adds,
                                        !.at = place]
  OBVIOUS
<1>3. /\ clientJob[q] \in ClientWork /\ clientJob[q].draft \in ClientRow
      /\ clientJob[q].draft.features \subseteq Feature /\ clientJob[q].adds \subseteq Feature
      /\ clientJob[q].client \in Client /\ clientJob[q].at = "write"
  BY ClientJobTypes DEF WriteClient, ClientInv, WriteTrue
<1>4. x \in ClientWork
  BY <1>2, <1>3 DEF ClientWork, ClientPlaces
<1>5. clientJob' = [clientJob EXCEPT ![q] = x]
  BY <1>1, <1>2 DEF WriteClient
<1>6. clientJob'[q] = x
  BY <1>5 DEF ClientInv, ClientTypeOK
<1>7. /\ x.at = place /\ x.client = clientJob[q].client /\ x.kind = clientJob[q].kind
      /\ x.stored = Candidate(q)
  BY <1>2, <1>3 DEF ClientWork, Candidate
<1>8. Enforced(held[q], Context(q), Candidate(q)) /\ held'[q] \subseteq held[q]
  BY <1>3, HeldShrinks DEF ClientInv, WriteTrue
<1>9. Enforced(held'[q], Context(q)', x.stored)
  BY <1>6, <1>7, <1>8 DEF Enforced, Context
<1>10. WriteTrue(q)'
  BY <1>3, <1>6, <1>7, <1>9 DEF WriteTrue
<1>11. client' \in [Client -> ClientRow] /\ assigned' \subseteq Client \X Feature
  BY <1>3 DEF WriteClient, ClientInv, ClientTypeOK
<1>12. /\ cibaConfig' = cibaConfig /\ profile' = profile /\ policy' = policy
       /\ clientScene' = clientScene
  BY DEF WriteClient, Policies
<1>13. /\ cibaConfig' \subseteq Client /\ policy' \in [Policy -> PolicyRow]
       /\ profile' \in [Profile -> {NoClient} \cup SUBSET Feature] /\ PolicyNamesProfile'
  BY <1>12 DEF ClientInv, ClientTypeOK, PolicyNamesProfile
<1> QED BY <1>4, <1>5, <1>10, <1>11, <1>12, <1>13, ClientMoves

\* A request that moves to an end, or from its row to its configuration's.
LEMMA ClientEnds ==
    ASSUME ClientInv, Watch, NEW q \in ClientRequest, clientJob[q].at \notin {"new", "done"},
           GoTo(q, "done")
    PROVE  WriteTrue(q)'
<1>1. PICK x \in ClientWork :
         /\ clientJob'[q] = x /\ x.at = "done" /\ x.kind = clientJob[q].kind
         /\ x.stored = clientJob[q].stored
  BY ClientGoes DEF ClientInv, ClientPlaces
<1>2. held'[q] \subseteq held[q]
  BY HeldShrinks DEF ClientInv
<1> QED BY <1>1, <1>2 DEF ClientInv, WriteTrue, Enforced, Context

\* The configuration's row, the policy's row, the profile's, or a failure.
LEMMA LastStep ==
    ASSUME ClientInv, Watch, NEW q \in ClientRequest,
           WriteConfig(q) \/ StorePolicy(q) \/ DropProfile(q) \/ LoseClientRequest(q)
    PROVE  ClientInv'
<1>1. clientJob[q].at \notin {"new", "done"} /\ GoTo(q, "done")
  BY DEF WriteConfig, StorePolicy, DropProfile, LoseClientRequest
<1>2. WriteTrue(q)'
  BY <1>1, ClientEnds
<1>3. PICK x \in ClientWork : clientJob' = [clientJob EXCEPT ![q] = x]
  BY <1>1, ClientGoes DEF ClientInv, ClientPlaces
<1>4. /\ client \in [Client -> ClientRow] /\ assigned \subseteq Client \X Feature
      /\ cibaConfig \subseteq Client /\ policy \in [Policy -> PolicyRow]
      /\ profile \in [Profile -> {NoClient} \cup SUBSET Feature] /\ PolicyNamesProfile
      /\ clientJob[q].row \in PolicyRow
  BY ClientJobTypes DEF ClientInv, ClientTypeOK
<1>5. UNCHANGED <<client, assigned, clientScene>>
  BY DEF WriteConfig, StorePolicy, DropProfile, LoseClientRequest, Clients
<1>6. cibaConfig' \subseteq Client
  <2>1. CASE WriteConfig(q)
    BY <1>4, <2>1 DEF WriteConfig, ClientInv, WriteTrue
  <2>2. CASE ~WriteConfig(q)
    BY <1>4, <2>2 DEF StorePolicy, DropProfile, LoseClientRequest, Clients
  <2> QED BY <2>1, <2>2
<1>7. policy' \in [Policy -> PolicyRow] /\ PolicyNamesProfile'
  <2>1. CASE StorePolicy(q)
    <3>1. clientJob[q].row.profile \in Profile
      BY <2>1 DEF StorePolicy, ClientInv, WriteTrue
    <3> QED BY <1>4, <2>1, <3>1 DEF StorePolicy, PolicyNamesProfile
  <2>2. CASE ~StorePolicy(q)
    <3>1. policy' = policy
      BY <2>2 DEF WriteConfig, DropProfile, LoseClientRequest, Policies
    <3> QED BY <1>4, <3>1 DEF PolicyNamesProfile
  <2> QED BY <2>1, <2>2
<1>8. profile' \in [Profile -> {NoClient} \cup SUBSET Feature]
  <2>1. CASE DropProfile(q)
    BY <1>4, <2>1 DEF DropProfile
  <2>2. CASE ~DropProfile(q)
    <3>1. profile' = profile
      BY <2>2 DEF WriteConfig, StorePolicy, LoseClientRequest, Policies
    <3> QED BY <1>4, <3>1
  <2> QED BY <2>1, <2>2
<1> QED BY <1>2, <1>3, <1>4, <1>5, <1>6, <1>7, <1>8, ClientMoves

\* A look-up in front of a write of a policy or of the deletion of a profile.
LEMMA CheckPolicyStep ==
    ASSUME ClientInv, Watch, NEW q \in ClientRequest, CheckProfile(q) \/ CountUses(q)
    PROVE  ClientInv'
<1>1. clientJob[q] \in ClientWork /\ clientJob[q].at = "new" /\ clientJob[q].stored = NoClient
  BY DEF ClientInv, ClientTypeOK, WriteTrue, CheckProfile, CountUses
<1>2. CASE CheckProfile(q)
  <2>0. PICK kind \in {"add_policy", "edit_policy"} \cap clientScene, p \in Policy,
             f \in Profile, e \in BOOLEAN, ctx \in {{"admin"}, Contexts} :
           /\ policy[p].status = (IF kind = "add_policy" THEN "unborn" ELSE "live")
           /\ \A other \in ClientRequest : clientJob[other].policy # p
           /\ clientJob' = [clientJob EXCEPT ![q].kind = kind, ![q].policy = p,
                ![q].row = [status |-> "live", enabled |-> e, contexts |-> ctx, profile |-> f],
                ![q].at = IF profile[f] # NoClient THEN "store" ELSE "done"]
    BY <1>2, Zenon DEF CheckProfile
  <2>1. PICK place \in {"store", "done"} :
           clientJob' = [clientJob EXCEPT ![q].kind = kind, ![q].policy = p,
                ![q].row = [status |-> "live", enabled |-> e, contexts |-> ctx, profile |-> f],
                ![q].at = place]
    BY <2>0
  <2>2. PICK o : o = [status |-> "live", enabled |-> e, contexts |-> ctx, profile |-> f]
    OBVIOUS
  <2>3. o \in PolicyRow /\ o.profile = f
    BY <2>2 DEF PolicyRow, Contexts
  <2>4. PICK x : x = [clientJob[q] EXCEPT !.kind = kind, !.policy = p, !.row = o, !.at = place]
    OBVIOUS
  <2>5. x \in ClientWork
    <3>1. place \in ClientPlaces /\ kind \in Writes \cup PolicyWrites \cup {NoClient}
      BY <2>1 DEF ClientPlaces, PolicyWrites
    <3> QED BY <1>1, <2>3, <2>4, <3>1 DEF ClientWork
  <2>6. clientJob' = [clientJob EXCEPT ![q] = x]
    BY <2>1, <2>2, <2>4
  <2>7. clientJob'[q] = x
    BY <2>6 DEF ClientInv, ClientTypeOK
  <2>8. x.at = place /\ x.stored = NoClient /\ x.row = o
    BY <1>1, <2>4 DEF ClientWork
  <2>9. WriteTrue(q)'
    BY <2>3, <2>7, <2>8 DEF WriteTrue
  <2> QED BY <1>2, <2>5, <2>6, <2>9, ClientReads DEF CheckProfile
<1>3. CASE CountUses(q)
  <2>1. PICK f \in Profile, place \in {"drop", "done"} :
           clientJob' = [clientJob EXCEPT ![q].kind = "drop_profile",
                ![q].row = [UnbornPolicy EXCEPT !.profile = f], ![q].at = place]
    BY <1>3 DEF CountUses
  <2>2. PICK o : o = [UnbornPolicy EXCEPT !.profile = f]
    OBVIOUS
  <2>3. o \in PolicyRow
    BY <2>2 DEF PolicyRow, UnbornPolicy
  <2>4. PICK x : x = [clientJob[q] EXCEPT !.kind = "drop_profile", !.row = o, !.at = place]
    OBVIOUS
  <2>5. x \in ClientWork
    <3>1. place \in ClientPlaces /\ "drop_profile" \in Writes \cup PolicyWrites \cup {NoClient}
      BY <2>1 DEF ClientPlaces, PolicyWrites
    <3> QED BY <1>1, <2>3, <2>4, <3>1 DEF ClientWork
  <2>6. clientJob' = [clientJob EXCEPT ![q] = x]
    BY <2>1, <2>2, <2>4
  <2>7. clientJob'[q] = x
    BY <2>6 DEF ClientInv, ClientTypeOK
  <2>8. x.at = place /\ x.stored = NoClient
    BY <1>1, <2>4 DEF ClientWork
  <2>9. WriteTrue(q)'
    BY <2>7, <2>8 DEF WriteTrue
  <2> QED BY <1>3, <2>5, <2>6, <2>9, ClientReads DEF CountUses
<1> QED BY <1>2, <1>3

\* Statements of their own: a client, an assignment, a profile or a policy.
LEMMA ClientTableStep ==
    ASSUME ClientInv, Watch,
           \/ \E c \in Client : DeleteClient(c) \/ \E s \in Feature : UnassignScope(c, s)
           \/ \E f \in Profile, allowed \in SUBSET Feature : SaveProfile(f, allowed)
           \/ \E p \in Policy : DeletePolicy(p)
    PROVE  ClientInv'
<1>1. /\ client \in [Client -> ClientRow] /\ assigned \subseteq Client \X Feature
      /\ cibaConfig \subseteq Client /\ policy \in [Policy -> PolicyRow]
      /\ profile \in [Profile -> {NoClient} \cup SUBSET Feature] /\ PolicyNamesProfile
  BY DEF ClientInv, ClientTypeOK
<1>2. ASSUME NEW c \in Client, DeleteClient(c) PROVE ClientInv'
  <2>1. client' \in [Client -> ClientRow]
    BY <1>1, <1>2 DEF DeleteClient, ClientRow
  <2> QED BY <1>1, <1>2, <2>1, ClientTables DEF DeleteClient, Policies, PolicyNamesProfile
<1>3. ASSUME NEW c \in Client, NEW s \in Feature, UnassignScope(c, s) PROVE ClientInv'
  <2>1. assigned' \subseteq Client \X Feature
    BY <1>1, <1>3 DEF UnassignScope
  <2> QED BY <1>1, <1>3, <2>1, ClientTables DEF UnassignScope, Policies, PolicyNamesProfile
<1>4. ASSUME NEW f \in Profile, NEW allowed \in SUBSET Feature, SaveProfile(f, allowed)
      PROVE  ClientInv'
  <2>1. profile' \in [Profile -> {NoClient} \cup SUBSET Feature]
    BY <1>1, <1>4 DEF SaveProfile
  <2> QED BY <1>1, <1>4, <2>1, ClientTables DEF SaveProfile, Clients, PolicyNamesProfile
<1>5. ASSUME NEW p \in Policy, DeletePolicy(p) PROVE ClientInv'
  <2>1. policy' \in [Policy -> PolicyRow]
    BY <1>1, <1>5 DEF DeletePolicy, PolicyRow
  <2>2. PolicyNamesProfile'
    BY <1>1, <1>5 DEF DeletePolicy, PolicyNamesProfile
  <2> QED BY <1>1, <1>5, <2>1, <2>2, ClientTables DEF DeletePolicy, Clients
<1> QED BY <1>2, <1>3, <1>4, <1>5

\* Every step keeps the invariant.
LEMMA ClientStepKeeps == ClientInv /\ [ClientNext]_clientVars => ClientInv'
<1> SUFFICES ASSUME ClientInv, [ClientNext]_clientVars PROVE ClientInv'
  OBVIOUS
<1>1. CASE UNCHANGED clientVars
  <2>1. /\ client' = client /\ assigned' = assigned /\ cibaConfig' = cibaConfig
        /\ profile' = profile /\ policy' = policy /\ clientJob' = clientJob /\ held' = held
        /\ clientScene' = clientScene
    BY <1>1 DEF clientVars
  <2>2. ClientTypeOK' /\ PolicyNamesProfile'
    BY <2>1 DEF ClientInv, ClientTypeOK, PolicyNamesProfile
  <2>3. \A q \in ClientRequest : WriteTrue(q)'
    BY <2>1 DEF ClientInv, WriteTrue, Enforced, Context, Candidate
  <2> QED BY <2>2, <2>3 DEF ClientInv
<1>2. CASE ClientNext
  <2>1. Watch
    BY <1>2 DEF ClientNext
  <2>2. \/ \E q \in ClientRequest :
             \/ DraftClient(q) \/ RegisterClient(q) \/ EditClient(q) \/ SwitchCiba(q)
             \/ GiveScope(q) \/ ReadProfiles(q) \/ EnforcePolicies(q)
             \/ WriteClient(q) \/ WriteConfig(q) \/ CheckProfile(q) \/ StorePolicy(q)
             \/ CountUses(q) \/ DropProfile(q) \/ LoseClientRequest(q)
        \/ \E c \in Client : DeleteClient(c) \/ \E s \in Feature : UnassignScope(c, s)
        \/ \E f \in Profile, allowed \in SUBSET Feature : SaveProfile(f, allowed)
        \/ \E p \in Policy : DeletePolicy(p)
    BY <1>2 DEF ClientNext, ClientStep
  <2> QED
    BY <2>1, <2>2, DraftStep, ReadProfilesStep, EnforceStep, WriteClientStep, LastStep,
       CheckPolicyStep, ClientTableStep
<1> QED BY <1>1, <1>2

\* The invariant holds before the first request.
LEMMA ClientStart == ClientInit => ClientInv
<1> SUFFICES ASSUME ClientInit PROVE ClientInv
  OBVIOUS
<1>1. client \in [Client -> ClientRow] /\ policy \in [Policy -> PolicyRow]
  <2>1. UnbornClient \in ClientRow /\ UnbornPolicy \in PolicyRow
    BY DEF UnbornClient, UnbornPolicy, ClientRow, PolicyRow
  <2>2. [status : {"live"}, enabled : {TRUE}, features : (SUBSET Feature) \ {{}}] \subseteq ClientRow
    BY DEF ClientRow
  <2>3. [status : {"live"}, enabled : {TRUE}, contexts : {{"admin"}, Contexts}, profile : Profile]
           \subseteq PolicyRow
    BY DEF PolicyRow, Contexts
  <2> QED BY <2>1, <2>2, <2>3 DEF ClientInit
<1>2. PolicyNamesProfile
  <2>1. ASSUME NEW p \in Policy, policy[p].status = "live" PROVE policy[p].profile \in Profile
    <3>1. UnbornPolicy.status = "unborn"
      BY DEF UnbornPolicy
    <3>2. policy[p] \in {UnbornPolicy} \cup [status : {"live"}, enabled : {TRUE},
                                   contexts : {{"admin"}, Contexts}, profile : Profile]
      BY DEF ClientInit
    <3> QED BY <2>1, <3>1, <3>2
  <2> QED BY <2>1 DEF PolicyNamesProfile
<1>3. /\ IdleClientJob \in ClientWork /\ IdleClientJob.at = "new"
      /\ IdleClientJob.stored = NoClient
  BY DEF IdleClientJob, ClientWork, UnbornClient, UnbornPolicy, ClientRow, PolicyRow, ClientPlaces
<1>4. ClientTypeOK
  BY <1>1, <1>3 DEF ClientInit, ClientTypeOK
<1>5. \A q \in ClientRequest : WriteTrue(q)
  BY <1>3 DEF ClientInit, WriteTrue
<1> QED BY <1>2, <1>4, <1>5 DEF ClientInv

\* The invariant of client policies.
THEOREM ClientInvariance == ClientSpec => []ClientInv
BY ClientStart, ClientStepKeeps, PTL DEF ClientSpec

\* No request stores a client that a rule in force from the beginning to the end of the
\* request forbids, however lists, edits and deletions of profiles and policies interleave,
\* for any number of clients, policies, profiles and requests.
THEOREM PoliciesHeld == ClientSpec => []PoliciesHeldAtWrites
<1>1. ClientInv => PoliciesHeldAtWrites
  BY DEF ClientInv, WriteTrue, PoliciesHeldAtWrites
<1> QED BY <1>1, ClientInvariance, PTL

-----------------------------------------------------------------------------
(* TokenUse: spent tokens stay spent, and whoever is answered was          *)
(* authenticated.                                                          *)

\* What makes a token useless as the subject of an exchange was not so when it arrived.
Exchangeable(j) == (IF j.type = "refresh" THEN "revoked" ELSE "expired") \notin j.spent

\* What a token was when its request arrived it still is.
SpentTrue(j) ==
    /\ j.token = Nobody <=> j.kind \in {"bearer", "credentials"}
    /\ j.token = Nobody => j.spent = {}
    /\ j.token # Nobody =>
          /\ token[j.token].status # "unborn"
          /\ "revoked" \in j.spent => token[j.token].status = "revoked"
          /\ "expired" \in j.spent => token[j.token].expired

\* A request past its authentication was served; one past the look at its token found it
\* not spent; so was one that has been answered.
UseTrue(q) ==
    LET j == tokenJob[q] IN
    /\ j.at # "done" => j.answer = "none"
    /\ j.kind = "none" => j.at = "new"
    /\ j.kind # "none" => j.client \in Holder /\ SpentTrue(j)
    /\ j.kind # "none" /\ j.at = "new" /\ Authenticates(q) => j.served
    /\ j.at \in {"subject", "actor", "issue"} => j.served
    /\ j.at = "inspect" /\ j.kind = "introspect" => j.served
    /\ j.at \in {"subject", "actor"} => j.kind = "exchange"
    /\ j.at = "user" => j.spent = {}
    /\ j.at \in {"actor", "issue"} /\ j.kind = "exchange" => Exchangeable(j)
    /\ j.answer \in {"active", "claims"} => j.spent = {}
    /\ j.answer \in {"active", "inactive", "tokens"} => j.served
    /\ j.answer = "tokens" /\ j.kind = "exchange" => Exchangeable(j)

TokenInv == TokenTypeOK /\ \A q \in TokenRequest : UseTrue(q)

\* The fields of a request.
LEMMA TokenJobTypes ==
    ASSUME TokenTypeOK, NEW q \in TokenRequest
    PROVE  /\ tokenJob[q] \in TokenWork
           /\ tokenJob[q].client \in Holder \cup {Nobody}
           /\ tokenJob[q].token \in Token \cup {Nobody}
           /\ tokenJob[q].user \in Person \cup {Nobody}
           /\ tokenJob[q].spent \subseteq {"revoked", "expired"} /\ tokenJob[q].served \in BOOLEAN
BY DEF TokenTypeOK, TokenWork

\* Tokens are born, revoked and expire for good.
TokensGoOn ==
    \A t \in Token : token[t].status # "unborn" =>
        /\ token'[t].status # "unborn"
        /\ token[t].status = "revoked" => token'[t].status = "revoked"
        /\ token[t].expired => token'[t].expired

\* A step of one request keeps the invariant when it keeps it of that request.
LEMMA TokenMoves ==
    ASSUME TokenInv, NEW q \in TokenRequest, NEW x \in TokenWork,
           tokenJob' = [tokenJob EXCEPT ![q] = x], UNCHANGED <<holder, person, tokenScene>>,
           token' \in [Token -> TokenRow], TokensGoOn, UseTrue(q)'
    PROVE  TokenInv'
<1>1. TokenTypeOK'
  BY DEF TokenInv, TokenTypeOK
<1>2. ASSUME NEW r \in TokenRequest, r # q PROVE UseTrue(r)'
  <2>1. tokenJob'[r] = tokenJob[r]
    BY <1>2 DEF TokenInv, TokenTypeOK
  <2>2. Authenticates(r)' <=> Authenticates(r)
    BY <2>1 DEF Authenticates
  <2>3. tokenJob[r].token \in Token \cup {Nobody}
    BY TokenJobTypes DEF TokenInv
  <2>4. SpentTrue(tokenJob[r]) => SpentTrue(tokenJob[r])'
    BY <2>1, <2>3 DEF SpentTrue, TokensGoOn
  <2>5. UseTrue(r)
    BY DEF TokenInv
  <2> QED BY <2>1, <2>2, <2>4, <2>5 DEF UseTrue, SpentTrue, Exchangeable
<1> QED BY <1>1, <1>2 DEF TokenInv

\* A step of a request that changes no row.
LEMMA TokenReads ==
    ASSUME TokenInv, NEW q \in TokenRequest, NEW x \in TokenWork,
           tokenJob' = [tokenJob EXCEPT ![q] = x], UNCHANGED Rows, UseTrue(q)'
    PROVE  TokenInv'
<1>1. token' = token /\ holder' = holder /\ person' = person /\ tokenScene' = tokenScene
  BY DEF Rows
<1>2. token' \in [Token -> TokenRow] /\ TokensGoOn
  BY <1>1 DEF TokenInv, TokenTypeOK, TokensGoOn
<1> QED BY <1>1, <1>2, TokenMoves

\* A request ends.
LEMMA TokenEnds ==
    ASSUME TokenInv, NEW q \in TokenRequest, NEW answer \in Answers \ {"none"},
           EndToken(q, answer)
    PROVE  \E x \in TokenWork :
              /\ tokenJob' = [tokenJob EXCEPT ![q] = x] /\ tokenJob'[q] = x
              /\ x.at = "done" /\ x.answer = answer /\ x.kind = tokenJob[q].kind
              /\ x.client = tokenJob[q].client /\ x.token = tokenJob[q].token
              /\ x.type = tokenJob[q].type /\ x.spent = tokenJob[q].spent
              /\ x.served = tokenJob[q].served
<1>1. PICK x : x = [tokenJob[q] EXCEPT !.at = "done", !.answer = answer, !.secret = 0,
                                       !.actor = Nobody, !.user = Nobody]
  OBVIOUS
<1>2. tokenJob[q] \in TokenWork
  BY DEF TokenInv, TokenTypeOK
<1>3. x \in TokenWork
  <2>1. "done" \in TokenPlaces /\ 0 \in 0 .. 1 /\ answer \in Answers
    BY DEF TokenPlaces
  <2> QED BY <1>1, <1>2, <2>1 DEF TokenWork
<1>4. tokenJob' = [tokenJob EXCEPT ![q] = x]
  BY <1>1 DEF EndToken
<1>5. tokenJob'[q] = x
  BY <1>4 DEF TokenInv, TokenTypeOK
<1>6. /\ x.at = "done" /\ x.answer = answer /\ x.kind = tokenJob[q].kind
      /\ x.client = tokenJob[q].client /\ x.token = tokenJob[q].token
      /\ x.type = tokenJob[q].type /\ x.spent = tokenJob[q].spent
      /\ x.served = tokenJob[q].served
  BY <1>1, <1>2 DEF TokenWork
<1> QED BY <1>3, <1>4, <1>5, <1>6

\* An answer that its request may have keeps what is true of the request.
LEMMA TokenAnswer ==
    ASSUME TokenInv, NEW q \in TokenRequest, NEW answer \in Answers \ {"none"},
           EndToken(q, answer), tokenJob[q].kind # "none", TokensGoOn,
           answer \in {"active", "claims"} => tokenJob[q].spent = {},
           answer \in {"active", "inactive", "tokens"} => tokenJob[q].served,
           answer = "tokens" /\ tokenJob[q].kind = "exchange" => Exchangeable(tokenJob[q])
    PROVE  UseTrue(q)' /\ \E x \in TokenWork : tokenJob' = [tokenJob EXCEPT ![q] = x]
<1>1. PICK x \in TokenWork :
         /\ tokenJob' = [tokenJob EXCEPT ![q] = x] /\ tokenJob'[q] = x
         /\ x.at = "done" /\ x.answer = answer /\ x.kind = tokenJob[q].kind
         /\ x.client = tokenJob[q].client /\ x.token = tokenJob[q].token
         /\ x.type = tokenJob[q].type /\ x.spent = tokenJob[q].spent
         /\ x.served = tokenJob[q].served
  BY TokenEnds
<1>2. tokenJob[q].token \in Token \cup {Nobody} /\ tokenJob[q].client \in Holder
  BY TokenJobTypes DEF TokenInv, UseTrue
<1>3. SpentTrue(tokenJob[q])
  BY DEF TokenInv, UseTrue
<1>4. SpentTrue(x)'
  BY <1>1, <1>2, <1>3 DEF SpentTrue, TokensGoOn
<1>5. UseTrue(q)'
  BY <1>1, <1>2, <1>4 DEF UseTrue, Exchangeable, SpentTrue
<1> QED BY <1>1, <1>5

\* Ending with a refusal is always allowed.
LEMMA TokenRefused ==
    ASSUME TokenInv, NEW q \in TokenRequest, EndToken(q, "refused"), tokenJob[q].kind # "none",
           UNCHANGED Rows
    PROVE  TokenInv'
<1>1. TokensGoOn
  BY DEF Rows, TokensGoOn
<1> QED BY <1>1, TokenAnswer, TokenReads DEF Answers

\* A request arrives.
LEMMA ArriveTokenStep ==
    ASSUME TokenInv, NEW q \in TokenRequest, ArriveToken(q)
    PROVE  TokenInv'
<1>1. PICK kind \in TokenKinds \cap tokenScene, h \in Holder, s \in {0, 1},
           t \in Born \cup {Nobody}, a \in Born \cup {Nobody}, type \in SubjectTypes,
           u \in Person \cup {Nobody} :
          /\ (t = Nobody) <=> kind \in {"bearer", "credentials"}
          /\ kind # "exchange" => a = Nobody /\ type = "access"
          /\ kind # "bearer" => u = Nobody
          /\ s \in {holder[h].secret, 1}
          /\ kind = "userinfo" => h = token[t].client /\ s = holder[h].secret
          /\ tokenJob' = [tokenJob EXCEPT ![q].kind = kind, ![q].client = h, ![q].secret = s,
                ![q].token = t, ![q].actor = a, ![q].type = type, ![q].user = u,
                ![q].spent = Spent(t),
                ![q].served = holder[h].enabled /\ holder[h].secret = s,
                ![q].at = CASE kind = "userinfo" -> "inspect" [] OTHER -> "new"]
  BY Zenon DEF ArriveToken
<1>2. PICK place \in {"inspect", "new"} :
         place = CASE kind = "userinfo" -> "inspect" [] OTHER -> "new"
  OBVIOUS
<1>3. PICK was \in SUBSET {"revoked", "expired"} : was = Spent(t)
  BY DEF Spent
<1>4. PICK good \in BOOLEAN : good = (holder[h].enabled /\ holder[h].secret = s)
  OBVIOUS
<1>5. PICK x : x = [tokenJob[q] EXCEPT !.kind = kind, !.client = h, !.secret = s, !.token = t,
                        !.actor = a, !.type = type, !.user = u, !.spent = was,
                        !.served = good, !.at = place]
  OBVIOUS
<1>6. tokenJob[q] \in TokenWork /\ Born \subseteq Token
  BY DEF TokenInv, TokenTypeOK, Born
<1>7. x \in TokenWork
  <2>1. /\ place \in TokenPlaces /\ s \in 0 .. 1 /\ kind \in TokenKinds \cup {"none"}
        /\ t \in Token \cup {Nobody} /\ a \in Token \cup {Nobody}
    BY <1>6 DEF TokenPlaces
  <2> QED BY <1>5, <1>6, <2>1 DEF TokenWork
<1>8. tokenJob' = [tokenJob EXCEPT ![q] = x]
  <2>1. tokenJob' = [tokenJob EXCEPT ![q].kind = kind, ![q].client = h, ![q].secret = s,
              ![q].token = t, ![q].actor = a, ![q].type = type, ![q].user = u,
              ![q].spent = was, ![q].served = good, ![q].at = place]
    BY <1>1, <1>2, <1>3, <1>4, Zenon
  <2> QED BY <1>5, <2>1
<1>9. tokenJob'[q] = x
  BY <1>8 DEF TokenInv, TokenTypeOK
<1>10. /\ x.kind = kind /\ x.client = h /\ x.secret = s /\ x.token = t /\ x.spent = was
       /\ x.served = good /\ x.at = place /\ x.answer = tokenJob[q].answer
  BY <1>5, <1>6 DEF TokenWork
<1>11. tokenJob[q].answer = "none"
  <2>1. tokenJob[q].at # "done"
    BY DEF ArriveToken
  <2> QED BY <2>1 DEF TokenInv, UseTrue
<1>12. UNCHANGED <<token, holder>>
  BY DEF ArriveToken, Rows
<1>13. SpentTrue(x)'
  <2>1. t = Nobody => was = {}
    BY <1>3 DEF Spent
  <2>2. t # Nobody => /\ token[t].status # "unborn"
                      /\ "revoked" \in was => token[t].status = "revoked"
                      /\ "expired" \in was => token[t].expired
    BY <1>3 DEF Spent, Born
  <2> QED BY <1>1, <1>10, <1>12, <2>1, <2>2 DEF SpentTrue
<1>14. kind # "none" /\ (place = "inspect" => kind = "userinfo")
  BY <1>2 DEF TokenKinds, Grants
<1>15. Authenticates(q)' => good
  BY <1>4, <1>9, <1>10, <1>12 DEF Authenticates
<1>16. UseTrue(q)'
  <2>1. x.client \in Holder /\ x.kind # "none" /\ x.at \in {"inspect", "new"}
        /\ x.answer = "none" /\ (x.at = "inspect" => x.kind = "userinfo")
    BY <1>10, <1>11, <1>14
  <2>2. Authenticates(q)' => x.served
    BY <1>10, <1>15
  <2>3. /\ tokenJob'[q].client \in Holder /\ tokenJob'[q].kind # "none"
        /\ tokenJob'[q].at \in {"inspect", "new"} /\ tokenJob'[q].answer = "none"
        /\ tokenJob'[q].at = "inspect" => tokenJob'[q].kind = "userinfo"
        /\ Authenticates(q)' => tokenJob'[q].served
    BY <1>9, <2>1, <2>2
  <2>4. SpentTrue(tokenJob[q])'
    BY <1>9, <1>13 DEF SpentTrue
  <2> QED BY <2>3, <2>4 DEF UseTrue
<1>17. UNCHANGED Rows
  BY DEF ArriveToken
<1> QED BY <1>7, <1>8, <1>16, <1>17, TokenReads

\* A request that moves on, and may have read a user.
LEMMA TokenGoes ==
    ASSUME TokenInv, NEW q \in TokenRequest, NEW place \in TokenPlaces,
           NEW u \in Person \cup {Nobody}, tokenJob[q].kind # "none", UNCHANGED Rows,
           tokenJob' = [tokenJob EXCEPT ![q].user = u, ![q].at = place],
           place \in {"inspect", "user", "subject", "actor", "issue"},
           tokenJob[q].at # "done",
           place \in {"subject", "actor", "issue"} => tokenJob[q].served,
           place = "inspect" => tokenJob[q].served,
           place \in {"subject", "actor"} => tokenJob[q].kind = "exchange",
           place = "user" => tokenJob[q].spent = {},
           place \in {"actor", "issue"} /\ tokenJob[q].kind = "exchange"
              => Exchangeable(tokenJob[q])
    PROVE  TokenInv'
<1>1. PICK x : x = [tokenJob[q] EXCEPT !.user = u, !.at = place]
  OBVIOUS
<1>2. tokenJob[q] \in TokenWork
  BY DEF TokenInv, TokenTypeOK
<1>3. x \in TokenWork
  BY <1>1, <1>2 DEF TokenWork
<1>4. tokenJob' = [tokenJob EXCEPT ![q] = x]
  BY <1>1
<1>5. tokenJob'[q] = x
  BY <1>4 DEF TokenInv, TokenTypeOK
<1>6. /\ x.at = place /\ x.answer = tokenJob[q].answer /\ x.kind = tokenJob[q].kind
      /\ x.client = tokenJob[q].client /\ x.token = tokenJob[q].token
      /\ x.type = tokenJob[q].type /\ x.spent = tokenJob[q].spent
      /\ x.served = tokenJob[q].served
  BY <1>1, <1>2 DEF TokenWork
<1>7. tokenJob[q].answer = "none" /\ tokenJob[q].client \in Holder /\ SpentTrue(tokenJob[q])
  BY DEF TokenInv, UseTrue
<1>8. SpentTrue(x)'
  BY <1>6, <1>7 DEF SpentTrue, Rows
<1>9. UseTrue(q)'
  BY <1>5, <1>6, <1>7, <1>8 DEF UseTrue, SpentTrue, Exchangeable
<1> QED BY <1>3, <1>4, <1>9, TokenReads

\* The same for a request that reads no user.
LEMMA TokenGoesOn ==
    ASSUME TokenInv, NEW q \in TokenRequest, NEW place \in TokenPlaces,
           tokenJob[q].kind # "none", UNCHANGED Rows,
           tokenJob' = [tokenJob EXCEPT ![q].at = place],
           place \in {"inspect", "user", "subject", "actor", "issue"},
           tokenJob[q].at # "done",
           place \in {"subject", "actor", "issue"} => tokenJob[q].served,
           place = "inspect" => tokenJob[q].served,
           place \in {"subject", "actor"} => tokenJob[q].kind = "exchange",
           place = "user" => tokenJob[q].spent = {},
           place \in {"actor", "issue"} /\ tokenJob[q].kind = "exchange"
              => Exchangeable(tokenJob[q])
    PROVE  TokenInv'
<1>1. tokenJob[q].user \in Person \cup {Nobody} /\ tokenJob[q] \in TokenWork
  BY TokenJobTypes DEF TokenInv
<1>2. [tokenJob[q] EXCEPT !.at = place]
         = [tokenJob[q] EXCEPT !.user = tokenJob[q].user, !.at = place]
  BY <1>1 DEF TokenWork
<1>3. tokenJob' = [tokenJob EXCEPT ![q].user = tokenJob[q].user, ![q].at = place]
  BY <1>2
<1> QED BY <1>1, <1>3, TokenGoes

\* A client is authenticated.
LEMMA AuthenticateStep ==
    ASSUME TokenInv, NEW q \in TokenRequest, AuthenticateHolder(q) \/ AuthenticateCaller(q)
    PROVE  TokenInv'
<1>1. tokenJob[q].at = "new" /\ tokenJob[q].kind \in Grants \cup {"introspect"} /\ UNCHANGED Rows
  BY DEF AuthenticateHolder, AuthenticateCaller
<1>2. tokenJob[q].kind # "none"
  BY <1>1 DEF Grants
<1>3. CASE ~Authenticates(q)
  BY <1>1, <1>2, <1>3, TokenRefused DEF AuthenticateHolder, AuthenticateCaller
<1>4. CASE Authenticates(q)
  <2>1. tokenJob[q].served
    BY <1>1, <1>2, <1>4 DEF TokenInv, UseTrue
  <2>2. PICK place \in {"subject", "issue", "inspect"} :
           /\ tokenJob' = [tokenJob EXCEPT ![q].at = place]
           /\ place = "subject" <=> tokenJob[q].kind = "exchange"
    BY <1>1, <1>4 DEF AuthenticateHolder, AuthenticateCaller
  <2> QED BY <1>1, <1>2, <2>1, <2>2, TokenGoesOn DEF TokenPlaces
<1> QED BY <1>3, <1>4

\* A token that was found live was not spent when its request arrived.
LEMMA FoundIsFresh ==
    ASSUME TokenInv, NEW q \in TokenRequest, tokenJob[q].kind \in {"introspect", "userinfo", "exchange"}
    PROVE  /\ tokenJob[q].token \in Token
           /\ AccessFound(tokenJob[q].token) => tokenJob[q].spent = {}
           /\ RefreshFound(tokenJob[q].token) => "revoked" \notin tokenJob[q].spent
           /\ JwtVerifies(tokenJob[q].token) => "expired" \notin tokenJob[q].spent
<1>1. SpentTrue(tokenJob[q]) /\ tokenJob[q].spent \subseteq {"revoked", "expired"}
  BY TokenJobTypes DEF TokenInv, UseTrue
<1>2. tokenJob[q].token \in Token
  BY <1>1, TokenJobTypes DEF TokenInv, SpentTrue
<1>3. tokenJob[q].token # Nobody
  BY <1>2, TokenAssumption
<1> QED BY <1>1, <1>2, <1>3 DEF SpentTrue, AccessFound, RefreshFound, JwtVerifies, Expired

\* Introspection and user information.
LEMMA InspectStep ==
    ASSUME TokenInv, NEW q \in TokenRequest, Inspect(q) \/ ReadGrant(q) \/ ReadPerson(q)
    PROVE  TokenInv'
<1>1. UNCHANGED Rows /\ tokenJob[q].at # "done" /\ tokenJob[q].kind # "none" /\ TokensGoOn
  BY DEF Inspect, ReadGrant, ReadPerson, Rows, TokensGoOn, TokenInv, UseTrue
<1>2. CASE Inspect(q)
  <2>1. PICK answer \in {"active", "inactive"} :
           EndToken(q, answer) /\ (answer = "active" => AccessFound(tokenJob[q].token))
    BY <1>2 DEF Inspect
  <2>2. tokenJob[q].served /\ (answer = "active" => tokenJob[q].spent = {})
    BY <1>2, <2>1, FoundIsFresh DEF Inspect, TokenInv, UseTrue
  <2>3. UseTrue(q)' /\ \E x \in TokenWork : tokenJob' = [tokenJob EXCEPT ![q] = x]
    BY <1>1, <2>1, <2>2, TokenAnswer DEF Answers
  <2> QED BY <1>1, <2>3, TokenReads
<1>3. CASE ReadGrant(q)
  <2> DEFINE t == tokenJob[q].token
  <2>1. CASE JwtVerifies(t) /\ AccessFound(t) /\ token[t].user # Nobody
    <3>1. t \in Token /\ tokenJob[q].spent = {}
      BY <1>3, <2>1, FoundIsFresh DEF ReadGrant
    <3>2. token[t].user \in Person \cup {Nobody}
      BY <3>1 DEF TokenInv, TokenTypeOK, TokenRow
    <3>3. tokenJob' = [tokenJob EXCEPT ![q].user = token[t].user, ![q].at = "user"]
      BY <1>3, <2>1 DEF ReadGrant
    <3> QED BY <1>1, <3>1, <3>2, <3>3, TokenGoes DEF TokenPlaces
  <2>2. CASE ~(JwtVerifies(t) /\ AccessFound(t) /\ token[t].user # Nobody)
    BY <1>1, <1>3, <2>2, TokenRefused DEF ReadGrant
  <2> QED BY <2>1, <2>2
<1>4. CASE ReadPerson(q)
  <2>1. PICK answer \in {"claims", "refused"} : EndToken(q, answer)
    BY <1>4 DEF ReadPerson
  <2>2. tokenJob[q].spent = {}
    BY <1>4 DEF ReadPerson, TokenInv, UseTrue
  <2>3. UseTrue(q)' /\ \E x \in TokenWork : tokenJob' = [tokenJob EXCEPT ![q] = x]
    BY <1>1, <2>1, <2>2, TokenAnswer DEF Answers
  <2> QED BY <1>1, <2>3, TokenReads
<1> QED BY <1>2, <1>3, <1>4

\* The subject and the actor of an exchange.
LEMMA SubjectStep ==
    ASSUME TokenInv, NEW q \in TokenRequest, ReadSubject(q) \/ ReadActor(q)
    PROVE  TokenInv'
<1>1. /\ UNCHANGED Rows /\ tokenJob[q].at \in {"subject", "actor"} /\ tokenJob[q].kind = "exchange"
      /\ tokenJob[q].served
  BY DEF ReadSubject, ReadActor, TokenInv, UseTrue
<1>2. CASE EndToken(q, "refused")
  BY <1>1, <1>2, TokenRefused
<1>3. CASE ReadSubject(q) /\ ~EndToken(q, "refused")
  <2>1. CASE tokenJob[q].type = "refresh" => RefreshFound(tokenJob[q].token)
    <3>1. tokenJob[q].type # "refresh" => JwtVerifies(tokenJob[q].token)
      BY <1>3 DEF ReadSubject
    <3>2. Exchangeable(tokenJob[q]) /\ tokenJob[q].token \in Token
      BY <1>1, <2>1, <3>1, FoundIsFresh DEF Exchangeable
    <3>3. token[tokenJob[q].token].user \in Person \cup {Nobody}
      BY <3>2 DEF TokenInv, TokenTypeOK, TokenRow
    <3>4. PICK u \in Person \cup {Nobody}, place \in {"issue", "actor"} :
             tokenJob' = [tokenJob EXCEPT ![q].user = u, ![q].at = place]
      BY <1>3, <3>3 DEF ReadSubject
    <3> QED BY <1>1, <3>2, <3>4, TokenGoes DEF TokenPlaces
  <2>2. CASE ~(tokenJob[q].type = "refresh" => RefreshFound(tokenJob[q].token))
    BY <1>3, <2>2 DEF ReadSubject
  <2> QED BY <2>1, <2>2
<1>4. CASE ReadActor(q) /\ ~EndToken(q, "refused")
  <2>1. tokenJob' = [tokenJob EXCEPT ![q].at = "issue"] /\ tokenJob[q].at = "actor"
    BY <1>4 DEF ReadActor
  <2>2. Exchangeable(tokenJob[q])
    BY <1>1, <2>1 DEF TokenInv, UseTrue
  <2> QED BY <1>1, <2>1, <2>2, TokenGoesOn DEF TokenPlaces
<1> QED BY <1>2, <1>3, <1>4

\* A grant stores a row, or refuses.
LEMMA IssueTokenStep ==
    ASSUME TokenInv, NEW q \in TokenRequest, NEW t \in Token,
           \/ IssueAccess(q, t) \/ IssueRefresh(q, t)
           \/ IssueForAssertion(q, t) \/ IssueForClient(q, t)
    PROVE  TokenInv'
<1>1. PICK u \in Person \cup {Nobody}, refresh \in BOOLEAN : StoreToken(q, t, u, refresh)
  BY TokenJobTypes DEF IssueAccess, IssueRefresh, IssueForAssertion, IssueForClient, TokenInv
<1>2. tokenJob[q].at = "issue" /\ EndToken(q, "tokens")
      /\ UNCHANGED <<holder, person, tokenScene>>
  BY <1>1 DEF StoreToken
<1>3. /\ tokenJob[q].served /\ tokenJob[q].kind # "none"
      /\ tokenJob[q].kind = "exchange" => Exchangeable(tokenJob[q])
  BY <1>2 DEF TokenInv, UseTrue
<1>4. PICK new : new = [status |-> "live", expired |-> FALSE, refresh |-> refresh,
                        client |-> tokenJob[q].client, user |-> u]
  OBVIOUS
<1>5. new \in TokenRow
  BY <1>4, TokenJobTypes DEF TokenInv, TokenRow
<1>6. token' = [token EXCEPT ![t] = new] /\ token[t].status = "unborn"
  BY <1>1, <1>4 DEF StoreToken
<1>7. token' \in [Token -> TokenRow] /\ TokensGoOn
  BY <1>5, <1>6 DEF TokenInv, TokenTypeOK, TokensGoOn
<1>8. UseTrue(q)' /\ \E x \in TokenWork : tokenJob' = [tokenJob EXCEPT ![q] = x]
  BY <1>2, <1>3, <1>7, TokenAnswer DEF Answers
<1> QED BY <1>2, <1>7, <1>8, TokenMoves

\* Rows that change beside the requests.
LEMMA TokenRowStep ==
    ASSUME TokenInv, token' \in [Token -> TokenRow], TokensGoOn,
           person' \in [Person -> {"enabled", "disabled", "deleted"}],
           UNCHANGED <<holder, tokenJob, tokenScene>>
    PROVE  TokenInv'
<1>1. TokenTypeOK'
  BY DEF TokenInv, TokenTypeOK
<1>2. ASSUME NEW r \in TokenRequest PROVE UseTrue(r)'
  <2>1. Authenticates(r)' <=> Authenticates(r)
    BY DEF Authenticates
  <2>2. tokenJob[r].token \in Token \cup {Nobody} /\ UseTrue(r)
    BY TokenJobTypes DEF TokenInv
  <2>3. SpentTrue(tokenJob[r]) => SpentTrue(tokenJob[r])'
    BY <2>2 DEF SpentTrue, TokensGoOn
  <2> QED BY <2>1, <2>2, <2>3 DEF UseTrue, SpentTrue, Exchangeable
<1> QED BY <1>1, <1>2 DEF TokenInv

\* A client's row changes: whoever could now authenticate is noted as served.
LEMMA HolderStep ==
    ASSUME TokenInv, NEW h \in Holder, NEW new \in HolderRow, ChangeHolder(h, new)
    PROVE  TokenInv'
<1>1. /\ holder' = [holder EXCEPT ![h] = new]
      /\ token' = token /\ person' = person /\ tokenScene' = tokenScene
  BY DEF ChangeHolder
<1>2. ASSUME NEW q \in TokenRequest
      PROVE  /\ tokenJob'[q] \in TokenWork
             /\ \A f \in {"kind", "at", "client", "secret", "token", "type", "spent", "answer"} :
                   tokenJob'[q][f] = tokenJob[q][f]
             /\ tokenJob[q].served => tokenJob'[q].served
             /\ tokenJob[q].client = h /\ tokenJob[q].at # "done" /\ new.enabled
                   /\ new.secret = tokenJob[q].secret => tokenJob'[q].served
  <2>1. PICK good \in BOOLEAN :
           good = (tokenJob[q].served \/ (tokenJob[q].client = h /\ tokenJob[q].at # "done"
                                          /\ new.enabled /\ new.secret = tokenJob[q].secret))
    OBVIOUS
  <2>2. tokenJob'[q] = [tokenJob[q] EXCEPT !.served = good]
    BY <2>1 DEF ChangeHolder
  <2>3. tokenJob[q] \in TokenWork
    BY DEF TokenInv, TokenTypeOK
  <2>4. tokenJob'[q] \in TokenWork /\ tokenJob'[q].served = good
    BY <2>2, <2>3 DEF TokenWork
  <2>5. \A f \in {"kind", "at", "client", "secret", "token", "type", "spent", "answer"} :
           tokenJob'[q][f] = tokenJob[q][f]
    BY <2>2, <2>3 DEF TokenWork
  <2> QED BY <2>1, <2>4, <2>5
<1>3. tokenJob' \in [TokenRequest -> TokenWork]
  <2>1. tokenJob' = [q \in TokenRequest |-> tokenJob'[q]]
    BY DEF ChangeHolder
  <2> QED BY <1>2, <2>1
<1>4. TokenTypeOK'
  BY <1>1, <1>3 DEF TokenInv, TokenTypeOK
<1>5. ASSUME NEW q \in TokenRequest PROVE UseTrue(q)'
  <2>1. /\ tokenJob'[q].kind = tokenJob[q].kind /\ tokenJob'[q].at = tokenJob[q].at
        /\ tokenJob'[q].client = tokenJob[q].client /\ tokenJob'[q].secret = tokenJob[q].secret
        /\ tokenJob'[q].token = tokenJob[q].token /\ tokenJob'[q].type = tokenJob[q].type
        /\ tokenJob'[q].spent = tokenJob[q].spent /\ tokenJob'[q].answer = tokenJob[q].answer
        /\ tokenJob[q].served => tokenJob'[q].served
    BY <1>2
  <2>2. UseTrue(q) /\ holder \in [Holder -> HolderRow]
    BY DEF TokenInv, TokenTypeOK
  <2>3. tokenJob[q].kind # "none" /\ tokenJob[q].at = "new" /\ Authenticates(q)'
           => tokenJob'[q].served
    <3>1. CASE tokenJob[q].client = h
      BY <1>1, <1>2, <2>1, <2>2, <3>1 DEF Authenticates
    <3>2. CASE tokenJob[q].client # h
      BY <1>1, <2>1, <2>2, <3>2 DEF Authenticates, UseTrue
    <3> QED BY <3>1, <3>2
  <2>0. PICK x : x = tokenJob'[q]
    OBVIOUS
  <2>4. SpentTrue(tokenJob[q]) => SpentTrue(x)'
    BY <1>1, <2>0, <2>1 DEF SpentTrue
  <2>5. Exchangeable(tokenJob[q]) => Exchangeable(x)
    BY <2>0, <2>1 DEF Exchangeable
  <2> QED BY <2>0, <2>1, <2>2, <2>3, <2>4, <2>5 DEF UseTrue, SpentTrue, Exchangeable
<1> QED BY <1>4, <1>5 DEF TokenInv

\* Every step keeps the invariant.
LEMMA TokenStepKeeps == TokenInv /\ [TokenNext]_tokenVars => TokenInv'
<1> SUFFICES ASSUME TokenInv, [TokenNext]_tokenVars PROVE TokenInv'
  OBVIOUS
<1>1. ASSUME NEW q \in TokenRequest, RefuseToken(q) PROVE TokenInv'
  <2>1. tokenJob[q].kind # "none"
    BY <1>1 DEF RefuseToken, TokenInv, UseTrue
  <2> QED BY <1>1, <2>1, TokenRefused DEF RefuseToken
<1>2. ASSUME NEW t \in Token, RevokeToken(t) \/ ExpireToken(t) PROVE TokenInv'
  <2>1. /\ token[t] \in TokenRow /\ token \in [Token -> TokenRow]
        /\ token[t].status # "unborn"
    BY <1>2 DEF RevokeToken, ExpireToken, Born, TokenInv, TokenTypeOK
  <2>2. PICK new \in TokenRow :
           /\ token' = [token EXCEPT ![t] = new] /\ new.status # "unborn"
           /\ token[t].status = "revoked" => new.status = "revoked"
           /\ token[t].expired => new.expired
    <3>1. CASE RevokeToken(t)
      <4>1. PICK new : new = [token[t] EXCEPT !.status = "revoked"]
        OBVIOUS
      <4>2. token' = [token EXCEPT ![t] = new]
        BY <3>1, <4>1 DEF RevokeToken
      <4>3. new \in TokenRow /\ new.status = "revoked" /\ new.expired = token[t].expired
        BY <2>1, <4>1 DEF TokenRow
      <4> QED BY <4>2, <4>3
    <3>2. CASE ExpireToken(t)
      <4>1. PICK new : new = [token[t] EXCEPT !.expired = TRUE]
        OBVIOUS
      <4>2. token' = [token EXCEPT ![t] = new]
        BY <3>2, <4>1 DEF ExpireToken
      <4>3. new \in TokenRow /\ new.status = token[t].status /\ new.expired
        BY <2>1, <4>1 DEF TokenRow
      <4> QED BY <2>1, <4>2, <4>3
    <3> QED BY <1>2, <3>1, <3>2
  <2>4. token' \in [Token -> TokenRow] /\ TokensGoOn
    BY <2>1, <2>2 DEF TokensGoOn
  <2>3. person' \in [Person -> {"enabled", "disabled", "deleted"}]
        /\ UNCHANGED <<holder, tokenJob, tokenScene>>
    BY <1>2 DEF RevokeToken, ExpireToken, TokenInv, TokenTypeOK
  <2> QED BY <2>4, <2>3, TokenRowStep
<1>3. ASSUME NEW u \in Person, NEW status \in {"enabled", "disabled", "deleted"},
             ChangePerson(u, status)
      PROVE  TokenInv'
  <2>1. /\ token' \in [Token -> TokenRow] /\ TokensGoOn
        /\ person' \in [Person -> {"enabled", "disabled", "deleted"}]
        /\ UNCHANGED <<holder, tokenJob, tokenScene>>
    BY <1>3 DEF ChangePerson, TokenInv, TokenTypeOK, TokensGoOn
  <2> QED BY <2>1, TokenRowStep
<1>4. CASE UNCHANGED tokenVars
  <2>1. /\ token' \in [Token -> TokenRow] /\ TokensGoOn
        /\ person' \in [Person -> {"enabled", "disabled", "deleted"}]
        /\ UNCHANGED <<holder, tokenJob, tokenScene>>
    BY <1>4 DEF tokenVars, TokenInv, TokenTypeOK, TokensGoOn
  <2> QED BY <2>1, TokenRowStep
<1> QED
  BY <1>1, <1>2, <1>3, <1>4, ArriveTokenStep, AuthenticateStep, InspectStep, SubjectStep,
     IssueTokenStep, HolderStep DEF TokenNext

\* The invariant holds before the first request.
LEMMA TokenStart == TokenInit => TokenInv
<1> SUFFICES ASSUME TokenInit PROVE TokenInv
  OBVIOUS
<1>1. token \in [Token -> TokenRow]
  <2>1. UnbornToken \in TokenRow
    BY DEF UnbornToken, TokenRow
  <2>2. [status : {"live", "revoked"}, expired : BOOLEAN, refresh : BOOLEAN,
         client : Holder, user : Person \cup {Nobody}] \subseteq TokenRow
    BY DEF TokenRow
  <2> QED BY <2>1, <2>2 DEF TokenInit
<1>2. holder \in [Holder -> HolderRow]
  <2>1. [enabled : BOOLEAN, secret : {0}] \subseteq HolderRow
    BY DEF HolderRow
  <2> QED BY <2>1 DEF TokenInit
<1>3. /\ IdleTokenJob \in TokenWork /\ IdleTokenJob.kind = "none" /\ IdleTokenJob.at = "new"
      /\ IdleTokenJob.answer = "none"
  BY DEF IdleTokenJob, TokenWork, TokenPlaces, Answers, SubjectTypes
<1>4. TokenTypeOK
  BY <1>1, <1>2, <1>3 DEF TokenInit, TokenTypeOK
<1>5. \A q \in TokenRequest : UseTrue(q)
  BY <1>3 DEF TokenInit, UseTrue
<1> QED BY <1>4, <1>5 DEF TokenInv

\* The invariant of the use of tokens.
THEOREM TokenInvariance == TokenSpec => []TokenInv
BY TokenStart, TokenStepKeeps, PTL DEF TokenSpec

\* A token that was revoked or expired when a request arrived is never called active and gives
\* no claims, and is exchanged only where token_exchange.rs does not look: a revoked access or
\* ID token, an expired refresh token. For any number of tokens and requests.
THEOREM SpentStaysSpent == TokenSpec => []SpentTokensStaySpent
<1>1. TokenInv => SpentTokensStaySpent
  BY DEF TokenInv, UseTrue, SpentTokensStaySpent, Exchangeable
<1> QED BY <1>1, TokenInvariance, PTL

\* Whoever is answered was, at some moment since it asked, an enabled client that presented
\* its current secret.
THEOREM AnsweredWereServed == TokenSpec => []AnsweredClientsAuthenticated
<1>1. TokenInv => AnsweredClientsAuthenticated
  BY DEF TokenInv, UseTrue, AnsweredClientsAuthenticated
<1> QED BY <1>1, TokenInvariance, PTL

-----------------------------------------------------------------------------
(* RealmKeys: a stored secret yields one that was entered, and the keys of *)
(* a realm stay its keys.                                                  *)

\* The keys a realm may have: none, or its own, encrypted at most once.
KeySets == {{}} \cup {{[plain |-> KeyPair, layers |-> n]} : n \in 0 .. 1}

\* A provider's stored secret is readable; of the empty secret nothing is promised.
SecretTrue(p) ==
    /\ provider[p].secret.plain \in Secret
    /\ provider[p].secret.plain # Empty =>
          provider[p].secret.layers <= 1 /\ provider[p].secret.plain \in entered[p]

\* What a request holds to be written: of a provider that exists, a value that stays readable
\* once it is written.  A row listed to be encrypted again is not encrypted, but for the
\* ciphertext of the empty secret.
RealmTrue(j) ==
    /\ j.at \in {"keys", "realm", "cache"} => j.realm \in Realm
    /\ j.at = "write" /\ j.kind # "provider" => j.realm \in Realm
    /\ j.at = "write" /\ j.kind = "provider" =>
          /\ j.provider \in Provider /\ provider[j.provider].status # "unborn"
          /\ j.changed.status = "live" /\ j.changed.secret.plain \in Secret
          /\ j.changed.secret.plain # Empty => j.changed.secret.layers <= 1
    /\ \A y \in j.secrets :
          /\ provider[y[1]].status # "unborn" /\ y[2].layers <= 1 /\ y[2].plain \in Secret
          /\ y[2].plain # Empty => y[2].layers = 0 /\ y[2].plain \in entered[y[1]]
    /\ \A y \in j.pairs : y[2].plain = KeyPair /\ y[2].layers = 0

RealmRowsTrue ==
    /\ realm \in [Realm -> RealmRow]
    /\ keys \in [Realm -> KeySets]
    /\ provider \in [Provider -> ProviderRow]
    /\ service \in [Realm -> Signers]
    /\ entered \in [Provider -> SUBSET Secret]
    /\ realmScene \in RealmScenes
    /\ \A p \in Provider : SecretTrue(p)

RealmInv ==
    /\ RealmRowsTrue
    /\ realmJob \in [RealmRequest -> RealmWork]
    /\ \A q \in RealmRequest : RealmTrue(realmJob[q])

\* What the keys of a realm may be, in terms of the components' own definitions.
LEMMA KeySetsReadable ==
    ASSUME NEW set \in KeySets
    PROVE  /\ set \subseteq Cipher /\ Cardinality(set) <= 1
           /\ \A k \in set : k.plain = KeyPair /\ k.layers <= 1
<1>1. CASE set = {}
  BY <1>1, FS_EmptySet
<1>2. CASE \E n \in 0 .. 1 : set = {[plain |-> KeyPair, layers |-> n]}
  <2>1. PICK n \in 0 .. 1 : set = {[plain |-> KeyPair, layers |-> n]}
    BY <1>2
  <2>2. Cardinality(set) = 1
    BY <2>1, FS_Singleton
  <2>3. [plain |-> KeyPair, layers |-> n] \in Cipher
    BY <2>1 DEF Cipher
  <2> QED BY <2>1, <2>2, <2>3
<1> QED BY <1>1, <1>2 DEF KeySets

\* The invariant gives the component's type invariant and its property.
LEMMA RealmConsequences == RealmInv => RealmTypeOK /\ SecretsReadable
<1> SUFFICES ASSUME RealmInv PROVE RealmTypeOK /\ SecretsReadable
  OBVIOUS
<1>1. \A r \in Realm : /\ keys[r] \subseteq Cipher /\ Cardinality(keys[r]) <= 1
                       /\ \A k \in keys[r] : k.plain = KeyPair /\ k.layers <= 1
  BY KeySetsReadable DEF RealmInv, RealmRowsTrue
<1> QED BY <1>1 DEF RealmInv, RealmRowsTrue, RealmTypeOK, SecretsReadable, SecretTrue

\* The fields of a request.
LEMMA RealmJobTypes ==
    ASSUME RealmInv, NEW q \in RealmRequest
    PROVE  /\ realmJob[q] \in RealmWork /\ RealmTrue(realmJob[q])
           /\ realmJob[q].row \in RealmRow /\ realmJob[q].changed \in ProviderRow
           /\ realmJob[q].found \in Signers
           /\ realmJob[q].secrets \subseteq Provider \X Cipher
           /\ realmJob[q].pairs \subseteq Realm \X Cipher
BY DEF RealmInv, RealmWork

\* Providers are born, and secrets entered, for good.
RealmGoesOn ==
    \A p \in Provider : provider[p].status # "unborn" =>
        provider'[p].status # "unborn" /\ entered[p] \subseteq entered'[p]

\* A step of one request keeps the invariant when it keeps it of that request and of the rows.
LEMMA RealmMoves ==
    ASSUME RealmInv, NEW q \in RealmRequest, NEW x \in RealmWork,
           realmJob' = [realmJob EXCEPT ![q] = x], RealmRowsTrue', RealmGoesOn, RealmTrue(x)'
    PROVE  RealmInv'
<1>1. ASSUME NEW r \in RealmRequest, r # q PROVE RealmTrue(realmJob[r])'
  <2>1. PICK j : j = realmJob[r]
    OBVIOUS
  <2>2. realmJob'[r] = j
    BY <1>1, <2>1 DEF RealmInv
  <2>3. RealmTrue(j) /\ j.secrets \subseteq Provider \X Cipher
    BY <2>1, RealmJobTypes
  <2>4. \A y \in j.secrets : y[1] \in Provider
    BY <2>3
  <2>5. RealmTrue(j)'
    BY <2>3, <2>4 DEF RealmTrue, RealmGoesOn
  <2> QED BY <2>2, <2>5 DEF RealmTrue
<1>2. realmJob' \in [RealmRequest -> RealmWork]
  BY DEF RealmInv
<1>3. RealmTrue(realmJob[q])'
  <2>1. realmJob'[q] = x
    BY DEF RealmInv
  <2> QED BY <2>1 DEF RealmTrue
<1> QED BY <1>1, <1>2, <1>3 DEF RealmInv

\* The same for a step that changes no row.
LEMMA RealmReads ==
    ASSUME RealmInv, NEW q \in RealmRequest, NEW x \in RealmWork,
           realmJob' = [realmJob EXCEPT ![q] = x], UNCHANGED Stores, RealmTrue(x)
    PROVE  RealmInv'
<1>1. /\ realm' = realm /\ keys' = keys /\ provider' = provider /\ service' = service
      /\ entered' = entered /\ realmScene' = realmScene
  BY DEF Stores
<1>2. RealmRowsTrue'
  BY <1>1 DEF RealmInv, RealmRowsTrue, SecretTrue
<1>3. RealmGoesOn /\ RealmTrue(x)'
  BY <1>1 DEF RealmGoesOn, RealmTrue
<1> QED BY <1>2, <1>3, RealmMoves

\* And for a step of no request.
LEMMA RealmBeside ==
    ASSUME RealmInv, realmJob' = realmJob, RealmRowsTrue', RealmGoesOn
    PROVE  RealmInv'
<1>1. ASSUME NEW q \in RealmRequest PROVE RealmTrue(realmJob[q])'
  <2>1. RealmTrue(realmJob[q]) /\ \A y \in realmJob[q].secrets : y[1] \in Provider
    BY RealmJobTypes
  <2> QED BY <2>1 DEF RealmTrue, RealmGoesOn
<1> QED BY <1>1 DEF RealmInv

\* A request is done with.
LEMMA RealmDone ==
    ASSUME RealmInv, NEW q \in RealmRequest, RealmAt(q, "done")
    PROVE  \E x \in RealmWork :
              /\ realmJob' = [realmJob EXCEPT ![q] = x] /\ x.at = "done"
              /\ x.secrets = realmJob[q].secrets /\ x.pairs = realmJob[q].pairs
<1>1. PICK x : x = [realmJob[q] EXCEPT !.at = "done"]
  OBVIOUS
<1>2. realmJob[q] \in RealmWork
  BY RealmJobTypes
<1>3. x \in RealmWork
  BY <1>1, <1>2 DEF RealmWork
<1>4. x.at = "done" /\ x.secrets = realmJob[q].secrets /\ x.pairs = realmJob[q].pairs
  BY <1>1, <1>2 DEF RealmWork
<1>5. realmJob' = [realmJob EXCEPT ![q] = x]
  BY <1>1 DEF RealmAt
<1> QED BY <1>3, <1>4, <1>5

\* A request that writes rows and is done with.
LEMMA RealmWritten ==
    ASSUME RealmInv, NEW q \in RealmRequest, RealmAt(q, "done"), RealmRowsTrue', RealmGoesOn
    PROVE  RealmInv'
<1>1. PICK x \in RealmWork :
         /\ realmJob' = [realmJob EXCEPT ![q] = x] /\ x.at = "done"
         /\ x.secrets = realmJob[q].secrets /\ x.pairs = realmJob[q].pairs
  BY RealmDone
<1>2. \A y \in x.secrets : y[1] \in Provider
  BY <1>1, RealmJobTypes
<1>3. RealmTrue(realmJob[q])
  BY RealmJobTypes
<1>4. RealmTrue(x)'
  BY <1>1, <1>2, <1>3 DEF RealmTrue, RealmGoesOn
<1> QED BY <1>1, <1>4, RealmMoves

\* A realm is created, and then its keys.
LEMMA CreateRealmStep ==
    ASSUME RealmInv, NEW q \in RealmRequest, NEW r \in Realm, CreateRealm(q, r)
    PROVE  RealmInv'
<1>1. PICK e \in BOOLEAN :
         realm' = [realm EXCEPT ![r] = [status |-> "live", enabled |-> e, policy |-> 0]]
  BY DEF CreateRealm
<1>2. PICK x : x = [realmJob[q] EXCEPT !.kind = "create", !.realm = r, !.at = "keys"]
  OBVIOUS
<1>3. realmJob[q] \in RealmWork /\ RealmTrue(realmJob[q])
  BY RealmJobTypes
<1>4. x \in RealmWork
  <2>1. "create" \in RealmKinds \cup {"none"} /\ r \in Realm \cup {NoRealm}
    BY DEF RealmKinds
  <2> QED BY <1>2, <1>3, <2>1 DEF RealmWork
<1>5. realmJob' = [realmJob EXCEPT ![q] = x]
  BY <1>2 DEF CreateRealm
<1>6. /\ keys' = keys /\ provider' = provider /\ service' = service
      /\ entered' = entered /\ realmScene' = realmScene
  BY DEF CreateRealm
<1>7. realm' \in [Realm -> RealmRow]
  BY <1>1 DEF RealmInv, RealmRowsTrue, RealmRow
<1>8. RealmRowsTrue' /\ RealmGoesOn
  BY <1>6, <1>7 DEF RealmInv, RealmRowsTrue, SecretTrue, RealmGoesOn
<1>9. x.at = "keys" /\ x.realm = r /\ x.secrets = realmJob[q].secrets /\ x.pairs = realmJob[q].pairs
  BY <1>2, <1>3 DEF RealmWork
<1>10. RealmTrue(x)'
  BY <1>3, <1>6, <1>9 DEF RealmTrue
<1> QED BY <1>4, <1>5, <1>8, <1>10, RealmMoves

\* What encrypting gives.
LEMMA Sealing ==
    /\ \A s \in Secret \cup {KeyPair} :
          Sealed(s) \in Cipher /\ Sealed(s).plain = s /\ Sealed(s).layers = 1
    /\ {Sealed(KeyPair)} \in KeySets
<1>1. ASSUME NEW s \in Secret \cup {KeyPair} PROVE Sealed(s) = [plain |-> s, layers |-> 1]
  BY DEF Sealed, Encrypt
<1>2. [plain |-> KeyPair, layers |-> 1] \in {[plain |-> KeyPair, layers |-> n] : n \in 0 .. 1}
  OBVIOUS
<1> QED BY <1>1, <1>2 DEF Cipher, KeySets

\* The keys are stored; a read row is written back; a realm is deleted; a service is cached.
LEMMA WriteRealmStep ==
    ASSUME RealmInv, NEW q \in RealmRequest,
           StoreKeys(q) \/ WriteRealm(q) \/ DeleteRealm(q) \/ CacheService(q)
    PROVE  RealmInv'
<1>1. /\ RealmAt(q, "done") /\ provider' = provider /\ entered' = entered
      /\ realmScene' = realmScene
  BY DEF StoreKeys, WriteRealm, DeleteRealm, CacheService
<1>2. /\ realmJob[q].realm \in Realm /\ realmJob[q].row \in RealmRow
      /\ realmJob[q].found \in Signers
  BY RealmJobTypes DEF StoreKeys, WriteRealm, DeleteRealm, CacheService, RealmTrue
<1>3. RealmRowsTrue
  BY DEF RealmInv
<1>4. keys' \in [Realm -> KeySets]
  BY <1>3, Sealing DEF RealmRowsTrue, StoreKeys, WriteRealm, DeleteRealm, CacheService
<1>5. service' \in [Realm -> Signers]
  BY <1>2, <1>3 DEF RealmRowsTrue, StoreKeys, WriteRealm, DeleteRealm, CacheService
<1>6. realm' \in [Realm -> RealmRow]
  <2>1. CASE DeleteRealm(q)
    <3>1. PICK row : row = [realm[realmJob[q].realm] EXCEPT !.status = "deleted"]
      OBVIOUS
    <3>2. row \in RealmRow
      BY <1>2, <1>3, <3>1 DEF RealmRowsTrue, RealmRow
    <3>3. realm' = [realm EXCEPT ![realmJob[q].realm] = row]
      BY <2>1, <3>1 DEF DeleteRealm
    <3> QED BY <1>2, <1>3, <3>2, <3>3 DEF RealmRowsTrue
  <2>2. CASE ~DeleteRealm(q)
    BY <1>2, <1>3, <2>2 DEF RealmRowsTrue, StoreKeys, WriteRealm, CacheService
  <2> QED BY <2>1, <2>2
<1>7. RealmRowsTrue' /\ RealmGoesOn
  BY <1>1, <1>3, <1>4, <1>5, <1>6 DEF RealmRowsTrue, SecretTrue, RealmGoesOn
<1> QED BY <1>1, <1>7, RealmWritten

\* A realm is read to be edited.
LEMMA ReadRealmStep ==
    ASSUME RealmInv, NEW q \in RealmRequest, NEW r \in Realm, EditSettings(q, r) \/ EditPolicy(q, r)
    PROVE  RealmInv'
<1>1. realm[r] \in RealmRow
  BY DEF RealmInv, RealmRowsTrue
<1>2. PICK kind \in {"settings", "policy"}, row \in RealmRow : ReadRealm(q, r, kind, row)
  <2>1. CASE EditSettings(q, r)
    <3>1. PICK e \in BOOLEAN : ReadRealm(q, r, "settings", [realm[r] EXCEPT !.enabled = e])
      BY <2>1 DEF EditSettings
    <3>2. [realm[r] EXCEPT !.enabled = e] \in RealmRow
      BY <1>1 DEF RealmRow
    <3> QED BY <3>1, <3>2
  <2>2. CASE EditPolicy(q, r)
    <3>1. [realm[r] EXCEPT !.policy = 1 - @] \in RealmRow
      BY <1>1 DEF RealmRow
    <3> QED BY <2>2, <3>1 DEF EditPolicy
  <2> QED BY <2>1, <2>2
<1>3. PICK x : x = [realmJob[q] EXCEPT !.kind = kind, !.realm = r, !.row = row, !.at = "write"]
  OBVIOUS
<1>4. realmJob[q] \in RealmWork /\ RealmTrue(realmJob[q])
  BY RealmJobTypes
<1>5. x \in RealmWork
  <2>1. kind \in RealmKinds \cup {"none"} /\ r \in Realm \cup {NoRealm}
    BY DEF RealmKinds
  <2> QED BY <1>3, <1>4, <2>1 DEF RealmWork
<1>6. realmJob' = [realmJob EXCEPT ![q] = x] /\ UNCHANGED Stores
  BY <1>2, <1>3 DEF ReadRealm
<1>7. /\ x.at = "write" /\ x.kind = kind /\ x.realm = r
      /\ x.secrets = realmJob[q].secrets /\ x.pairs = realmJob[q].pairs
  BY <1>3, <1>4 DEF RealmWork
<1>8. RealmTrue(x)
  BY <1>2, <1>4, <1>7 DEF RealmTrue
<1> QED BY <1>5, <1>6, <1>8, RealmReads

\* The keys of a realm are deleted before it.
LEMMA DeleteKeysStep ==
    ASSUME RealmInv, NEW q \in RealmRequest, NEW r \in Realm, DeleteKeys(q, r)
    PROVE  RealmInv'
<1>1. PICK x : x = [realmJob[q] EXCEPT !.kind = "delete", !.realm = r, !.at = "realm"]
  OBVIOUS
<1>2. realmJob[q] \in RealmWork /\ RealmTrue(realmJob[q])
  BY RealmJobTypes
<1>3. x \in RealmWork
  <2>1. "delete" \in RealmKinds \cup {"none"} /\ r \in Realm \cup {NoRealm}
    BY DEF RealmKinds
  <2> QED BY <1>1, <1>2, <2>1 DEF RealmWork
<1>4. /\ x.at = "realm" /\ x.realm = r
      /\ x.secrets = realmJob[q].secrets /\ x.pairs = realmJob[q].pairs
  BY <1>1, <1>2 DEF RealmWork
<1>5. realmJob' = [realmJob EXCEPT ![q] = x]
  BY <1>1 DEF DeleteKeys
<1>6. /\ realm' = realm /\ provider' = provider /\ service' = service
      /\ entered' = entered /\ realmScene' = realmScene
  BY DEF DeleteKeys
<1>7. keys' \in [Realm -> KeySets]
  BY DEF DeleteKeys, RealmInv, RealmRowsTrue, KeySets
<1>8. RealmRowsTrue' /\ RealmGoesOn
  BY <1>6, <1>7 DEF RealmInv, RealmRowsTrue, SecretTrue, RealmGoesOn
<1>9. RealmTrue(x)'
  BY <1>2, <1>4, <1>6 DEF RealmTrue
<1> QED BY <1>3, <1>5, <1>8, <1>9, RealmMoves

\* A service is asked for.
LEMMA AskServiceStep ==
    ASSUME RealmInv, NEW q \in RealmRequest, NEW r \in Realm, AskService(q, r)
    PROVE  RealmInv'
<1>1. PICK found \in Signers, place \in {"done", "cache"} :
         realmJob' = [realmJob EXCEPT ![q].kind = "ask", ![q].realm = r, ![q].found = found,
                                      ![q].at = place]
  BY DEF AskService
<1>2. PICK x : x = [realmJob[q] EXCEPT !.kind = "ask", !.realm = r, !.found = found, !.at = place]
  OBVIOUS
<1>3. realmJob[q] \in RealmWork /\ RealmTrue(realmJob[q])
  BY RealmJobTypes
<1>4. x \in RealmWork
  <2>1. "ask" \in RealmKinds \cup {"none"} /\ r \in Realm \cup {NoRealm}
    BY DEF RealmKinds
  <2> QED BY <1>2, <1>3, <2>1 DEF RealmWork
<1>5. /\ x.at \in {"done", "cache"} /\ x.realm = r
      /\ x.secrets = realmJob[q].secrets /\ x.pairs = realmJob[q].pairs
  BY <1>2, <1>3 DEF RealmWork
<1>6. realmJob' = [realmJob EXCEPT ![q] = x] /\ UNCHANGED Stores
  BY <1>1, <1>2 DEF AskService
<1>7. RealmTrue(x)
  BY <1>3, <1>5 DEF RealmTrue
<1> QED BY <1>4, <1>6, <1>7, RealmReads

\* A request ends.
LEMMA EndRealmJobStep ==
    ASSUME RealmInv, NEW q \in RealmRequest, EndRealmJob(q)
    PROVE  RealmInv'
<1>1. PICK x : x = [realmJob[q] EXCEPT !.at = "done", !.secrets = {}, !.pairs = {}]
  OBVIOUS
<1>2. realmJob[q] \in RealmWork
  BY RealmJobTypes
<1>3. x \in RealmWork /\ x.at = "done" /\ x.secrets = {} /\ x.pairs = {}
  BY <1>1, <1>2 DEF RealmWork
<1>4. realmJob' = [realmJob EXCEPT ![q] = x] /\ UNCHANGED Stores
  BY <1>1 DEF EndRealmJob
<1>5. RealmTrue(x)
  BY <1>3 DEF RealmTrue
<1> QED BY <1>3, <1>4, <1>5, RealmReads

\* A provider is created, with a secret of its own; or deleted.
LEMMA ProviderRowStep ==
    ASSUME RealmInv, NEW p \in Provider, DeleteProvider(p) \/ \E s \in Secret : CreateProvider(p, s)
    PROVE  RealmInv'
<1>1. /\ realm' = realm /\ keys' = keys /\ service' = service /\ realmJob' = realmJob
      /\ realmScene' = realmScene /\ RealmRowsTrue
  BY DEF DeleteProvider, CreateProvider, RealmInv
<1>2. CASE DeleteProvider(p)
  <2>1. PICK row : row = [provider[p] EXCEPT !.status = "deleted"]
    OBVIOUS
  <2>2. row \in ProviderRow /\ row.secret = provider[p].secret /\ row.status = "deleted"
    BY <1>1, <2>1 DEF RealmRowsTrue, ProviderRow
  <2>3. provider' = [provider EXCEPT ![p] = row] /\ entered' = entered
    BY <1>2, <2>1 DEF DeleteProvider
  <2>4. RealmRowsTrue' /\ RealmGoesOn
    BY <1>1, <2>2, <2>3 DEF RealmRowsTrue, SecretTrue, RealmGoesOn
  <2> QED BY <1>1, <2>4, RealmBeside
<1>3. ASSUME NEW s \in Secret, CreateProvider(p, s) PROVE RealmInv'
  <2>1. PICK row : row = [status |-> "live", enabled |-> TRUE, secret |-> Sealed(s)]
    OBVIOUS
  <2>2. /\ row \in ProviderRow /\ row.status = "live"
        /\ row.secret.plain = s /\ row.secret.layers = 1
    BY <2>1, Sealing DEF ProviderRow
  <2>3. /\ provider' = [provider EXCEPT ![p] = row] /\ provider[p].status = "unborn"
        /\ entered' = [entered EXCEPT ![p] = {s}]
    BY <1>3, <2>1 DEF CreateProvider
  <2>4. provider' \in [Provider -> ProviderRow] /\ entered' \in [Provider -> SUBSET Secret]
    BY <1>1, <2>2, <2>3 DEF RealmRowsTrue
  <2>5. ASSUME NEW o \in Provider PROVE SecretTrue(o)'
    BY <1>1, <2>2, <2>3 DEF RealmRowsTrue, SecretTrue
  <2>6. RealmGoesOn
    BY <1>1, <2>2, <2>3 DEF RealmRowsTrue, RealmGoesOn
  <2>7. RealmRowsTrue'
    BY <1>1, <2>4, <2>5 DEF RealmRowsTrue
  <2> QED BY <1>1, <2>6, <2>7, RealmBeside
<1> QED BY <1>2, <1>3

\* A provider is read to be edited: with its stored secret, or a new one.
LEMMA ReadProviderStep ==
    ASSUME RealmInv, NEW q \in RealmRequest, NEW p \in Provider, ReadProvider(q, p)
    PROVE  RealmInv'
<1>1. PICK e \in BOOLEAN, new \in {provider[p].secret} \cup {Sealed(s) : s \in Secret} :
         realmJob' = [realmJob EXCEPT ![q].kind = "provider", ![q].provider = p, ![q].at = "write",
            ![q].changed = [status |-> "live", enabled |-> e, secret |-> new]]
  BY Zenon DEF ReadProvider
<1>2. provider[p].status = "live" /\ UNCHANGED Stores
  BY DEF ReadProvider
<1>3. new \in Cipher /\ new.plain \in Secret /\ (new.plain # Empty => new.layers <= 1)
  <2>1. CASE new = provider[p].secret
    BY <2>1 DEF RealmInv, RealmRowsTrue, SecretTrue, ProviderRow
  <2>2. CASE \E s \in Secret : new = Sealed(s)
    BY <2>2, Sealing
  <2> QED BY <1>1, <2>1, <2>2
<1>4. PICK row : row = [status |-> "live", enabled |-> e, secret |-> new]
  OBVIOUS
<1>5. row \in ProviderRow /\ row.status = "live" /\ row.secret = new
  BY <1>3, <1>4 DEF ProviderRow
<1>6. PICK x : x = [realmJob[q] EXCEPT !.kind = "provider", !.provider = p, !.at = "write",
                                       !.changed = row]
  OBVIOUS
<1>7. realmJob[q] \in RealmWork /\ RealmTrue(realmJob[q])
  BY RealmJobTypes
<1>8. x \in RealmWork
  <2>1. "provider" \in RealmKinds \cup {"none"} /\ p \in Provider \cup {NoRealm}
    BY DEF RealmKinds
  <2> QED BY <1>5, <1>6, <1>7, <2>1 DEF RealmWork
<1>9. /\ x.at = "write" /\ x.kind = "provider" /\ x.provider = p /\ x.changed = row
      /\ x.secrets = realmJob[q].secrets /\ x.pairs = realmJob[q].pairs
  BY <1>6, <1>7 DEF RealmWork
<1>10. realmJob' = [realmJob EXCEPT ![q] = x]
  BY <1>1, <1>4, <1>6
<1>11. RealmTrue(x)
  BY <1>2, <1>3, <1>5, <1>7, <1>9 DEF RealmTrue
<1> QED BY <1>2, <1>8, <1>10, <1>11, RealmReads

\* The edited provider is written, if it is still there.
LEMMA WriteProviderStep ==
    ASSUME RealmInv, NEW q \in RealmRequest, WriteProvider(q)
    PROVE  RealmInv'
<1> DEFINE p == realmJob[q].provider
<1>1. PICK row : row = realmJob[q].changed
  OBVIOUS
<1>2. /\ p \in Provider /\ row.status = "live" /\ row \in ProviderRow
      /\ row.secret.plain \in Secret
      /\ row.secret.plain # Empty => row.secret.layers <= 1
  BY <1>1, RealmJobTypes DEF WriteProvider, RealmTrue
<1>3. /\ realm' = realm /\ keys' = keys /\ service' = service /\ RealmAt(q, "done")
      /\ realmScene' = realmScene /\ RealmRowsTrue
  BY DEF WriteProvider, RealmInv
<1>4. CASE provider[p].status = "live"
  <2>1. /\ provider' = [provider EXCEPT ![p] = row]
        /\ entered' = [entered EXCEPT ![p] = @ \cup {row.secret.plain}]
    BY <1>1, <1>4 DEF WriteProvider
  <2> HIDE DEF p
  <2>2. provider' \in [Provider -> ProviderRow] /\ entered' \in [Provider -> SUBSET Secret]
    BY <1>2, <1>3, <2>1 DEF RealmRowsTrue
  <2>3. ASSUME NEW o \in Provider PROVE SecretTrue(o)'
    BY <1>2, <1>3, <2>1 DEF RealmRowsTrue, SecretTrue
  <2>4. RealmRowsTrue'
    BY <1>3, <2>2, <2>3 DEF RealmRowsTrue
  <2>5. RealmGoesOn
    BY <1>2, <1>3, <2>1 DEF RealmRowsTrue, RealmGoesOn
  <2> QED BY <1>3, <2>4, <2>5, RealmWritten
<1>5. CASE provider[p].status # "live"
  <2>1. provider' = provider /\ entered' = entered
    BY <1>5 DEF WriteProvider
  <2>2. RealmRowsTrue' /\ RealmGoesOn
    BY <1>3, <2>1 DEF RealmRowsTrue, SecretTrue, RealmGoesOn
  <2> QED BY <1>3, <2>2, RealmWritten
<1> QED BY <1>4, <1>5

\* The providers, and later the keys, that are to be encrypted are listed.
LEMMA ListStep ==
    ASSUME RealmInv, NEW q \in RealmRequest, ListSecrets(q) \/ ListKeys(q)
    PROVE  RealmInv'
<1>1. realmJob[q] \in RealmWork /\ RealmTrue(realmJob[q]) /\ RealmRowsTrue /\ UNCHANGED Stores
  BY RealmJobTypes DEF RealmInv, ListSecrets, ListKeys
<1>2. CASE ListSecrets(q)
  <2>1. PICK set : set = Legacy({<<p, provider[p].secret>> :
                                    p \in {o \in Provider : provider[o].status = "live"}})
    OBVIOUS
  <2>2. ASSUME NEW y \in set
        PROVE  /\ y \in Provider \X Cipher
               /\ provider[y[1]].status # "unborn" /\ y[2].layers <= 1 /\ y[2].plain \in Secret
               /\ y[2].plain # Empty => y[2].layers = 0 /\ y[2].plain \in entered[y[1]]
    <3>1. PICK p \in Provider :
             y = <<p, provider[p].secret>> /\ provider[p].status = "live" /\ ~Decrypts(y[2])
      BY <2>1 DEF Legacy
    <3>2. provider[p].secret \in Cipher /\ SecretTrue(p)
      BY <1>1 DEF RealmRowsTrue, ProviderRow
    <3>3. y[1] = p /\ y[2] = provider[p].secret /\ y \in Provider \X Cipher
      BY <3>1, <3>2
    <3>4. y[2].layers \in 0 .. 2 /\ ~(y[2].layers >= 1 /\ ~(y[2].layers = 1 /\ y[2].plain = Empty))
      BY <3>1, <3>2, <3>3 DEF Decrypts, Cipher
    <3> QED BY <3>1, <3>2, <3>3, <3>4 DEF SecretTrue
  <2>3. PICK x : x = [realmJob[q] EXCEPT !.kind = "reencrypt", !.at = "secrets", !.secrets = set]
    OBVIOUS
  <2>4. x \in RealmWork
    <3>1. "reencrypt" \in RealmKinds \cup {"none"} /\ set \subseteq Provider \X Cipher
      BY <2>2 DEF RealmKinds
    <3> QED BY <1>1, <2>3, <3>1 DEF RealmWork
  <2>5. x.at = "secrets" /\ x.secrets = set /\ x.pairs = realmJob[q].pairs
    BY <1>1, <2>3 DEF RealmWork
  <2>6. realmJob' = [realmJob EXCEPT ![q] = x]
    BY <1>2, <2>1, <2>3 DEF ListSecrets
  <2>7. RealmTrue(x)
    BY <1>1, <2>2, <2>5 DEF RealmTrue
  <2> QED BY <1>1, <2>4, <2>6, <2>7, RealmReads
<1>3. CASE ListKeys(q)
  <2>1. PICK set : set = Legacy(UNION {{r} \X keys[r] : r \in Realm})
    OBVIOUS
  <2>2. ASSUME NEW y \in set
        PROVE  y \in Realm \X Cipher /\ y[2].plain = KeyPair /\ y[2].layers = 0
    <3>1. PICK r \in Realm : y \in {r} \X keys[r] /\ ~Decrypts(y[2])
      BY <2>1 DEF Legacy
    <3>2. PICK k \in keys[r] : y = <<r, k>>
      BY <3>1
    <3>3. k \in Cipher /\ k.plain = KeyPair /\ k.layers <= 1 /\ k.layers \in 0 .. 2
      <4>1. keys[r] \in KeySets
        BY <1>1 DEF RealmRowsTrue
      <4>2. k \in Cipher /\ k.plain = KeyPair /\ k.layers <= 1
        BY <4>1, KeySetsReadable
      <4> QED BY <4>2 DEF Cipher
    <3>4. y[1] = r /\ y[2] = k /\ y \in Realm \X Cipher
      BY <3>2, <3>3
    <3>5. KeyPair # Empty
      BY RealmAssumption
    <3> QED BY <3>1, <3>3, <3>4, <3>5 DEF Decrypts
  <2>3. PICK x : x = [realmJob[q] EXCEPT !.at = "pairs", !.pairs = set]
    OBVIOUS
  <2>4. x \in RealmWork
    <3>1. set \subseteq Realm \X Cipher
      BY <2>2
    <3> QED BY <1>1, <2>3, <3>1 DEF RealmWork
  <2>5. x.at = "pairs" /\ x.secrets = realmJob[q].secrets /\ x.pairs = set
    BY <1>1, <2>3 DEF RealmWork
  <2>6. realmJob' = [realmJob EXCEPT ![q] = x]
    BY <1>3, <2>1, <2>3 DEF ListKeys
  <2>7. RealmTrue(x)
    BY <1>1, <2>2, <2>5 DEF RealmTrue
  <2> QED BY <1>1, <2>4, <2>6, <2>7, RealmReads
<1> QED BY <1>2, <1>3

\* A listed value is written back encrypted: once, but for the empty secret.
LEMMA ReencryptStep ==
    ASSUME RealmInv, NEW q \in RealmRequest, ReencryptSecret(q) \/ ReencryptKeys(q)
    PROVE  RealmInv'
<1>1. realmJob[q] \in RealmWork /\ RealmTrue(realmJob[q]) /\ RealmRowsTrue
  BY RealmJobTypes DEF RealmInv
<1>2. ASSUME NEW y \in realmJob[q].secrets, ReencryptSecret(q),
             provider' = [provider EXCEPT ![y[1]].secret = Encrypt(y[2])],
             realmJob' = [realmJob EXCEPT ![q].secrets = @ \ {y}]
      PROVE  RealmInv'
  <2>1. PICK p \in Provider, v \in Cipher : y = <<p, v>> /\ p = y[1] /\ v = y[2]
    BY RealmJobTypes
  <2>2. /\ provider[p].status # "unborn" /\ v.layers <= 1 /\ v.plain \in Secret
        /\ v.plain # Empty => v.layers = 0 /\ v.plain \in entered[p]
    BY <1>1, <2>1 DEF RealmTrue
  <2>3. PICK w : w = Encrypt(v)
    OBVIOUS
  <2>4. w \in Cipher /\ w.plain = v.plain /\ w.layers = v.layers + 1
    BY <2>2, <2>3 DEF Encrypt, Cipher
  <2>5. PICK row : row = [provider[p] EXCEPT !.secret = w]
    OBVIOUS
  <2>6. row \in ProviderRow /\ row.secret = w /\ row.status = provider[p].status
    BY <1>1, <2>4, <2>5 DEF RealmRowsTrue, ProviderRow
  <2>7. provider' = [provider EXCEPT ![p] = row]
    BY <1>2, <2>1, <2>3, <2>5
  <2>8. /\ realm' = realm /\ keys' = keys /\ service' = service
        /\ entered' = entered /\ realmScene' = realmScene
    BY <1>2 DEF ReencryptSecret
  <2>9. ASSUME NEW o \in Provider PROVE SecretTrue(o)'
    <3>1. CASE o = p
      <4>1. provider'[o].secret = w /\ entered'[o] = entered[p]
        BY <1>1, <2>6, <2>7, <2>8, <3>1 DEF RealmRowsTrue
      <4>2. w.plain # Empty => w.layers <= 1
        BY <2>2, <2>4
      <4> QED BY <2>2, <2>4, <4>1, <4>2 DEF SecretTrue
    <3>2. CASE o # p
      BY <1>1, <2>7, <2>8, <3>2 DEF RealmRowsTrue, SecretTrue
    <3> QED BY <3>1, <3>2
  <2>10. RealmRowsTrue' /\ RealmGoesOn
    BY <1>1, <2>6, <2>7, <2>8, <2>9 DEF RealmRowsTrue, RealmGoesOn
  <2>11. PICK x : x = [realmJob[q] EXCEPT !.secrets = @ \ {y}]
    OBVIOUS
  <2>12. x \in RealmWork
    <3>1. (realmJob[q].secrets \ {y}) \subseteq Provider \X Cipher
      BY RealmJobTypes
    <3> QED BY <1>1, <2>11, <3>1 DEF RealmWork
  <2>13. /\ x.at = "secrets" /\ x.secrets = realmJob[q].secrets \ {y}
         /\ x.pairs = realmJob[q].pairs
    BY <1>1, <1>2, <2>11 DEF RealmWork, ReencryptSecret
  <2>14. RealmTrue(x)'
    <3>1. \A z \in x.secrets : z[1] \in Provider
      BY <2>13, RealmJobTypes
    <3> QED BY <1>1, <2>8, <2>10, <2>13, <3>1 DEF RealmTrue, RealmGoesOn
  <2>15. realmJob' = [realmJob EXCEPT ![q] = x]
    BY <1>2, <2>11
  <2> QED BY <2>10, <2>12, <2>14, <2>15, RealmMoves
<1>3. ASSUME NEW y \in realmJob[q].pairs, ReencryptKeys(q),
             keys' = IF keys[y[1]] = {} THEN keys
                     ELSE [keys EXCEPT ![y[1]] = {Encrypt(y[2])}],
             realmJob' = [realmJob EXCEPT ![q].pairs = @ \ {y}]
      PROVE  RealmInv'
  <2>1. PICK r \in Realm, v \in Cipher : y = <<r, v>> /\ r = y[1] /\ v = y[2]
    BY RealmJobTypes
  <2>2. v.plain = KeyPair /\ v.layers = 0
    BY <1>1, <2>1 DEF RealmTrue
  <2>3. Encrypt(v) = [plain |-> KeyPair, layers |-> 1]
    BY <2>2 DEF Encrypt, Cipher
  <2>4. {Encrypt(v)} \in KeySets
    BY <2>3 DEF KeySets
  <2>5. keys' \in [Realm -> KeySets]
    BY <1>1, <1>3, <2>1, <2>4 DEF RealmRowsTrue
  <2>6. /\ realm' = realm /\ provider' = provider /\ service' = service
        /\ entered' = entered /\ realmScene' = realmScene
    BY <1>3 DEF ReencryptKeys
  <2>7. RealmRowsTrue' /\ RealmGoesOn
    BY <1>1, <2>5, <2>6 DEF RealmRowsTrue, SecretTrue, RealmGoesOn
  <2>8. PICK x : x = [realmJob[q] EXCEPT !.pairs = @ \ {y}]
    OBVIOUS
  <2>9. x \in RealmWork
    <3>1. (realmJob[q].pairs \ {y}) \subseteq Realm \X Cipher
      BY RealmJobTypes
    <3> QED BY <1>1, <2>8, <3>1 DEF RealmWork
  <2>10. /\ x.at = "pairs" /\ x.secrets = realmJob[q].secrets
         /\ x.pairs = realmJob[q].pairs \ {y}
    BY <1>1, <1>3, <2>8 DEF RealmWork, ReencryptKeys
  <2>11. RealmTrue(x)'
    BY <1>1, <2>6, <2>10 DEF RealmTrue
  <2>12. realmJob' = [realmJob EXCEPT ![q] = x]
    BY <1>3, <2>8
  <2> QED BY <2>7, <2>9, <2>11, <2>12, RealmMoves
<1>4. CASE ReencryptSecret(q)
  <2>1. PICK y \in realmJob[q].secrets :
           /\ provider' = [provider EXCEPT ![y[1]].secret = Encrypt(y[2])]
           /\ realmJob' = [realmJob EXCEPT ![q].secrets = @ \ {y}]
    BY <1>4 DEF ReencryptSecret
  <2> QED BY <1>2, <1>4, <2>1
<1>5. CASE ReencryptKeys(q)
  <2>1. PICK y \in realmJob[q].pairs :
           /\ keys' = IF keys[y[1]] = {} THEN keys
                      ELSE [keys EXCEPT ![y[1]] = {Encrypt(y[2])}]
           /\ realmJob' = [realmJob EXCEPT ![q].pairs = @ \ {y}]
    BY <1>5 DEF ReencryptKeys
  <2> QED BY <1>3, <1>5, <2>1
<1> QED BY <1>4, <1>5

\* Every step keeps the invariant.
LEMMA RealmStepKeeps == RealmInv /\ [RealmNext]_realmVars => RealmInv'
<1> SUFFICES ASSUME RealmInv, [RealmNext]_realmVars PROVE RealmInv'
  OBVIOUS
<1>1. CASE UNCHANGED realmVars
  <2>1. RealmRowsTrue' /\ RealmGoesOn /\ realmJob' = realmJob
    BY <1>1 DEF realmVars, RealmInv, RealmRowsTrue, SecretTrue, RealmGoesOn
  <2> QED BY <2>1, RealmBeside
<1>2. CASE RealmNext
  BY <1>2, CreateRealmStep, WriteRealmStep, ReadRealmStep, DeleteKeysStep, AskServiceStep,
     EndRealmJobStep, ProviderRowStep, ReadProviderStep, WriteProviderStep, ListStep,
     ReencryptStep DEF RealmNext
<1> QED BY <1>1, <1>2

\* The invariant holds before the first request: what is stored was entered, encrypted at
\* most once.
LEMMA RealmStart == RealmInit => RealmInv
<1> SUFFICES ASSUME RealmInit PROVE RealmInv
  OBVIOUS
<1>1. realm \in [Realm -> RealmRow]
  <2>1. UnbornRealm \in RealmRow /\ [status |-> "live", enabled |-> TRUE, policy |-> 0] \in RealmRow
    BY DEF UnbornRealm, RealmRow
  <2> QED BY <2>1 DEF RealmInit
<1>2. keys \in [Realm -> KeySets]
  <2>1. {[plain |-> KeyPair, layers |-> 0]} \in KeySets /\ {} \in KeySets
    BY DEF KeySets
  <2> QED BY <2>1, Sealing DEF RealmInit
<1>3. ASSUME NEW p \in Provider PROVE provider[p] \in ProviderRow /\ SecretTrue(p)
  <2>1. CASE provider[p] = UnbornProvider
    BY <2>1, RealmAssumption DEF UnbornProvider, NoCipher, ProviderRow, Cipher, SecretTrue
  <2>2. CASE provider[p] \in [status : {"live"}, enabled : {TRUE},
                              secret : [plain : Secret, layers : 0 .. 1]]
    <3>1. provider[p].secret \in [plain : Secret, layers : 0 .. 1] /\ provider[p].status = "live"
      BY <2>2
    <3>2. provider[p].secret \in Cipher
      BY <3>1 DEF Cipher
    <3>3. provider[p] \in ProviderRow
      BY <2>2, <3>2 DEF ProviderRow
    <3>4. entered[p] = {provider[p].secret.plain}
      BY <3>1 DEF RealmInit
    <3> QED BY <3>1, <3>3, <3>4 DEF SecretTrue
  <2> QED BY <2>1, <2>2 DEF RealmInit
<1>4. provider \in [Provider -> ProviderRow]
  BY <1>3 DEF RealmInit
<1>5. entered \in [Provider -> SUBSET Secret]
  BY <1>3 DEF RealmInit, SecretTrue
<1>6. service \in [Realm -> Signers] /\ realmScene \in RealmScenes
  BY DEF RealmInit, Signers
<1>7. IdleRealmJob \in RealmWork /\ RealmTrue(IdleRealmJob)
  <2>1. UnbornProvider \in ProviderRow /\ UnbornRealm \in RealmRow
    BY RealmAssumption DEF UnbornProvider, NoCipher, ProviderRow, Cipher, UnbornRealm, RealmRow
  <2> QED BY <2>1 DEF IdleRealmJob, RealmWork, RealmTrue, Signers
<1>8. RealmRowsTrue
  BY <1>1, <1>2, <1>3, <1>4, <1>5, <1>6 DEF RealmRowsTrue
<1> QED BY <1>7, <1>8 DEF RealmInit, RealmInv

\* The invariant of the secrets of realms.
THEOREM RealmInvariance == RealmSpec => []RealmInv
BY RealmStart, RealmStepKeeps, PTL DEF RealmSpec

\* Encryption in place, run twice, at once or cut off, against administrators who change the
\* same rows, leaves every stored secret but the empty one decryptable to a value that was
\* entered, and the keys of every realm its own, for any number of realms, providers, values
\* and requests.
THEOREM SecretsStayReadable == RealmSpec => []SecretsReadable
BY RealmInvariance, RealmConsequences, PTL

-----------------------------------------------------------------------------
(* SamlLogin: one assertion and one state open one session, a request is   *)
(* answered once, and a realm shows one key.                               *)

SamlRowTypes ==
    /\ pending \in [Pending -> PendingRow]
    /\ assertion \in [Assertion -> AssertionRow]
    /\ replays \in [AuthnRequest \cup Assertion -> {"none", "fresh", "old"}]
    /\ samlKey \in SamlCall \cup {NoSaml}
    /\ peer \in {"enabled", "disabled", "deleted"}
    /\ opened \in [SamlSession -> SessionRow]
    /\ answers \in [AuthnRequest -> Nat]
    /\ forgotten \subseteq AuthnRequest
    /\ samlScene \in SamlScenes
    /\ \A a \in Assertion : assertion[a].status # "unissued" => assertion[a].answers \in Pending

\* A call that has recorded an application's request and has not yet answered it.
Marking(j) == j.at = "mark" /\ j.kind # "acs"

\* A call beyond its first statement knows what it is about: an assertion that was issued for
\* its state; a state it has marked, which is never open again; a request that is recorded
\* and not answered, unless its record was swept.
SamlTrue(j) ==
    /\ j.at = "login" => j.kind # "acs"
    /\ j.at \in {"login", "record", "mark"} /\ j.kind # "acs" => j.request \in AuthnRequest
    /\ j.at \in {"record", "mark", "user"} /\ j.kind = "acs" =>
          /\ j.assertion \in Assertion /\ assertion[j.assertion].status # "unissued"
          /\ j.pending \in Pending /\ assertion[j.assertion].answers = j.pending
    /\ j.at = "mark" => j.pending \in Pending
    /\ j.at = "user" => j.kind = "acs" /\ pending[j.pending].status \in {"used", "swept"}
    /\ Marking(j) /\ j.request \notin forgotten =>
          replays[j.request] # "none" /\ answers[j.request] = 0
    /\ j.key # NoSaml => j.key = samlKey

\* The same of a session that was opened.
SessionTrue(s) ==
    opened[s].status # "unborn" =>
        /\ opened[s].pending \in Pending /\ opened[s].assertion \in Assertion
        /\ pending[opened[s].pending].status \in {"used", "swept"}
        /\ assertion[opened[s].assertion].status # "unissued"
        /\ assertion[opened[s].assertion].answers = opened[s].pending

\* Two calls about to open a session hold two states; two about to answer one request met a
\* swept record.
Apart(j, k) ==
    /\ j.at = "user" /\ k.at = "user" => j.pending # k.pending
    /\ Marking(j) /\ Marking(k) /\ j.request = k.request => j.request \in forgotten

CallsApart == \A q, k \in SamlCall : q # k => Apart(samlCall[q], samlCall[k])

SessionsApart ==
    /\ \A s, t \in SamlSession :
          s # t /\ opened[s].status # "unborn" /\ opened[t].status # "unborn" =>
              opened[s].pending # opened[t].pending
    /\ \A s \in SamlSession, q \in SamlCall :
          opened[s].status # "unborn" /\ samlCall[q].at = "user" =>
              opened[s].pending # samlCall[q].pending

AnsweredTrue ==
    \A r \in AuthnRequest \ forgotten :
        answers[r] <= 1 /\ (answers[r] = 1 => replays[r] # "none")

SamlInv ==
    /\ SamlRowTypes
    /\ samlCall \in [SamlCall -> SamlWork]
    /\ \A q \in SamlCall : SamlTrue(samlCall[q])
    /\ \A s \in SamlSession : SessionTrue(s)
    /\ CallsApart /\ SessionsApart /\ AnsweredTrue

\* The fields of a call.
LEMMA SamlCallTypes ==
    ASSUME SamlInv, NEW q \in SamlCall
    PROVE  /\ samlCall[q] \in SamlWork /\ SamlTrue(samlCall[q])
           /\ samlCall[q].request \in AuthnRequest \cup {NoSaml}
           /\ samlCall[q].pending \in Pending \cup {NoSaml}
           /\ samlCall[q].assertion \in Assertion \cup {NoSaml}
           /\ samlCall[q].key \in SamlCall \cup {NoSaml}
BY DEF SamlInv, SamlWork

\* What only ever goes one way: an assertion is issued for one request, a state is used up, a
\* record stays unless it is swept, a key is made once.
SamlGoesOn ==
    /\ \A a \in Assertion : assertion[a].status # "unissued" =>
          assertion'[a].status # "unissued" /\ assertion'[a].answers = assertion[a].answers
    /\ \A p \in Pending : pending[p].status \in {"used", "swept"} =>
          pending'[p].status \in {"used", "swept"}
    /\ forgotten \subseteq forgotten'
    /\ \A r \in AuthnRequest \ forgotten' : replays[r] # "none" => replays'[r] # "none"
    /\ samlKey # NoSaml => samlKey' = samlKey

\* What is true of a call stays true when the rows go on and its request is not answered.
LEMMA SamlStays ==
    ASSUME SamlInv, NEW j, SamlTrue(j), SamlGoesOn,
           Marking(j) /\ j.request \notin forgotten' => answers'[j.request] = answers[j.request]
    PROVE  SamlTrue(j)'
<1>1. j.key # NoSaml => j.key = samlKey'
  BY DEF SamlTrue, SamlGoesOn
<1>2. Marking(j) /\ j.request \notin forgotten' =>
          replays'[j.request] # "none" /\ answers'[j.request] = 0
  BY DEF SamlTrue, SamlGoesOn, Marking
<1>3. j.at \in {"record", "mark", "user"} /\ j.kind = "acs" =>
          /\ j.assertion \in Assertion /\ assertion'[j.assertion].status # "unissued"
          /\ j.pending \in Pending /\ assertion'[j.assertion].answers = j.pending
  BY DEF SamlTrue, SamlGoesOn
<1>4. j.at = "user" => j.kind = "acs" /\ pending'[j.pending].status \in {"used", "swept"}
  BY DEF SamlTrue, SamlGoesOn
<1>5. /\ j.at = "login" => j.kind # "acs"
      /\ j.at \in {"login", "record", "mark"} /\ j.kind # "acs" => j.request \in AuthnRequest
      /\ j.at = "mark" => j.pending \in Pending
  BY DEF SamlTrue
<1> QED BY <1>1, <1>2, <1>3, <1>4, <1>5 DEF SamlTrue, Marking

\* So does what is true of a session that keeps its state and its assertion.
LEMMA SessionStays ==
    ASSUME SamlInv, SamlGoesOn, NEW s \in SamlSession,
           opened'[s].status # "unborn" =>
              /\ opened[s].status # "unborn" /\ opened'[s].pending = opened[s].pending
              /\ opened'[s].assertion = opened[s].assertion
    PROVE  SessionTrue(s)'
<1>1. SessionTrue(s)
  BY DEF SamlInv
<1> QED BY <1>1 DEF SessionTrue, SamlGoesOn

\* A call moves, and answers one request at most, which no other call is about to answer.
LEMMA SamlMoves ==
    ASSUME SamlInv, NEW q \in SamlCall, NEW x \in SamlWork,
           samlCall' = [samlCall EXCEPT ![q] = x], SamlRowTypes', SamlGoesOn,
           opened' = opened, SamlTrue(x)',
           \A k \in SamlCall \ {q} : Apart(x, samlCall[k])' /\ Apart(samlCall[k], x)',
           x.at = "user" => \A s \in SamlSession :
              opened[s].status # "unborn" => opened[s].pending # x.pending,
           \A r \in AuthnRequest \ forgotten' : answers'[r] # answers[r] =>
              /\ answers[r] = 0 /\ answers'[r] = 1 /\ replays'[r] # "none"
              /\ \A k \in SamlCall \ {q} : ~(Marking(samlCall[k]) /\ samlCall[k].request = r)
    PROVE  SamlInv'
<1>1. samlCall' \in [SamlCall -> SamlWork] /\ samlCall'[q] = x
  BY DEF SamlInv
<1>2. ASSUME NEW k \in SamlCall, k # q PROVE samlCall'[k] = samlCall[k] /\ SamlTrue(samlCall[k])'
  <2>1. PICK j : j = samlCall[k]
    OBVIOUS
  <2>2. samlCall'[k] = j
    BY <1>2, <2>1 DEF SamlInv
  <2>3. SamlTrue(j)
    BY <2>1, SamlCallTypes
  <2>4. SamlTrue(j)'
    <3>1. Marking(j) /\ j.request \notin forgotten' => answers'[j.request] = answers[j.request]
      BY <1>2, <2>1, <2>3 DEF SamlTrue, Marking
    <3> QED BY <2>3, <3>1, SamlStays
  <2> QED BY <2>1, <2>2, <2>4 DEF SamlTrue, Marking
<1>3. \A k \in SamlCall : SamlTrue(samlCall[k])'
  BY <1>1, <1>2 DEF SamlTrue, Marking
<1>4. \A s \in SamlSession : SessionTrue(s)'
  BY SessionStays
<1>5. CallsApart'
  <2>1. ASSUME NEW i \in SamlCall, NEW k \in SamlCall, i # k PROVE Apart(samlCall[i], samlCall[k])'
    <3>1. CASE i = q
      BY <1>1, <2>1, <3>1 DEF Apart, Marking
    <3>2. CASE k = q
      BY <1>1, <2>1, <3>2 DEF Apart, Marking
    <3>3. CASE i # q /\ k # q
      BY <1>2, <2>1, <3>3 DEF Apart, Marking, SamlInv, CallsApart, SamlGoesOn
    <3> QED BY <3>1, <3>2, <3>3
  <2> QED BY <2>1 DEF CallsApart
<1>6. SessionsApart'
  BY <1>1, <1>2 DEF SamlInv, SessionsApart
<1>7. AnsweredTrue'
  <2>1. ASSUME NEW r \in AuthnRequest \ forgotten'
        PROVE  answers'[r] <= 1 /\ (answers'[r] = 1 => replays'[r] # "none")
    <3>1. r \in AuthnRequest \ forgotten
      BY <2>1 DEF SamlGoesOn
    <3>2. answers[r] <= 1 /\ (answers[r] = 1 => replays[r] # "none")
      BY <3>1 DEF SamlInv, AnsweredTrue
    <3> QED BY <2>1, <3>1, <3>2 DEF SamlGoesOn
  <2> QED BY <2>1 DEF AnsweredTrue
<1> QED BY <1>1, <1>3, <1>4, <1>5, <1>6, <1>7 DEF SamlInv

\* A step of no call.
LEMMA SamlBeside ==
    ASSUME SamlInv, samlCall' = samlCall, SamlRowTypes', SamlGoesOn, answers' = answers,
           \A s \in SamlSession : opened'[s].status # "unborn" =>
              /\ opened[s].status # "unborn" /\ opened'[s].pending = opened[s].pending
              /\ opened'[s].assertion = opened[s].assertion
    PROVE  SamlInv'
<1>1. ASSUME NEW k \in SamlCall PROVE SamlTrue(samlCall[k])'
  <2>1. PICK j : j = samlCall[k]
    OBVIOUS
  <2>2. SamlTrue(j)
    BY <2>1, SamlCallTypes
  <2>3. SamlTrue(j)'
    BY <2>2, SamlStays
  <2> QED BY <2>1, <2>3 DEF SamlTrue, Marking
<1>2. \A s \in SamlSession : SessionTrue(s)'
  BY SessionStays
<1>3. CallsApart'
  BY DEF SamlInv, CallsApart, Apart, Marking, SamlGoesOn
<1>4. SessionsApart'
  BY DEF SamlInv, SessionsApart
<1>5. AnsweredTrue'
  BY DEF SamlInv, AnsweredTrue, SamlGoesOn
<1> QED BY <1>1, <1>2, <1>3, <1>4, <1>5 DEF SamlInv

\* A call that is neither about to open a session nor about to answer a request.
LEMMA SamlReads ==
    ASSUME SamlInv, NEW q \in SamlCall, NEW x \in SamlWork,
           samlCall' = [samlCall EXCEPT ![q] = x], SamlRowTypes', SamlGoesOn,
           opened' = opened, answers' = answers, SamlTrue(x)', x.at # "user", ~Marking(x)
    PROVE  SamlInv'
<1>1. \A k \in SamlCall \ {q} : Apart(x, samlCall[k])' /\ Apart(samlCall[k], x)'
  BY DEF Apart, Marking
<1> QED BY <1>1, SamlMoves

\* A step that changes no row.
LEMMA SamlSame ==
    ASSUME SamlInv, UNCHANGED <<Flow, Settings>>
    PROVE  /\ SamlRowTypes' /\ SamlGoesOn
           /\ pending' = pending /\ assertion' = assertion /\ replays' = replays
           /\ opened' = opened /\ answers' = answers /\ forgotten' = forgotten
           /\ samlKey' = samlKey
<1>1. /\ pending' = pending /\ assertion' = assertion /\ replays' = replays
      /\ opened' = opened /\ answers' = answers /\ forgotten' = forgotten
      /\ samlKey' = samlKey /\ peer' = peer /\ samlScene' = samlScene
  BY DEF Flow, Settings
<1> QED BY <1>1 DEF SamlInv, SamlRowTypes, SamlGoesOn

\* A call that only moves on.
LEMMA SamlPlaced ==
    ASSUME SamlInv, NEW q \in SamlCall, NEW place \in SamlPlaces, SamlAt(q, place)
    PROVE  \E x \in SamlWork :
              /\ samlCall' = [samlCall EXCEPT ![q] = x] /\ x.at = place
              /\ x.kind = samlCall[q].kind /\ x.request = samlCall[q].request
              /\ x.pending = samlCall[q].pending /\ x.assertion = samlCall[q].assertion
              /\ x.key = samlCall[q].key
<1>1. PICK x : x = [samlCall[q] EXCEPT !.at = place]
  OBVIOUS
<1>2. samlCall[q] \in SamlWork
  BY SamlCallTypes
<1>3. x \in SamlWork
  BY <1>1, <1>2 DEF SamlWork
<1>4. samlCall' = [samlCall EXCEPT ![q] = x]
  BY <1>1 DEF SamlAt
<1>5. /\ x.at = place /\ x.kind = samlCall[q].kind /\ x.request = samlCall[q].request
      /\ x.pending = samlCall[q].pending /\ x.assertion = samlCall[q].assertion
      /\ x.key = samlCall[q].key
  BY <1>1, <1>2 DEF SamlWork
<1> QED BY <1>3, <1>4, <1>5

\* A call ends, whatever rows it has changed, and answers nothing.
LEMMA SamlEnds ==
    ASSUME SamlInv, NEW q \in SamlCall, SamlAt(q, "done"), SamlRowTypes', SamlGoesOn,
           opened' = opened, answers' = answers
    PROVE  SamlInv'
<1>1. PICK x \in SamlWork :
         samlCall' = [samlCall EXCEPT ![q] = x] /\ x.at = "done" /\ x.key = samlCall[q].key
  BY SamlPlaced DEF SamlPlaces
<1>2. samlCall[q].key # NoSaml => samlCall[q].key = samlKey
  BY SamlCallTypes DEF SamlTrue
<1>3. SamlTrue(x)'
  BY <1>1, <1>2 DEF SamlTrue, SamlGoesOn, Marking
<1> QED BY <1>1, <1>3, SamlReads DEF Marking

\* The key of the realm is read, stored and read again.
LEMMA SamlKeyStep ==
    ASSUME SamlInv, NEW q \in SamlCall,
           ReadSamlKey(q) \/ StoreSamlKey(q) \/ RereadSamlKey(q)
    PROVE  SamlInv'
<1>1. samlCall[q] \in SamlWork /\ SamlTrue(samlCall[q]) /\ SamlRowTypes
  BY SamlCallTypes DEF SamlInv
<1>2. CASE ReadSamlKey(q)
  <2>1. PICK place \in {"own_key", "done"} :
           samlCall' = [samlCall EXCEPT ![q].kind = "metadata", ![q].key = samlKey,
                                        ![q].at = place]
    BY <1>2 DEF ReadSamlKey
  <2>2. PICK x : x = [samlCall[q] EXCEPT !.kind = "metadata", !.key = samlKey, !.at = place]
    OBVIOUS
  <2>3. x \in SamlWork
    <3>1. "metadata" \in SamlKinds \cup {"none"} /\ place \in SamlPlaces
      BY DEF SamlKinds, SamlPlaces
    <3> QED BY <1>1, <2>2, <3>1 DEF SamlWork, SamlRowTypes
  <2>4. x.at \in {"own_key", "done"} /\ x.key = samlKey
    BY <1>1, <2>2 DEF SamlWork
  <2>5. samlCall' = [samlCall EXCEPT ![q] = x] /\ UNCHANGED <<Flow, Settings>>
    BY <1>2, <2>1, <2>2 DEF ReadSamlKey
  <2>6. SamlTrue(x)'
    BY <2>4, <2>5, SamlSame DEF SamlTrue, Marking
  <2> QED BY <2>3, <2>4, <2>5, <2>6, SamlSame, SamlReads DEF Marking
<1>3. CASE StoreSamlKey(q)
  <2>1. PICK x \in SamlWork :
           samlCall' = [samlCall EXCEPT ![q] = x] /\ x.at = "reread" /\ x.key = samlCall[q].key
    BY <1>3, SamlPlaced DEF StoreSamlKey, SamlPlaces
  <2>2. /\ pending' = pending /\ assertion' = assertion /\ replays' = replays
        /\ opened' = opened /\ answers' = answers /\ forgotten' = forgotten
        /\ peer' = peer /\ samlScene' = samlScene
        /\ samlKey' = IF samlKey = NoSaml THEN q ELSE samlKey
    BY <1>3 DEF StoreSamlKey, Flow
  <2>3. SamlRowTypes' /\ SamlGoesOn
    BY <1>1, <2>2 DEF SamlRowTypes, SamlGoesOn
  <2>4. SamlTrue(x)'
    BY <1>1, <2>1, <2>2 DEF SamlTrue, Marking
  <2> QED BY <2>1, <2>2, <2>3, <2>4, SamlReads DEF Marking
<1>4. CASE RereadSamlKey(q)
  <2>1. samlCall' = [samlCall EXCEPT ![q].key = samlKey, ![q].at = "done"]
        /\ UNCHANGED <<Flow, Settings>>
    BY <1>4 DEF RereadSamlKey, KeptSamlKey
  <2>2. PICK x : x = [samlCall[q] EXCEPT !.key = samlKey, !.at = "done"]
    OBVIOUS
  <2>3. x \in SamlWork
    <3>1. "done" \in SamlPlaces
      BY DEF SamlPlaces
    <3> QED BY <1>1, <2>2, <3>1 DEF SamlWork, SamlRowTypes
  <2>4. x.at = "done" /\ x.key = samlKey /\ samlCall' = [samlCall EXCEPT ![q] = x]
    BY <1>1, <2>1, <2>2 DEF SamlWork
  <2>5. SamlTrue(x)'
    BY <2>1, <2>4, SamlSame DEF SamlTrue, Marking
  <2> QED BY <2>1, <2>3, <2>4, <2>5, SamlSame, SamlReads DEF Marking
<1> QED BY <1>2, <1>3, <1>4

\* A request is received, or resumed from its state, and waits for the session.
LEMMA ReceiveRequestStep ==
    ASSUME SamlInv, NEW q \in SamlCall,
           \/ \E r \in AuthnRequest : ReceiveRequest(q, r)
           \/ \E p \in Pending : ResumeRequest(q, p)
    PROVE  SamlInv'
<1>1. samlCall[q] \in SamlWork /\ SamlTrue(samlCall[q]) /\ SamlRowTypes
  BY SamlCallTypes DEF SamlInv
<1>2. UNCHANGED <<Flow, Settings>>
  BY DEF ReceiveRequest, ResumeRequest
<1>3. \E x \in SamlWork :
         /\ samlCall' = [samlCall EXCEPT ![q] = x] /\ x.at = "login" /\ x.kind # "acs"
         /\ x.request \in AuthnRequest /\ x.key = samlCall[q].key
  <2>1. {"sso", "resume"} \subseteq SamlKinds \cup {"none"} /\ "login" \in SamlPlaces
    BY DEF SamlKinds, SamlPlaces
  <2>2. ASSUME NEW r \in AuthnRequest, ReceiveRequest(q, r)
        PROVE  \E x \in SamlWork :
                  /\ samlCall' = [samlCall EXCEPT ![q] = x] /\ x.at = "login" /\ x.kind # "acs"
                  /\ x.request \in AuthnRequest /\ x.key = samlCall[q].key
    <3>1. PICK x : x = [samlCall[q] EXCEPT !.kind = "sso", !.request = r, !.at = "login"]
      OBVIOUS
    <3>2. x \in SamlWork
      BY <1>1, <2>1, <3>1 DEF SamlWork
    <3>3. /\ x.at = "login" /\ x.kind = "sso" /\ x.request = r /\ x.key = samlCall[q].key
      BY <1>1, <3>1 DEF SamlWork
    <3>4. samlCall' = [samlCall EXCEPT ![q] = x]
      BY <2>2, <3>1 DEF ReceiveRequest
    <3> QED BY <3>2, <3>3, <3>4
  <2>3. ASSUME NEW p \in Pending, ResumeRequest(q, p)
        PROVE  \E x \in SamlWork :
                  /\ samlCall' = [samlCall EXCEPT ![q] = x] /\ x.at = "login" /\ x.kind # "acs"
                  /\ x.request \in AuthnRequest /\ x.key = samlCall[q].key
    <3>1. PICK r \in AuthnRequest : r = pending[p].request
      BY <1>1, <2>3 DEF ResumeRequest, SamlRowTypes, PendingRow
    <3>2. PICK x : x = [samlCall[q] EXCEPT !.kind = "resume", !.request = r, !.pending = p,
                                           !.at = "login"]
      OBVIOUS
    <3>3. x \in SamlWork
      BY <1>1, <2>1, <3>2 DEF SamlWork
    <3>4. /\ x.at = "login" /\ x.kind = "resume" /\ x.request = r /\ x.key = samlCall[q].key
      BY <1>1, <3>2 DEF SamlWork
    <3>5. samlCall' = [samlCall EXCEPT ![q] = x]
      BY <2>3, <3>1, <3>2 DEF ResumeRequest
    <3> QED BY <3>3, <3>4, <3>5
  <2> QED BY <2>2, <2>3
<1>4. PICK x \in SamlWork :
         /\ samlCall' = [samlCall EXCEPT ![q] = x] /\ x.at = "login" /\ x.kind # "acs"
         /\ x.request \in AuthnRequest /\ x.key = samlCall[q].key
  BY <1>3
<1>5. SamlTrue(x)'
  BY <1>1, <1>2, <1>4, SamlSame DEF SamlTrue, Marking
<1> QED BY <1>2, <1>4, <1>5, SamlSame, SamlReads DEF Marking

\* The request is kept, or the session is there; or the call is dropped.
LEMMA SessionFoundStep ==
    ASSUME SamlInv, NEW q \in SamlCall,
           FindSession(q) \/ DropSamlCall(q) \/ \E p \in Pending : KeepRequest(q, p)
    PROVE  SamlInv'
<1>1. samlCall[q] \in SamlWork /\ SamlTrue(samlCall[q]) /\ SamlRowTypes
  BY SamlCallTypes DEF SamlInv
<1>2. CASE FindSession(q)
  <2>1. PICK x \in SamlWork :
           /\ samlCall' = [samlCall EXCEPT ![q] = x] /\ x.at = "record"
           /\ x.kind = samlCall[q].kind /\ x.request = samlCall[q].request
           /\ x.key = samlCall[q].key
    BY <1>2, SamlPlaced DEF FindSession, SamlPlaces
  <2>2. UNCHANGED <<Flow, Settings>> /\ samlCall[q].at = "login"
    BY <1>2 DEF FindSession
  <2>3. SamlTrue(x)'
    BY <1>1, <2>1, <2>2, SamlSame DEF SamlTrue, Marking
  <2> QED BY <2>1, <2>2, <2>3, SamlSame, SamlReads DEF Marking
<1>3. CASE DropSamlCall(q)
  BY <1>3, SamlSame, SamlEnds DEF DropSamlCall
<1>4. ASSUME NEW p \in Pending, KeepRequest(q, p) PROVE SamlInv'
  <2>1. samlCall[q].request \in AuthnRequest \cup {NoSaml}
    BY SamlCallTypes
  <2>2. PICK row : row = [UnbornPending EXCEPT !.status = "open", !.request = samlCall[q].request]
    OBVIOUS
  <2>3. row \in PendingRow
    BY <2>1, <2>2 DEF UnbornPending, PendingRow
  <2>4. pending' = [pending EXCEPT ![p] = row] /\ pending[p].status = "unborn"
    BY <1>4, <2>2 DEF KeepRequest
  <2>5. /\ assertion' = assertion /\ replays' = replays /\ opened' = opened
        /\ answers' = answers /\ forgotten' = forgotten /\ samlKey' = samlKey
        /\ peer' = peer /\ samlScene' = samlScene /\ SamlAt(q, "done")
    BY <1>4 DEF KeepRequest, Settings
  <2>6. SamlRowTypes' /\ SamlGoesOn
    BY <1>1, <2>3, <2>4, <2>5 DEF SamlRowTypes, SamlGoesOn
  <2> QED BY <2>5, <2>6, SamlEnds
<1> QED BY <1>2, <1>3, <1>4

\* An assertion is accepted for its state.
LEMMA AcceptAssertionStep ==
    ASSUME SamlInv, NEW q \in SamlCall, NEW a \in Assertion, AcceptAssertion(q, a)
    PROVE  SamlInv'
<1>1. samlCall[q] \in SamlWork /\ SamlTrue(samlCall[q]) /\ SamlRowTypes
  BY SamlCallTypes DEF SamlInv
<1>2. UNCHANGED <<Flow, Settings>> /\ assertion[a].status # "unissued"
  BY DEF AcceptAssertion
<1>3. PICK p : p = assertion[a].answers
  OBVIOUS
<1>4. p \in Pending
  BY <1>1, <1>2, <1>3 DEF SamlRowTypes
<1>5. PICK x : x = [samlCall[q] EXCEPT !.kind = "acs", !.assertion = a, !.pending = p,
                                       !.at = "record"]
  OBVIOUS
<1>6. x \in SamlWork
  <2>1. "acs" \in SamlKinds \cup {"none"} /\ "record" \in SamlPlaces
    BY DEF SamlKinds, SamlPlaces
  <2> QED BY <1>1, <1>4, <1>5, <2>1 DEF SamlWork
<1>7. /\ x.at = "record" /\ x.kind = "acs" /\ x.assertion = a /\ x.pending = p
      /\ x.key = samlCall[q].key
  BY <1>1, <1>5 DEF SamlWork
<1>8. samlCall' = [samlCall EXCEPT ![q] = x]
  BY <1>3, <1>5 DEF AcceptAssertion
<1>9. SamlTrue(x)'
  BY <1>1, <1>2, <1>3, <1>4, <1>7, SamlSame DEF SamlTrue, Marking
<1> QED BY <1>2, <1>6, <1>7, <1>8, <1>9, SamlSame, SamlReads DEF Marking

\* An identifier is recorded: a request that needs no state is answered at once.
LEMMA RecordStep ==
    ASSUME SamlInv, NEW q \in SamlCall, Record(q)
    PROVE  SamlInv'
<1>1. samlCall[q] \in SamlWork /\ SamlTrue(samlCall[q]) /\ SamlRowTypes
  BY SamlCallTypes DEF SamlInv
<1>2. /\ pending' = pending /\ assertion' = assertion /\ opened' = opened
      /\ forgotten' = forgotten /\ samlKey' = samlKey /\ peer' = peer
      /\ samlScene' = samlScene /\ samlCall[q].at = "record"
  BY DEF Record, Settings
<1>3. PICK id : id = Recorded(q)
  OBVIOUS
<1>4. /\ id \in AuthnRequest \cup Assertion
      /\ samlCall[q].kind # "acs" => id = samlCall[q].request /\ id \in AuthnRequest
  BY <1>1, <1>2, <1>3 DEF Recorded, SamlTrue
<1>5. CASE replays[id] # "none"
  <2>1. SamlAt(q, "done") /\ replays' = replays /\ answers' = answers
    BY <1>3, <1>5 DEF Record
  <2>2. SamlRowTypes' /\ SamlGoesOn
    BY <1>1, <1>2, <2>1 DEF SamlRowTypes, SamlGoesOn
  <2> QED BY <1>2, <2>1, <2>2, SamlEnds
<1>6. CASE replays[id] = "none"
  <2>1. PICK mark \in {"old", "fresh"} : replays' = [replays EXCEPT ![id] = mark]
    BY <1>3, <1>6 DEF Record
  <2>2. replays' \in [AuthnRequest \cup Assertion -> {"none", "fresh", "old"}]
    BY <1>1, <2>1 DEF SamlRowTypes
  <2>3. SamlGoesOn
    BY <1>1, <1>2, <1>4, <2>1 DEF SamlRowTypes, SamlGoesOn
  <2>4. replays'[id] # "none"
    BY <1>1, <1>4, <2>1 DEF SamlRowTypes
  <2>5. CASE samlCall[q].pending = NoSaml
    <3>1. SamlAt(q, "done") /\ answers' = Answer(q)
      BY <1>3, <1>6, <2>5 DEF Record
    <3>2. samlCall[q].kind # "acs"
      BY <1>1, <1>2, <2>5, SamlAssumption DEF SamlTrue
    <3>3. id = samlCall[q].request /\ id \in AuthnRequest
      BY <1>4, <3>2
    <3>4. answers' = [answers EXCEPT ![id] = @ + 1]
      BY <3>1, <3>3 DEF Answer
    <3>5. PICK x \in SamlWork :
             samlCall' = [samlCall EXCEPT ![q] = x] /\ x.at = "done" /\ x.key = samlCall[q].key
      BY <3>1, SamlPlaced DEF SamlPlaces
    <3>6. SamlRowTypes'
      BY <1>1, <1>2, <2>2, <3>3, <3>4 DEF SamlRowTypes
    <3>7. SamlTrue(x)'
      BY <1>1, <1>2, <3>5 DEF SamlTrue, Marking
    <3>8. \A k \in SamlCall \ {q} : Apart(x, samlCall[k])' /\ Apart(samlCall[k], x)'
      BY <3>5 DEF Apart, Marking
    <3>9. ASSUME NEW r \in AuthnRequest \ forgotten', answers'[r] # answers[r]
          PROVE  /\ answers[r] = 0 /\ answers'[r] = 1 /\ replays'[r] # "none"
                 /\ \A k \in SamlCall \ {q} :
                       ~(Marking(samlCall[k]) /\ samlCall[k].request = r)
      <4>1. r = id /\ id \notin forgotten
        BY <1>1, <1>2, <3>4, <3>9 DEF SamlRowTypes
      <4>2. answers[id] \in Nat /\ answers[id] <= 1 /\ answers[id] # 1
        BY <1>1, <1>6, <3>3, <4>1 DEF SamlInv, AnsweredTrue, SamlRowTypes
      <4>3. answers[id] = 0 /\ answers'[id] = 1
        BY <1>1, <3>3, <3>4, <4>2 DEF SamlRowTypes
      <4>4. ASSUME NEW k \in SamlCall \ {q}, Marking(samlCall[k]), samlCall[k].request = id
            PROVE  FALSE
        BY <1>6, <4>1, <4>4, SamlCallTypes DEF SamlTrue
      <4> QED BY <2>4, <4>1, <4>3, <4>4
    <3> QED BY <1>2, <2>3, <3>5, <3>6, <3>7, <3>8, <3>9, SamlMoves
  <2>6. CASE samlCall[q].pending # NoSaml
    <3>1. SamlAt(q, "mark") /\ answers' = answers
      BY <1>3, <1>6, <2>6 DEF Record
    <3>2. PICK x \in SamlWork :
             /\ samlCall' = [samlCall EXCEPT ![q] = x] /\ x.at = "mark"
             /\ x.kind = samlCall[q].kind /\ x.request = samlCall[q].request
             /\ x.pending = samlCall[q].pending /\ x.assertion = samlCall[q].assertion
             /\ x.key = samlCall[q].key
      BY <3>1, SamlPlaced DEF SamlPlaces
    <3>3. SamlRowTypes'
      BY <1>1, <1>2, <2>2, <3>1 DEF SamlRowTypes
    <3>4. x.pending \in Pending
      BY <2>6, <3>2, SamlCallTypes
    <3>5. ASSUME Marking(x)
          PROVE  /\ x.request = id /\ id \in AuthnRequest
                 /\ id \notin forgotten =>
                      /\ replays'[id] # "none" /\ answers'[id] = 0
                      /\ \A k \in SamlCall \ {q} :
                            ~(Marking(samlCall[k]) /\ samlCall[k].request = id)
      <4>1. x.request = id /\ id \in AuthnRequest
        BY <1>4, <3>2, <3>5 DEF Marking
      <4>2. ASSUME id \notin forgotten PROVE answers[id] = 0
        BY <1>1, <1>6, <4>1, <4>2 DEF SamlInv, AnsweredTrue, SamlRowTypes
      <4>3. ASSUME NEW k \in SamlCall \ {q}, Marking(samlCall[k]), samlCall[k].request = id
            PROVE  id \in forgotten
        BY <1>6, <4>3, SamlCallTypes DEF SamlTrue
      <4> QED BY <2>4, <3>1, <4>1, <4>2, <4>3
    <3>6. SamlTrue(x)'
      BY <1>1, <1>2, <3>2, <3>4, <3>1, <3>5 DEF SamlTrue, Marking
    <3>7. ASSUME NEW k \in SamlCall \ {q}
          PROVE  Apart(x, samlCall[k])' /\ Apart(samlCall[k], x)'
      <4>1. samlCall'[k] = samlCall[k]
        BY <3>2, <3>7 DEF SamlInv
      <4> QED BY <1>2, <3>2, <3>5, <4>1 DEF Apart, Marking
    <3>8. \A r \in AuthnRequest \ forgotten' : answers'[r] = answers[r]
      BY <3>1
    <3> QED BY <1>2, <2>3, <3>2, <3>3, <3>6, <3>7, <3>8, SamlMoves
  <2> QED BY <2>5, <2>6
<1> QED BY <1>5, <1>6

\* The state is marked: of an assertion's, a session will be opened; of a request's, the
\* request is answered.
LEMMA MarkPendingStep ==
    ASSUME SamlInv, NEW q \in SamlCall, MarkPending(q)
    PROVE  SamlInv'
<1>1. samlCall[q] \in SamlWork /\ SamlTrue(samlCall[q]) /\ SamlRowTypes
  BY SamlCallTypes DEF SamlInv
<1>2. /\ replays' = replays /\ assertion' = assertion /\ opened' = opened
      /\ forgotten' = forgotten /\ samlKey' = samlKey /\ peer' = peer
      /\ samlScene' = samlScene /\ samlCall[q].at = "mark"
  BY DEF MarkPending, Settings
<1>3. PICK p \in Pending : p = samlCall[q].pending
  BY <1>1, <1>2 DEF SamlTrue
<1>4. CASE ~Markable(p)
  <2>1. SamlAt(q, "done") /\ pending' = pending /\ answers' = answers
    BY <1>3, <1>4 DEF MarkPending
  <2>2. SamlRowTypes' /\ SamlGoesOn
    BY <1>1, <1>2, <2>1 DEF SamlRowTypes, SamlGoesOn
  <2> QED BY <1>2, <2>1, <2>2, SamlEnds
<1>5. CASE Markable(p)
  <2>1. PICK row : row = [pending[p] EXCEPT !.status = "used"]
    OBVIOUS
  <2>2. row \in PendingRow /\ row.status = "used"
    BY <1>1, <2>1 DEF SamlRowTypes, PendingRow
  <2>3. pending' = [pending EXCEPT ![p] = row]
    BY <1>3, <1>5, <2>1 DEF MarkPending
  <2>4. pending[p].status = "open"
    BY <1>5 DEF Markable, Open
  <2>5. pending' \in [Pending -> PendingRow] /\ pending'[p].status = "used"
    BY <1>1, <2>2, <2>3 DEF SamlRowTypes
  <2>6. SamlGoesOn
    BY <1>1, <1>2, <2>2, <2>3 DEF SamlRowTypes, SamlGoesOn
  <2>7. CASE samlCall[q].kind = "acs"
    <3>1. SamlAt(q, "user") /\ answers' = answers
      BY <1>3, <1>5, <2>7 DEF MarkPending
    <3>2. PICK x \in SamlWork :
             /\ samlCall' = [samlCall EXCEPT ![q] = x] /\ x.at = "user"
             /\ x.kind = samlCall[q].kind /\ x.pending = samlCall[q].pending
             /\ x.assertion = samlCall[q].assertion /\ x.key = samlCall[q].key
      BY <3>1, SamlPlaced DEF SamlPlaces
    <3>3. SamlRowTypes'
      BY <1>1, <1>2, <2>5, <3>1 DEF SamlRowTypes
    <3>4. SamlTrue(x)'
      BY <1>1, <1>2, <1>3, <2>5, <2>7, <3>2 DEF SamlTrue, Marking
    <3>5. ASSUME NEW k \in SamlCall \ {q}
          PROVE  Apart(x, samlCall[k])' /\ Apart(samlCall[k], x)'
      <4>1. samlCall'[k] = samlCall[k]
        BY <3>2, <3>5 DEF SamlInv
      <4>2. samlCall[k].at = "user" => samlCall[k].pending # p
        BY <2>4, SamlCallTypes DEF SamlTrue
      <4> QED BY <1>3, <3>2, <4>1, <4>2 DEF Apart, Marking
    <3>6. \A s \in SamlSession :
             opened[s].status # "unborn" => opened[s].pending # x.pending
      BY <1>3, <2>4, <3>2 DEF SamlInv, SessionTrue
    <3>7. \A r \in AuthnRequest \ forgotten' : answers'[r] = answers[r]
      BY <3>1
    <3> QED BY <1>2, <2>6, <3>2, <3>3, <3>4, <3>5, <3>6, <3>7, SamlMoves
  <2>8. CASE samlCall[q].kind # "acs"
    <3>1. SamlAt(q, "done") /\ answers' = Answer(q)
      BY <1>3, <1>5, <2>8 DEF MarkPending
    <3>2. PICK x \in SamlWork :
             samlCall' = [samlCall EXCEPT ![q] = x] /\ x.at = "done" /\ x.key = samlCall[q].key
      BY <3>1, SamlPlaced DEF SamlPlaces
    <3>3. PICK id \in AuthnRequest : id = samlCall[q].request
      BY <1>1, <1>2, <2>8 DEF SamlTrue
    <3>4. answers' = [answers EXCEPT ![id] = @ + 1]
      BY <3>1, <3>3 DEF Answer
    <3>5. SamlRowTypes'
      BY <1>1, <1>2, <2>5, <3>4 DEF SamlRowTypes
    <3>6. SamlTrue(x)'
      BY <1>1, <1>2, <3>2 DEF SamlTrue, Marking
    <3>7. \A k \in SamlCall \ {q} : Apart(x, samlCall[k])' /\ Apart(samlCall[k], x)'
      BY <3>2 DEF Apart, Marking
    <3>8. ASSUME NEW r \in AuthnRequest \ forgotten', answers'[r] # answers[r]
          PROVE  /\ answers[r] = 0 /\ answers'[r] = 1 /\ replays'[r] # "none"
                 /\ \A k \in SamlCall \ {q} :
                       ~(Marking(samlCall[k]) /\ samlCall[k].request = r)
      <4>1. r = id /\ id \notin forgotten
        BY <1>1, <1>2, <3>4, <3>8 DEF SamlRowTypes
      <4>2. Marking(samlCall[q]) /\ answers[id] = 0 /\ replays[id] # "none"
        BY <1>1, <1>2, <2>8, <3>3, <4>1 DEF SamlTrue, Marking
      <4>3. answers'[id] = 1
        BY <1>1, <3>4, <4>2 DEF SamlRowTypes
      <4>4. \A k \in SamlCall \ {q} : ~(Marking(samlCall[k]) /\ samlCall[k].request = id)
        BY <3>3, <4>1, <4>2 DEF SamlInv, CallsApart, Apart
      <4> QED BY <1>2, <4>1, <4>2, <4>3, <4>4
    <3> QED BY <1>2, <2>6, <3>2, <3>5, <3>6, <3>7, <3>8, SamlMoves
  <2> QED BY <2>7, <2>8
<1> QED BY <1>4, <1>5

\* A session is opened, on a state that no other call and no session holds.
LEMMA OpenSessionStep ==
    ASSUME SamlInv, NEW q \in SamlCall, NEW s \in SamlSession, OpenSession(q, s)
    PROVE  SamlInv'
<1>1. samlCall[q] \in SamlWork /\ SamlTrue(samlCall[q]) /\ SamlRowTypes
  BY SamlCallTypes DEF SamlInv
<1>2. /\ pending' = pending /\ assertion' = assertion /\ replays' = replays
      /\ answers' = answers /\ forgotten' = forgotten /\ samlKey' = samlKey
      /\ peer' = peer /\ samlScene' = samlScene
      /\ samlCall[q].at = "user" /\ opened[s].status = "unborn" /\ SamlAt(q, "done")
  BY DEF OpenSession, Settings
<1>3. PICK p \in Pending, a \in Assertion : p = samlCall[q].pending /\ a = samlCall[q].assertion
  BY <1>1, <1>2 DEF SamlTrue
<1>4. PICK row : row = [status |-> "live", index |-> assertion[a].index, assertion |-> a,
                        pending |-> p]
  OBVIOUS
<1>5. row \in SessionRow /\ row.pending = p /\ row.assertion = a
  BY <1>1, <1>4 DEF SamlRowTypes, AssertionRow, SessionRow
<1>6. opened' = [opened EXCEPT ![s] = row]
  BY <1>3, <1>4 DEF OpenSession
<1>7. SamlRowTypes' /\ SamlGoesOn
  BY <1>1, <1>2, <1>5, <1>6 DEF SamlRowTypes, SamlGoesOn
<1>8. PICK x \in SamlWork :
         samlCall' = [samlCall EXCEPT ![q] = x] /\ x.at = "done" /\ x.key = samlCall[q].key
  BY <1>2, SamlPlaced DEF SamlPlaces
<1>9. samlCall' \in [SamlCall -> SamlWork] /\ samlCall'[q] = x
  BY <1>8 DEF SamlInv
<1>10. \A k \in SamlCall : k # q => samlCall'[k] = samlCall[k]
  BY <1>8 DEF SamlInv
<1>11. ASSUME NEW k \in SamlCall PROVE SamlTrue(samlCall[k])'
  <2>1. CASE k = q
    BY <1>1, <1>2, <1>8, <1>9, <2>1 DEF SamlTrue, Marking
  <2>2. CASE k # q
    <3>1. SamlTrue(samlCall[k])
      BY SamlCallTypes
    <3> QED BY <1>2, <1>10, <2>2, <3>1 DEF SamlTrue, Marking
  <2> QED BY <2>1, <2>2
<1>12. ASSUME NEW t \in SamlSession PROVE SessionTrue(t)'
  <2>1. CASE t = s
    <3>1. opened'[t] = row
      BY <1>1, <1>6, <2>1 DEF SamlRowTypes
    <3> QED BY <1>1, <1>2, <1>3, <1>5, <3>1 DEF SessionTrue, SamlTrue
  <2>2. CASE t # s
    <3>1. opened'[t] = opened[t]
      BY <1>1, <1>6, <2>2 DEF SamlRowTypes
    <3> QED BY <1>2, <3>1 DEF SamlInv, SessionTrue
  <2> QED BY <2>1, <2>2
<1>13. CallsApart'
  <2>1. ASSUME NEW i \in SamlCall, NEW k \in SamlCall, i # k PROVE Apart(samlCall[i], samlCall[k])'
    <3>1. CASE i # q /\ k # q
      BY <1>2, <1>10, <2>1, <3>1 DEF SamlInv, CallsApart, Apart, Marking
    <3>2. CASE i = q \/ k = q
      BY <1>8, <1>9, <3>2 DEF Apart, Marking
    <3> QED BY <3>1, <3>2
  <2> QED BY <2>1 DEF CallsApart
<1>14. SessionsApart'
  <2>1. ASSUME NEW t \in SamlSession, t # s
        PROVE  opened'[t] = opened[t] /\ (opened[t].status # "unborn" => opened[t].pending # p)
    BY <1>1, <1>2, <1>3, <1>6, <2>1 DEF SamlInv, SessionsApart, SamlRowTypes
  <2>2. opened'[s] = row
    BY <1>1, <1>6 DEF SamlRowTypes
  <2>3. ASSUME NEW k \in SamlCall, samlCall'[k].at = "user"
        PROVE  k # q /\ samlCall'[k] = samlCall[k] /\ samlCall[k].pending # p
    BY <1>2, <1>3, <1>8, <1>9, <1>10, <2>3 DEF SamlInv, CallsApart, Apart
  <2>4. ASSUME NEW t \in SamlSession, NEW u \in SamlSession, t # u,
               opened'[t].status # "unborn", opened'[u].status # "unborn"
        PROVE  opened'[t].pending # opened'[u].pending
    <3>1. CASE t = s \/ u = s
      BY <1>5, <2>1, <2>2, <2>4, <3>1
    <3>2. CASE t # s /\ u # s
      BY <2>1, <2>4, <3>2 DEF SamlInv, SessionsApart
    <3> QED BY <3>1, <3>2
  <2>5. ASSUME NEW t \in SamlSession, NEW k \in SamlCall,
               opened'[t].status # "unborn", samlCall'[k].at = "user"
        PROVE  opened'[t].pending # samlCall'[k].pending
    <3>1. CASE t = s
      BY <1>5, <2>2, <2>3, <2>5, <3>1
    <3>2. CASE t # s
      BY <2>1, <2>3, <2>5, <3>2 DEF SamlInv, SessionsApart
    <3> QED BY <3>1, <3>2
  <2> QED BY <2>4, <2>5 DEF SessionsApart
<1>15. AnsweredTrue'
  BY <1>2 DEF SamlInv, AnsweredTrue
<1> QED BY <1>7, <1>9, <1>11, <1>12, <1>13, <1>14, <1>15 DEF SamlInv

\* Steps of no call: the broker's browsers, the provider, administrators, time, the sweep.
LEMMA SamlBesideStep ==
    ASSUME SamlInv,
           \/ \E p \in Pending : StartBroker(p) \/ ExpirePending(p)
           \/ \E a \in Assertion : AgeAssertion(a)
           \/ \E a \in Assertion, p \in Pending, i \in SessionIndex : IssueAssertion(a, p, i)
           \/ \E s \in SamlSession : UpstreamLogout(s) \/ PeerLogout(s)
           \/ \E status \in {"enabled", "disabled", "deleted"} : ChangePeer(status)
           \/ \E r \in AuthnRequest : AgeRequest(r)
           \/ SweepPending \/ SweepReplays
    PROVE  SamlInv'
<1>1. SamlRowTypes
  BY DEF SamlInv
<1>2. ASSUME NEW p \in Pending, StartBroker(p) \/ ExpirePending(p) PROVE SamlInv'
  <2>1. /\ samlCall' = samlCall /\ assertion' = assertion /\ replays' = replays
        /\ opened' = opened /\ answers' = answers /\ forgotten' = forgotten
        /\ samlKey' = samlKey /\ peer' = peer /\ samlScene' = samlScene
    BY <1>2 DEF StartBroker, ExpirePending, Settings
  <2>2. \E row \in PendingRow :
           /\ pending' = [pending EXCEPT ![p] = row]
           /\ pending[p].status \in {"used", "swept"} => row.status \in {"used", "swept"}
    <3>1. pending[p] \in PendingRow
      BY <1>1 DEF SamlRowTypes
    <3>2. CASE StartBroker(p)
      <4>1. PICK row : row = [pending[p] EXCEPT !.status = "open"]
        OBVIOUS
      <4>2. row \in PendingRow
        BY <3>1, <4>1 DEF PendingRow
      <4>3. pending' = [pending EXCEPT ![p] = row] /\ pending[p].status = "unborn"
        BY <3>2, <4>1 DEF StartBroker
      <4> QED BY <4>2, <4>3
    <3>3. CASE ExpirePending(p)
      <4>1. PICK row : row = [pending[p] EXCEPT !.expired = TRUE]
        OBVIOUS
      <4>2. row \in PendingRow /\ row.status = pending[p].status
        BY <3>1, <4>1 DEF PendingRow
      <4>3. pending' = [pending EXCEPT ![p] = row]
        BY <3>3, <4>1 DEF ExpirePending
      <4> QED BY <4>2, <4>3
    <3> QED BY <1>2, <3>2, <3>3
  <2>3. SamlRowTypes' /\ SamlGoesOn
    BY <1>1, <2>1, <2>2 DEF SamlRowTypes, SamlGoesOn
  <2> QED BY <2>1, <2>3, SamlBeside
<1>3. ASSUME NEW a \in Assertion, NEW row \in AssertionRow, NEW old \in {"none", "fresh", "old"},
             assertion' = [assertion EXCEPT ![a] = row],
             replays' = replays \/ (replays' = [replays EXCEPT ![a] = old]
                                    /\ (replays[a] # "none" => old # "none")),
             row.status # "unissued", row.answers \in Pending,
             assertion[a].status # "unissued" => row.answers = assertion[a].answers,
             UNCHANGED <<pending, opened, answers, forgotten, samlCall, Settings>>
      PROVE  SamlInv'
  <2>1. /\ samlCall' = samlCall /\ pending' = pending
        /\ opened' = opened /\ answers' = answers /\ forgotten' = forgotten
        /\ samlKey' = samlKey /\ peer' = peer /\ samlScene' = samlScene
    BY <1>3 DEF Settings
  <2>2. replays' \in [AuthnRequest \cup Assertion -> {"none", "fresh", "old"}]
    BY <1>1, <1>3 DEF SamlRowTypes
  <2>3. \A r \in AuthnRequest : replays[r] # "none" => replays'[r] # "none"
    BY <1>1, <1>3 DEF SamlRowTypes
  <2>4. assertion' \in [Assertion -> AssertionRow]
        /\ \A o \in Assertion : assertion'[o].status # "unissued" => assertion'[o].answers \in Pending
    BY <1>1, <1>3 DEF SamlRowTypes
  <2>5. SamlRowTypes'
    BY <1>1, <2>1, <2>2, <2>4 DEF SamlRowTypes
  <2>6. SamlGoesOn
    BY <1>1, <1>3, <2>1, <2>3 DEF SamlRowTypes, SamlGoesOn
  <2> QED BY <2>1, <2>5, <2>6, SamlBeside
<1>4. ASSUME NEW a \in Assertion, AgeAssertion(a) PROVE SamlInv'
  <2>1. PICK status \in {"skew", "over"} :
           assertion' = [assertion EXCEPT ![a].status = status]
    BY <1>4 DEF AgeAssertion
  <2>2. PICK row : row = [assertion[a] EXCEPT !.status = status]
    OBVIOUS
  <2>3. assertion[a] \in AssertionRow /\ assertion[a].status # "unissued"
    BY <1>1, <1>4 DEF AgeAssertion, SamlRowTypes
  <2>4. /\ row \in AssertionRow /\ row.status # "unissued"
        /\ row.answers = assertion[a].answers /\ row.answers \in Pending
    BY <1>1, <2>2, <2>3 DEF AssertionRow, SamlRowTypes
  <2>5. PICK old \in {"none", "fresh", "old"} :
           /\ replays' = [replays EXCEPT ![a] = old]
           /\ replays[a] # "none" => old # "none"
    BY <1>1, <1>4 DEF AgeAssertion, SamlRowTypes
  <2>6. UNCHANGED <<pending, opened, answers, forgotten, samlCall, Settings>>
    BY <1>4 DEF AgeAssertion
  <2>7. assertion' = [assertion EXCEPT ![a] = row]
    BY <2>1, <2>2
  <2> QED BY <1>3, <2>4, <2>5, <2>6, <2>7
<1>5. ASSUME NEW a \in Assertion, NEW p \in Pending, NEW i \in SessionIndex,
             IssueAssertion(a, p, i)
      PROVE  SamlInv'
  <2>1. PICK row : row = [status |-> "valid", answers |-> p, index |-> i]
    OBVIOUS
  <2>2. row \in AssertionRow /\ row.status = "valid" /\ row.answers = p
    BY <2>1 DEF AssertionRow
  <2>3. /\ assertion' = [assertion EXCEPT ![a] = row] /\ replays' = replays
        /\ assertion[a].status = "unissued"
        /\ UNCHANGED <<pending, opened, answers, forgotten, samlCall, Settings>>
    BY <1>5, <2>1 DEF IssueAssertion
  <2> QED BY <1>3, <2>2, <2>3
<1>6. ASSUME NEW s \in SamlSession, UpstreamLogout(s) \/ PeerLogout(s) PROVE SamlInv'
  <2>1. PICK row : row = [opened[s] EXCEPT !.status = "revoked"]
    OBVIOUS
  <2>2. /\ row \in SessionRow /\ row.pending = opened[s].pending
        /\ row.assertion = opened[s].assertion
    BY <1>1, <2>1 DEF SamlRowTypes, SessionRow
  <2>3. /\ samlCall' = samlCall /\ pending' = pending /\ assertion' = assertion
        /\ replays' = replays /\ answers' = answers /\ forgotten' = forgotten
        /\ samlKey' = samlKey /\ peer' = peer /\ samlScene' = samlScene
        /\ opened[s].status # "unborn" /\ opened' = [opened EXCEPT ![s] = row]
    BY <1>6, <2>1 DEF UpstreamLogout, PeerLogout, RevokeSaml, Settings
  <2>4. SamlRowTypes' /\ SamlGoesOn
    BY <1>1, <2>2, <2>3 DEF SamlRowTypes, SamlGoesOn
  <2>5. \A t \in SamlSession : opened'[t].status # "unborn" =>
           /\ opened[t].status # "unborn" /\ opened'[t].pending = opened[t].pending
           /\ opened'[t].assertion = opened[t].assertion
    BY <1>1, <2>2, <2>3 DEF SamlRowTypes
  <2> QED BY <2>3, <2>4, <2>5, SamlBeside
<1>7. ASSUME NEW status \in {"enabled", "disabled", "deleted"}, ChangePeer(status)
      PROVE  SamlInv'
  <2>1. /\ samlCall' = samlCall /\ pending' = pending /\ assertion' = assertion
        /\ replays' = replays /\ answers' = answers /\ forgotten' = forgotten
        /\ samlKey' = samlKey /\ peer' = status /\ samlScene' = samlScene /\ opened' = opened
    BY <1>7 DEF ChangePeer, Flow
  <2>2. SamlRowTypes' /\ SamlGoesOn
    BY <1>1, <2>1 DEF SamlRowTypes, SamlGoesOn
  <2> QED BY <2>1, <2>2, SamlBeside
<1>8. ASSUME NEW r \in AuthnRequest, AgeRequest(r) PROVE SamlInv'
  <2>1. /\ samlCall' = samlCall /\ pending' = pending /\ assertion' = assertion
        /\ answers' = answers /\ forgotten' = forgotten /\ opened' = opened
        /\ samlKey' = samlKey /\ peer' = peer /\ samlScene' = samlScene
        /\ replays' = [replays EXCEPT ![r] = "old"]
    BY <1>8 DEF AgeRequest, Settings
  <2>2. SamlRowTypes' /\ SamlGoesOn
    BY <1>1, <2>1 DEF SamlRowTypes, SamlGoesOn
  <2> QED BY <2>1, <2>2, SamlBeside
<1>9. CASE SweepPending
  <2>1. /\ samlCall' = samlCall /\ assertion' = assertion /\ replays' = replays
        /\ answers' = answers /\ forgotten' = forgotten /\ opened' = opened
        /\ samlKey' = samlKey /\ peer' = peer /\ samlScene' = samlScene
    BY <1>9 DEF SweepPending, Settings
  <2>2. ASSUME NEW p \in Pending
        PROVE  /\ pending'[p] \in PendingRow
               /\ pending[p].status \in {"used", "swept"} =>
                     pending'[p].status \in {"used", "swept"}
    <3>1. pending[p] \in PendingRow
      BY <1>1 DEF SamlRowTypes
    <3>2. PICK row : row = [pending[p] EXCEPT !.status = "swept"]
      OBVIOUS
    <3>3. row \in PendingRow /\ row.status = "swept"
      BY <3>1, <3>2 DEF PendingRow
    <3>4. pending'[p] = row \/ pending'[p] = pending[p]
      BY <1>9, <3>2 DEF SweepPending
    <3> QED BY <3>1, <3>3, <3>4
  <2>3. pending' \in [Pending -> PendingRow]
    <3>1. pending' = [p \in Pending |-> pending'[p]]
      BY <1>9 DEF SweepPending
    <3> QED BY <2>2, <3>1
  <2>4. SamlRowTypes' /\ SamlGoesOn
    BY <1>1, <2>1, <2>2, <2>3 DEF SamlRowTypes, SamlGoesOn
  <2> QED BY <2>1, <2>4, SamlBeside
<1>10. CASE SweepReplays
  <2>1. PICK old : old = {x \in DOMAIN replays : replays[x] = "old"}
    OBVIOUS
  <2>2. /\ samlCall' = samlCall /\ assertion' = assertion /\ pending' = pending
        /\ answers' = answers /\ opened' = opened
        /\ samlKey' = samlKey /\ peer' = peer /\ samlScene' = samlScene
        /\ forgotten' = forgotten \cup (old \cap AuthnRequest)
        /\ replays' = [x \in DOMAIN replays |-> IF x \in old THEN "none" ELSE replays[x]]
    BY <1>10, <2>1 DEF SweepReplays, Settings
  <2>3. replays' \in [AuthnRequest \cup Assertion -> {"none", "fresh", "old"}]
    BY <1>1, <2>2 DEF SamlRowTypes
  <2>4. SamlRowTypes' /\ SamlGoesOn
    BY <1>1, <2>2, <2>3 DEF SamlRowTypes, SamlGoesOn
  <2> QED BY <2>2, <2>4, SamlBeside
<1> QED BY <1>2, <1>4, <1>5, <1>6, <1>7, <1>8, <1>9, <1>10

\* Every step keeps the invariant.
LEMMA SamlStepKeeps == SamlInv /\ [SamlNext]_samlVars => SamlInv'
<1> SUFFICES ASSUME SamlInv, [SamlNext]_samlVars PROVE SamlInv'
  OBVIOUS
<1>1. CASE UNCHANGED samlVars
  <2>1. samlCall' = samlCall /\ UNCHANGED <<Flow, Settings>>
    BY <1>1 DEF samlVars, Flow, Settings
  <2> QED BY <2>1, SamlSame, SamlBeside
<1>2. CASE SamlNext
  BY <1>2, SamlKeyStep, ReceiveRequestStep, SessionFoundStep, AcceptAssertionStep, RecordStep,
     MarkPendingStep, OpenSessionStep, SamlBesideStep DEF SamlNext
<1> QED BY <1>1, <1>2

\* The invariant holds before the first call.
LEMMA SamlStart == SamlInit => SamlInv
<1> SUFFICES ASSUME SamlInit PROVE SamlInv
  OBVIOUS
<1>1. /\ UnbornPending \in PendingRow /\ Unissued \in AssertionRow
      /\ UnbornSession \in SessionRow /\ IdleSamlCall \in SamlWork
  BY DEF UnbornPending, PendingRow, Unissued, AssertionRow, UnbornSession, SessionRow,
     IdleSamlCall, SamlWork, SamlPlaces
<1>2. SamlRowTypes
  <2>1. \A a \in Assertion : assertion[a].status = "unissued"
    BY DEF SamlInit, Unissued
  <2> QED BY <1>1, <2>1 DEF SamlInit, SamlRowTypes
<1>3. \A q \in SamlCall : SamlTrue(samlCall[q]) /\ samlCall[q].at = "new"
  BY DEF SamlInit, IdleSamlCall, SamlTrue, Marking
<1>4. \A s \in SamlSession : opened[s].status = "unborn"
  BY DEF SamlInit, UnbornSession
<1>5. samlCall \in [SamlCall -> SamlWork]
  BY <1>1 DEF SamlInit
<1>6. CallsApart /\ SessionsApart
  BY <1>3, <1>4 DEF CallsApart, Apart, Marking, SessionsApart
<1>7. AnsweredTrue
  BY DEF SamlInit, AnsweredTrue
<1>8. \A s \in SamlSession : SessionTrue(s)
  BY <1>4 DEF SessionTrue
<1> QED BY <1>2, <1>3, <1>5, <1>6, <1>7, <1>8 DEF SamlInv

\* The invariant of SAML sign-ins.
THEOREM SamlInvariance == SamlSpec => []SamlInv
BY SamlStart, SamlStepKeeps, PTL DEF SamlSpec

\* One assertion and one state open one session at most, and an application's request is
\* answered once while its record has not been swept, for any number of rows and of calls
\* that interleave and fail between any two of their statements.
THEOREM SamlNotReplayed == SamlSpec => []SamlUsedOnce
<1>1. SamlInv => SamlUsedOnce
  <2> SUFFICES ASSUME SamlInv PROVE SamlUsedOnce
    OBVIOUS
  <2>1. \A r \in AuthnRequest \ forgotten : answers[r] <= 1
    BY DEF SamlInv, AnsweredTrue
  <2>2. ASSUME NEW s \in SamlSession, NEW t \in SamlSession, s # t,
               opened[s].status # "unborn", opened[t].status # "unborn"
        PROVE  /\ opened[s].assertion # opened[t].assertion
               /\ opened[s].pending # opened[t].pending
    BY <2>2 DEF SamlInv, SessionTrue, SessionsApart
  <2> QED BY <2>1, <2>2 DEF SamlUsedOnce
<1> QED BY <1>1, SamlInvariance, PTL

\* Calls that make the realm's SAML key at the same moment all end with the one that is kept.
THEOREM OneKeyShown == SamlSpec => []OneRealmKey
<1>1. SamlInv => OneRealmKey
  BY DEF SamlInv, SamlTrue, OneRealmKey
<1> QED BY <1>1, SamlInvariance, PTL

\* The calls that have ended.
DoneCalls == {q \in SamlCall : samlCall[q].at = "done"}

\* No request is answered more often than calls have ended.
SamlCounted == \A r \in AuthnRequest : answers[r] <= Cardinality(DoneCalls)

\* What a step does to the calls: one moves that had not ended, and a call that answers ends.
MovesOne(q) ==
    \E x : /\ samlCall[q].at # "done" /\ samlCall' = [samlCall EXCEPT ![q] = x]
           /\ answers' = answers \/ (x.at = "done" /\ answers' = Answer(q))

\* A call that takes a step has not ended, and answers when it ends at the earliest.
LEMMA SamlMovesOne ==
    ASSUME SamlInv, [SamlNext]_samlVars
    PROVE  (samlCall' = samlCall /\ answers' = answers) \/ \E q \in SamlCall : MovesOne(q)
<1>1. CASE samlCall' = samlCall /\ answers' = answers
  BY <1>1
<1>2. ASSUME NEW q \in SamlCall, NEW place \in SamlPlaces, SamlAt(q, place),
             samlCall[q].at # "done",
             answers' = answers \/ (place = "done" /\ answers' = Answer(q))
      PROVE  MovesOne(q)
  <2>1. PICK x \in SamlWork : samlCall' = [samlCall EXCEPT ![q] = x] /\ x.at = place
    BY <1>2, SamlPlaced
  <2> QED BY <1>2, <2>1 DEF MovesOne
<1>3. {"reread", "record", "mark", "user", "done"} \subseteq SamlPlaces
  BY DEF SamlPlaces
<1>4. ASSUME NEW q \in SamlCall, StoreSamlKey(q) \/ FindSession(q) \/ DropSamlCall(q)
      PROVE  MovesOne(q)
  <2>1. answers' = answers
    BY <1>4 DEF StoreSamlKey, FindSession, DropSamlCall, Flow
  <2>2. PICK place \in SamlPlaces : SamlAt(q, place) /\ samlCall[q].at # "done"
    BY <1>3, <1>4 DEF StoreSamlKey, FindSession, DropSamlCall
  <2> QED BY <1>2, <2>1, <2>2
<1>5. ASSUME NEW q \in SamlCall, Record(q) PROVE MovesOne(q)
  BY <1>2, <1>3, <1>5 DEF Record
<1>6. ASSUME NEW q \in SamlCall, MarkPending(q) PROVE MovesOne(q)
  BY <1>2, <1>3, <1>6 DEF MarkPending
<1>7. ASSUME NEW q \in SamlCall, NEW p \in Pending, KeepRequest(q, p) PROVE MovesOne(q)
  BY <1>2, <1>3, <1>7 DEF KeepRequest
<1>8. ASSUME NEW q \in SamlCall, NEW s \in SamlSession, OpenSession(q, s) PROVE MovesOne(q)
  BY <1>2, <1>3, <1>8 DEF OpenSession
<1>9. ASSUME NEW q \in SamlCall,
             \/ ReadSamlKey(q) \/ RereadSamlKey(q)
             \/ \E r \in AuthnRequest : ReceiveRequest(q, r)
             \/ \E p \in Pending : ResumeRequest(q, p)
             \/ \E a \in Assertion : AcceptAssertion(q, a)
      PROVE  MovesOne(q)
  <2>1. answers' = answers /\ samlCall[q].at # "done"
    BY <1>9 DEF ReadSamlKey, RereadSamlKey, ReceiveRequest, ResumeRequest, AcceptAssertion,
       StartSaml, Flow
  <2>2. \E x : samlCall' = [samlCall EXCEPT ![q] = x]
    BY <1>9 DEF ReadSamlKey, RereadSamlKey, ReceiveRequest, ResumeRequest, AcceptAssertion
  <2> QED BY <2>1, <2>2 DEF MovesOne
<1>10. CASE UNCHANGED samlVars
  BY <1>1, <1>10 DEF samlVars
<1>11. CASE SamlNext
  <2>1. CASE \/ \E p \in Pending : StartBroker(p) \/ ExpirePending(p)
             \/ \E a \in Assertion : AgeAssertion(a)
             \/ \E a \in Assertion, p \in Pending, i \in SessionIndex : IssueAssertion(a, p, i)
             \/ \E s \in SamlSession : UpstreamLogout(s) \/ PeerLogout(s)
             \/ \E status \in {"enabled", "disabled", "deleted"} : ChangePeer(status)
             \/ \E r \in AuthnRequest : AgeRequest(r)
             \/ SweepPending \/ SweepReplays
    BY <2>1 DEF StartBroker, ExpirePending, AgeAssertion, IssueAssertion, UpstreamLogout,
       PeerLogout, RevokeSaml, ChangePeer, AgeRequest, SweepPending, SweepReplays, Flow
  <2> QED BY <1>4, <1>5, <1>6, <1>7, <1>8, <1>9, <1>11, <2>1 DEF SamlNext
<1> QED BY <1>10, <1>11

\* The count goes up with every answer.
LEMMA SamlCountKeeps ==
    ASSUME IsFiniteSet(SamlCall), SamlInv, SamlCounted, [SamlNext]_samlVars
    PROVE  SamlCounted'
<1>1. /\ IsFiniteSet(DoneCalls) /\ IsFiniteSet(DoneCalls)'
      /\ Cardinality(DoneCalls) \in Nat /\ Cardinality(DoneCalls)' \in Nat
  <2>1. DoneCalls \subseteq SamlCall /\ DoneCalls' \subseteq SamlCall
    BY DEF DoneCalls
  <2> QED BY <2>1, FS_Subset, FS_CardinalityType
<1>2. answers \in [AuthnRequest -> Nat]
  BY DEF SamlInv, SamlRowTypes
<1>3. CASE samlCall' = samlCall /\ answers' = answers
  BY <1>3 DEF SamlCounted, DoneCalls
<1>4. ASSUME NEW q \in SamlCall, MovesOne(q) PROVE SamlCounted'
  <2>1. PICK x : /\ samlCall[q].at # "done" /\ samlCall' = [samlCall EXCEPT ![q] = x]
                 /\ answers' = answers \/ (x.at = "done" /\ answers' = Answer(q))
    BY <1>4 DEF MovesOne
  <2>2. samlCall'[q] = x /\ \A k \in SamlCall : k # q => samlCall'[k] = samlCall[k]
    BY <2>1 DEF SamlInv
  <2>3. q \notin DoneCalls /\ DoneCalls' = IF x.at = "done" THEN DoneCalls \cup {q} ELSE DoneCalls
    BY <2>1, <2>2 DEF DoneCalls
  <2>4. Cardinality(DoneCalls \cup {q}) = Cardinality(DoneCalls) + 1
    BY <1>1, <2>3, FS_AddElement
  <2>5. CASE answers' = answers
    <3>1. Cardinality(DoneCalls)' >= Cardinality(DoneCalls)
      BY <1>1, <2>3, <2>4
    <3> QED BY <1>1, <1>2, <2>5, <3>1 DEF SamlCounted
  <2>6. CASE x.at = "done" /\ answers' = Answer(q)
    <3>1. Cardinality(DoneCalls)' = Cardinality(DoneCalls) + 1
      BY <2>3, <2>4, <2>6
    <3>2. \A r \in AuthnRequest : answers'[r] <= answers[r] + 1
      BY <1>2, <2>6 DEF Answer
    <3>3. \A r \in AuthnRequest : answers'[r] \in Nat
      BY <1>2, <2>6 DEF Answer
    <3> QED BY <1>1, <1>2, <3>1, <3>2, <3>3 DEF SamlCounted
  <2> QED BY <2>1, <2>5, <2>6
<1> QED BY <1>3, <1>4, SamlMovesOne

\* The variables of SAML sign-ins keep their types: in particular, no request is answered
\* more often than there are calls.
THEOREM SamlTyped ==
    ASSUME IsFiniteSet(SamlCall)
    PROVE  SamlSpec => [](SamlTypeOK /\ SamlInv /\ SamlCounted)
<1>1. SamlInit => SamlCounted
  <2>1. SamlInit => Cardinality(DoneCalls) \in Nat /\ \A r \in AuthnRequest : answers[r] = 0
    <3>1. DoneCalls \subseteq SamlCall
      BY DEF DoneCalls
    <3> QED BY <3>1, FS_Subset, FS_CardinalityType DEF SamlInit
  <2> QED BY <2>1 DEF SamlCounted
<1>2. SamlInv /\ SamlCounted => SamlTypeOK
  <2> SUFFICES ASSUME SamlInv, SamlCounted PROVE SamlTypeOK
    OBVIOUS
  <2>1. DoneCalls \subseteq SamlCall
    BY DEF DoneCalls
  <2>2. /\ Cardinality(DoneCalls) \in Nat /\ Cardinality(SamlCall) \in Nat
        /\ Cardinality(DoneCalls) <= Cardinality(SamlCall)
    BY <2>1, FS_Subset, FS_CardinalityType
  <2>3. answers \in [AuthnRequest -> 0 .. Cardinality(SamlCall)]
    BY <2>2 DEF SamlInv, SamlRowTypes, SamlCounted
  <2> QED BY <2>3 DEF SamlInv, SamlRowTypes, SamlTypeOK
<1>3. SamlInv /\ SamlCounted /\ [SamlNext]_samlVars => (SamlInv /\ SamlCounted)'
  BY SamlCountKeeps, SamlStepKeeps
<1> QED BY <1>1, <1>2, <1>3, SamlStart, PTL DEF SamlSpec

-----------------------------------------------------------------------------
(* DirectorySync: an import takes over no account it did not make.         *)

\* The rows: an account made by the directory was born, and until linking is allowed entries
\* are linked to such accounts alone.
DirRowsTrue ==
    /\ directory \in [Entry -> EntryRow]
    /\ dirProvider \in ProviderSettings
    /\ account \in [Account -> AccountRow]
    /\ link \in [Entry -> Account \cup {NoEntry}]
    /\ group \in BOOLEAN /\ member \subseteq Account
    /\ linking \in BOOLEAN /\ dirScene \in DirScenes
    /\ dirProvider.link => linking
    /\ \A u \in Account : account[u].origin = "directory" => account[u].status # "unborn"
    /\ \A e \in Entry : ~linking /\ link[e] # NoEntry => account[link[e]].origin = "directory"

\* What a job read of the provider's settings, and the account it is about to write.
DirTrue(j) ==
    /\ j.settings.link => linking
    /\ j.at \notin {"new", "page", "done"} => j.entry \in Entry
    /\ j.at \in {"user", "store", "group", "join"} => j.account \in Account
    /\ j.at \in {"user", "write", "store", "group", "join", "commit"} /\ j.account # NoEntry
          /\ ~linking => account[j.account].origin = "directory"

DirInv ==
    /\ DirRowsTrue
    /\ dirJob \in [DirJob -> DirWork]
    /\ \A q \in DirJob : DirTrue(dirJob[q])

\* The fields of a job.
LEMMA DirJobTypes ==
    ASSUME DirInv, NEW q \in DirJob
    PROVE  /\ dirJob[q] \in DirWork /\ DirTrue(dirJob[q])
           /\ dirJob[q].settings \in ProviderSettings
           /\ dirJob[q].rest \subseteq Entry
           /\ dirJob[q].page \in [Entry -> EntryRow \cup {NoRow}]
           /\ dirJob[q].entry \in Entry \cup {NoEntry}
           /\ dirJob[q].account \in Account \cup {NoEntry}
BY DEF DirInv, DirWork

\* Linking is allowed, and accounts are made by the directory, for good.
DirGoesOn ==
    /\ linking => linking'
    /\ \A u \in Account : account[u].origin = "directory" => account'[u].origin = "directory"

\* What is true of a job stays true.
LEMMA DirStays ==
    ASSUME DirInv, NEW j, DirTrue(j), j.account \in Account \cup {NoEntry}, DirGoesOn
    PROVE  DirTrue(j)'
BY DEF DirTrue, DirGoesOn

\* A step of one job keeps the invariant when it keeps it of that job and of the rows.
LEMMA DirMoves ==
    ASSUME DirInv, NEW q \in DirJob, NEW x \in DirWork,
           dirJob' = [dirJob EXCEPT ![q] = x], DirRowsTrue', DirGoesOn, DirTrue(x)'
    PROVE  DirInv'
<1>1. dirJob' \in [DirJob -> DirWork] /\ dirJob'[q] = x
  BY DEF DirInv
<1>2. ASSUME NEW k \in DirJob, k # q PROVE DirTrue(dirJob[k])'
  <2>1. PICK j : j = dirJob[k]
    OBVIOUS
  <2>2. dirJob'[k] = j
    BY <1>2, <2>1 DEF DirInv
  <2>3. DirTrue(j)'
    BY <2>1, DirJobTypes, DirStays
  <2> QED BY <2>2, <2>3 DEF DirTrue
<1>3. DirTrue(dirJob[q])'
  BY <1>1 DEF DirTrue
<1> QED BY <1>1, <1>2, <1>3 DEF DirInv

\* A step of no job.
LEMMA DirBeside ==
    ASSUME DirInv, dirJob' = dirJob, DirRowsTrue', DirGoesOn
    PROVE  DirInv'
<1>1. ASSUME NEW k \in DirJob PROVE DirTrue(dirJob[k])'
  <2>1. PICK j : j = dirJob[k]
    OBVIOUS
  <2>2. DirTrue(j)'
    BY <2>1, DirJobTypes, DirStays
  <2> QED BY <2>1, <2>2 DEF DirTrue
<1> QED BY <1>1 DEF DirInv

\* A step that reads.
LEMMA DirReads ==
    ASSUME DirInv, NEW q \in DirJob, NEW x \in DirWork,
           dirJob' = [dirJob EXCEPT ![q] = x], Read, DirTrue(x)
    PROVE  DirInv'
<1>1. /\ directory' = directory /\ dirProvider' = dirProvider /\ account' = account
      /\ link' = link /\ group' = group /\ member' = member
      /\ linking' = linking /\ dirScene' = dirScene
  BY DEF Read
<1>2. DirRowsTrue' /\ DirGoesOn
  BY <1>1 DEF DirInv, DirRowsTrue, DirGoesOn
<1>3. DirTrue(x)'
  BY <1>1 DEF DirTrue
<1> QED BY <1>2, <1>3, DirMoves

\* A job that ends, and one that moves on.
LEMMA DirPlaced ==
    ASSUME DirInv, NEW q \in DirJob
    PROVE  /\ \A place \in DirPlaces : DirAt(q, place) =>
                 \E x \in DirWork : /\ dirJob' = [dirJob EXCEPT ![q] = x] /\ x.at = place
                                    /\ x.settings = dirJob[q].settings
                                    /\ x.entry = dirJob[q].entry
                                    /\ x.account = dirJob[q].account
           /\ \A outcome \in {"none", "success", "failed", "admitted"} : EndDir(q, outcome) =>
                 \E x \in DirWork : /\ dirJob' = [dirJob EXCEPT ![q] = x] /\ x.at = "done"
                                    /\ x.settings = dirJob[q].settings
<1>1. dirJob[q] \in DirWork
  BY DirJobTypes
<1>2. ASSUME NEW place \in DirPlaces, DirAt(q, place)
      PROVE  \E x \in DirWork : /\ dirJob' = [dirJob EXCEPT ![q] = x] /\ x.at = place
                                /\ x.settings = dirJob[q].settings
                                /\ x.entry = dirJob[q].entry
                                /\ x.account = dirJob[q].account
  <2>1. PICK x : x = [dirJob[q] EXCEPT !.at = place]
    OBVIOUS
  <2>2. x \in DirWork
    BY <1>1, <2>1 DEF DirWork
  <2>3. /\ x.at = place /\ x.settings = dirJob[q].settings /\ x.entry = dirJob[q].entry
        /\ x.account = dirJob[q].account
    BY <1>1, <2>1 DEF DirWork
  <2>4. dirJob' = [dirJob EXCEPT ![q] = x]
    BY <1>2, <2>1 DEF DirAt
  <2> QED BY <2>2, <2>3, <2>4
<1>3. ASSUME NEW outcome \in {"none", "success", "failed", "admitted"}, EndDir(q, outcome)
      PROVE  \E x \in DirWork : /\ dirJob' = [dirJob EXCEPT ![q] = x] /\ x.at = "done"
                                /\ x.settings = dirJob[q].settings
  <2>1. PICK x : x = [dirJob[q] EXCEPT !.at = "done", !.outcome = outcome]
    OBVIOUS
  <2>2. x \in DirWork
    BY <1>1, <2>1 DEF DirWork, DirPlaces
  <2>3. x.at = "done" /\ x.settings = dirJob[q].settings
    BY <1>1, <2>1 DEF DirWork
  <2>4. dirJob' = [dirJob EXCEPT ![q] = x]
    BY <1>3, <2>1 DEF EndDir
  <2> QED BY <2>2, <2>3, <2>4
<1> QED BY <1>2, <1>3

\* A job ends, whatever rows it has changed.
LEMMA DirEnds ==
    ASSUME DirInv, NEW q \in DirJob,
           NEW outcome \in {"none", "success", "failed", "admitted"}, EndDir(q, outcome),
           DirRowsTrue', DirGoesOn
    PROVE  DirInv'
<1>1. PICK x \in DirWork : /\ dirJob' = [dirJob EXCEPT ![q] = x] /\ x.at = "done"
                           /\ x.settings = dirJob[q].settings
  BY DirPlaced
<1>2. DirTrue(x)'
  BY <1>1, DirJobTypes DEF DirTrue, DirGoesOn
<1> QED BY <1>1, <1>2, DirMoves

\* A job that reads, and ends.
LEMMA DirReadsAndEnds ==
    ASSUME DirInv, NEW q \in DirJob,
           NEW outcome \in {"none", "success", "failed", "admitted"}, EndDir(q, outcome), Read
    PROVE  DirInv'
<1>1. PICK x \in DirWork : /\ dirJob' = [dirJob EXCEPT ![q] = x] /\ x.at = "done"
                           /\ x.settings = dirJob[q].settings
  BY DirPlaced
<1>2. DirTrue(x)
  BY <1>1, DirJobTypes DEF DirTrue
<1> QED BY <1>1, <1>2, DirReads

\* A job starts: it reads the settings, and one that binds its entry.
LEMMA StartDirStep ==
    ASSUME DirInv, NEW q \in DirJob, StartSync(q) \/ \E e \in Entry : Bind(q, e)
    PROVE  DirInv'
<1>1. dirProvider \in ProviderSettings /\ (dirProvider.link => linking)
      /\ directory \in [Entry -> EntryRow]
  BY DEF DirInv, DirRowsTrue
<1>2. CASE StartSync(q)
  <2>1. PICK x : x = [IdleDirJob(dirProvider) EXCEPT !.kind = "sync", !.at = "page", !.rest = Entry]
    OBVIOUS
  <2>2. x = [kind |-> "sync", at |-> "page", settings |-> dirProvider, rest |-> Entry,
             page |-> [e \in Entry |-> NoRow], entry |-> NoEntry, account |-> NoEntry,
             outcome |-> "none"]
    BY <2>1 DEF IdleDirJob
  <2>3. x \in DirWork
    BY <1>1, <2>2 DEF DirWork, DirPlaces
  <2>4. dirJob' = [dirJob EXCEPT ![q] = x] /\ Read
    BY <1>2, <2>1 DEF StartSync
  <2>5. DirTrue(x)
    BY <1>1, <2>2 DEF DirTrue
  <2> QED BY <2>3, <2>4, <2>5, DirReads
<1>3. ASSUME NEW e \in Entry, Bind(q, e) PROVE DirInv'
  <2>1. PICK shown : shown = [f \in Entry |-> IF f = e THEN directory[e] ELSE NoRow]
    OBVIOUS
  <2>2. shown \in [Entry -> EntryRow \cup {NoRow}]
    BY <1>1, <2>1
  <2>3. PICK x : x = [IdleDirJob(dirProvider) EXCEPT !.kind = "login", !.at = "link",
                                                     !.entry = e, !.page = shown]
    OBVIOUS
  <2>4. x = [kind |-> "login", at |-> "link", settings |-> dirProvider, rest |-> {},
             page |-> shown, entry |-> e, account |-> NoEntry, outcome |-> "none"]
    BY <2>3 DEF IdleDirJob
  <2>5. x \in DirWork
    BY <1>1, <2>2, <2>4 DEF DirWork, DirPlaces
  <2>6. dirJob' = [dirJob EXCEPT ![q] = x] /\ Read
    BY <1>3, <2>1, <2>3 DEF Bind
  <2>7. DirTrue(x)
    BY <1>1, <2>4 DEF DirTrue
  <2> QED BY <2>5, <2>6, <2>7, DirReads
<1> QED BY <1>2, <1>3

\* A page is listed, its next entry taken, its link looked up; or the job ends.
LEMMA PageStep ==
    ASSUME DirInv, NEW q \in DirJob,
           \/ \E S \in SUBSET Entry : ListPage(q, S)
           \/ \E e \in Entry : ImportNext(q, e)
           \/ FinishSync(q) \/ FailDir(q)
    PROVE  DirInv'
<1>1. dirJob[q] \in DirWork /\ DirTrue(dirJob[q]) /\ directory \in [Entry -> EntryRow]
  BY DirJobTypes DEF DirInv, DirRowsTrue
<1>2. ASSUME NEW S \in SUBSET Entry, ListPage(q, S) PROVE DirInv'
  <2>1. PICK shown : shown = [e \in Entry |-> IF e \in S THEN directory[e] ELSE NoRow]
    OBVIOUS
  <2>2. shown \in [Entry -> EntryRow \cup {NoRow}]
    BY <1>1, <2>1
  <2>3. PICK x : x = [dirJob[q] EXCEPT !.rest = @ \ S, !.page = shown]
    OBVIOUS
  <2>4. x \in DirWork
    <3>1. (dirJob[q].rest \ S) \subseteq Entry
      BY DirJobTypes
    <3> QED BY <1>1, <2>2, <2>3, <3>1 DEF DirWork
  <2>5. x.at = "page" /\ x.settings = dirJob[q].settings
    BY <1>1, <1>2, <2>3 DEF DirWork, ListPage
  <2>6. dirJob' = [dirJob EXCEPT ![q] = x] /\ Read
    BY <1>2, <2>1, <2>3 DEF ListPage
  <2>7. DirTrue(x)
    BY <1>1, <2>5 DEF DirTrue
  <2> QED BY <2>4, <2>6, <2>7, DirReads
<1>3. ASSUME NEW e \in Entry, ImportNext(q, e) PROVE DirInv'
  <2>1. PICK x : x = [dirJob[q] EXCEPT !.entry = e, !.at = "link"]
    OBVIOUS
  <2>2. x \in DirWork
    BY <1>1, <2>1 DEF DirWork, DirPlaces
  <2>3. x.at = "link" /\ x.settings = dirJob[q].settings /\ x.entry = e
    BY <1>1, <2>1 DEF DirWork
  <2>4. dirJob' = [dirJob EXCEPT ![q] = x] /\ Read
    BY <1>3, <2>1 DEF ImportNext
  <2>5. DirTrue(x)
    BY <1>1, <2>3 DEF DirTrue
  <2> QED BY <2>2, <2>4, <2>5, DirReads
<1>4. CASE FinishSync(q) \/ FailDir(q)
  BY <1>4, DirReadsAndEnds DEF FinishSync, FailDir
<1> QED BY <1>2, <1>3, <1>4

\* The entry's account is looked up: by its link, or as the owner of its address, which only
\* a provider that may link finds.
LEMMA FindStep ==
    ASSUME DirInv, NEW q \in DirJob, FindLink(q) \/ FindAccount(q) \/ FindOwner(q)
    PROVE  DirInv'
<1>1. dirJob[q] \in DirWork /\ DirTrue(dirJob[q]) /\ DirRowsTrue /\ Read
  BY DirJobTypes DEF DirInv, FindLink, FindAccount, FindOwner
<1>2. CASE EndDir(q, "failed")
  BY <1>1, <1>2, DirReadsAndEnds
<1>3. CASE FindLink(q)
  <2>1. PICK e \in Entry : e = dirJob[q].entry
    BY <1>1, <1>3 DEF FindLink, DirTrue
  <2>2. PICK u \in Account \cup {NoEntry} : u = link[e]
    BY <1>1 DEF DirRowsTrue
  <2>3. PICK place \in {"mail", "user"} :
           /\ dirJob' = [dirJob EXCEPT ![q].account = u, ![q].at = place]
           /\ place = "user" => u # NoEntry
    BY <1>3, <2>1, <2>2 DEF FindLink
  <2>4. PICK x : x = [dirJob[q] EXCEPT !.account = u, !.at = place]
    OBVIOUS
  <2>5. x \in DirWork
    BY <1>1, <2>4 DEF DirWork, DirPlaces
  <2>6. x.at = place /\ x.account = u /\ x.settings = dirJob[q].settings /\ x.entry = e
    BY <1>1, <2>1, <2>4 DEF DirWork
  <2>7. dirJob' = [dirJob EXCEPT ![q] = x]
    BY <2>3, <2>4
  <2>8. DirTrue(x)
    BY <1>1, <2>1, <2>2, <2>3, <2>6 DEF DirTrue, DirRowsTrue
  <2> QED BY <1>1, <2>5, <2>7, <2>8, DirReads
<1>4. CASE FindAccount(q) /\ ~EndDir(q, "failed")
  <2>1. PICK place \in {"commit", "write"} : DirAt(q, place) /\ dirJob[q].at = "user"
    BY <1>4 DEF FindAccount, WriteNext
  <2>2. PICK x \in DirWork : /\ dirJob' = [dirJob EXCEPT ![q] = x] /\ x.at = place
                             /\ x.settings = dirJob[q].settings /\ x.entry = dirJob[q].entry
                             /\ x.account = dirJob[q].account
    BY <2>1, DirPlaced DEF DirPlaces
  <2>3. DirTrue(x)
    BY <1>1, <2>1, <2>2 DEF DirTrue
  <2> QED BY <1>1, <2>2, <2>3, DirReads
<1>5. CASE FindOwner(q) /\ ~EndDir(q, "failed")
  <2>1. PICK owners : owners = Owners(Now(q).mail)
    OBVIOUS
  <2>2. MayLink(q, owners) /\ dirJob[q].at = "mail"
    BY <1>5, <2>1 DEF FindOwner
  <2>3. PICK u \in Account \cup {NoEntry} :
           u = IF owners = {} THEN NoEntry ELSE CHOOSE o \in owners : TRUE
    BY <2>1 DEF Owners
  <2>4. PICK place \in {"commit", "write"} : place = WriteNext(q)
    BY DEF WriteNext
  <2>5. dirJob' = [dirJob EXCEPT ![q].at = place, ![q].account = u]
    BY <1>5, <2>1, <2>3, <2>4 DEF FindOwner
  <2>6. PICK x : x = [dirJob[q] EXCEPT !.at = place, !.account = u]
    OBVIOUS
  <2>7. x \in DirWork
    BY <1>1, <2>6 DEF DirWork, DirPlaces
  <2>8. /\ x.at = place /\ x.account = u /\ x.settings = dirJob[q].settings
        /\ x.entry = dirJob[q].entry
    BY <1>1, <2>6 DEF DirWork
  <2>9. u # NoEntry => linking
    BY <1>1, <2>2, <2>3 DEF MayLink, DirTrue
  <2>10. DirTrue(x)
    BY <1>1, <2>2, <2>8, <2>9 DEF DirTrue
  <2>11. dirJob' = [dirJob EXCEPT ![q] = x]
    BY <2>5, <2>6
  <2> QED BY <1>1, <2>7, <2>10, <2>11, DirReads
<1> QED BY <1>2, <1>3, <1>4, <1>5

\* What an import writes to its account's row: it makes a new row the directory's, and leaves
\* the origin of any other as it is.
LEMMA ImportedRow ==
    ASSUME DirInv, NEW q \in DirJob, NEW u \in Account, Target(q, u),
           dirJob[q].at \in {"write", "commit"},
           account' = IF account[u].status = "deleted" THEN account ELSE Applied(q, u),
           linking' = linking
    PROVE  /\ account' \in [Account -> AccountRow] /\ DirGoesOn
           /\ \A v \in Account : account'[v].origin = "directory" => account'[v].status # "unborn"
           /\ ~linking => account'[u].origin = "directory"
<1>1. /\ account \in [Account -> AccountRow] /\ DirRowsTrue /\ DirTrue(dirJob[q])
      /\ dirJob[q].account \in Account \cup {NoEntry}
  BY DirJobTypes DEF DirInv, DirRowsTrue
<1>2. ~linking => account[u].origin = "directory" \/ account[u].status = "unborn"
  BY <1>1 DEF Target, DirTrue
<1>3. CASE account[u].status = "deleted"
  BY <1>1, <1>2, <1>3 DEF DirRowsTrue, DirGoesOn
<1>4. CASE account[u].status # "deleted"
  <2>1. PICK e \in Entry : e = dirJob[q].entry
    BY <1>1 DEF DirTrue
  <2>2. Now(q) \in EntryRow \cup {NoRow}
    BY <2>1, DirJobTypes DEF Now
  <2>3. Now(q).mail \in DirMail \cup {NoEntry} /\ Now(q).enabled \in BOOLEAN
    <3>1. CASE Now(q) \in EntryRow
      BY <3>1 DEF EntryRow
    <3>2. CASE Now(q) = NoRow
      <4>1. NoRow.mail = NoEntry /\ NoRow.enabled \in BOOLEAN
        BY DEF NoRow
      <4> QED BY <3>2, <4>1
    <3> QED BY <2>2, <3>1, <3>2
  <2>4. PICK status \in {"live", "deleted"}, origin \in {"local", "directory"} :
           /\ status = IF account[u].status = "unborn" THEN "live" ELSE account[u].status
           /\ origin = IF account[u].status = "unborn" THEN "directory" ELSE account[u].origin
    BY <1>1 DEF AccountRow
  <2>5. PICK row : row = [status |-> status, mail |-> Now(q).mail, enabled |-> Now(q).enabled,
                          origin |-> origin]
    OBVIOUS
  <2>6. row \in AccountRow /\ row.status = status /\ row.origin = origin
    BY <2>3, <2>5 DEF AccountRow
  <2>7. account' = [account EXCEPT ![u] = row]
    BY <1>4, <2>4, <2>5 DEF Applied
  <2>8. account'[u] = row /\ \A v \in Account : v # u => account'[v] = account[v]
    BY <1>1, <2>7
  <2>9. account' \in [Account -> AccountRow]
    BY <1>1, <2>6, <2>7
  <2>10. DirGoesOn
    BY <1>1, <2>4, <2>6, <2>8 DEF DirGoesOn, DirRowsTrue
  <2>11. \A v \in Account : account'[v].origin = "directory" => account'[v].status # "unborn"
    BY <1>1, <2>6, <2>8 DEF DirRowsTrue
  <2>12. ~linking => account'[u].origin = "directory"
    BY <1>2, <2>4, <2>6, <2>8
  <2> QED BY <2>9, <2>10, <2>11, <2>12
<1> QED BY <1>3, <1>4

\* A synchronization writes the account of an entry.
LEMMA WriteAccountStep ==
    ASSUME DirInv, NEW q \in DirJob, NEW u \in Account, WriteAccount(q, u)
    PROVE  DirInv'
<1>1. dirJob[q] \in DirWork /\ DirTrue(dirJob[q]) /\ DirRowsTrue
  BY DirJobTypes DEF DirInv
<1>2. /\ directory' = directory /\ dirProvider' = dirProvider /\ link' = link /\ group' = group
      /\ member' = member /\ linking' = linking /\ dirScene' = dirScene
      /\ dirJob[q].at = "write" /\ Target(q, u)
  BY DEF WriteAccount
<1>3. CASE ~MailFree(Now(q).mail, u)
  <2>1. EndDir(q, "failed") /\ account' = account
    BY <1>3 DEF WriteAccount
  <2>2. DirRowsTrue' /\ DirGoesOn
    BY <1>1, <1>2, <2>1 DEF DirRowsTrue, DirGoesOn
  <2> QED BY <2>1, <2>2, DirEnds
<1>4. CASE MailFree(Now(q).mail, u)
  <2>1. account' = IF account[u].status = "deleted" THEN account ELSE Applied(q, u)
    BY <1>4 DEF WriteAccount
  <2>2. /\ account' \in [Account -> AccountRow] /\ DirGoesOn
        /\ \A v \in Account : account'[v].origin = "directory" => account'[v].status # "unborn"
        /\ ~linking => account'[u].origin = "directory"
    BY <1>2, <2>1, ImportedRow
  <2>3. DirRowsTrue'
    BY <1>1, <1>2, <2>2 DEF DirRowsTrue, DirGoesOn
  <2>4. PICK x : x = [dirJob[q] EXCEPT !.account = u, !.at = "store"]
    OBVIOUS
  <2>5. x \in DirWork
    BY <1>1, <2>4 DEF DirWork, DirPlaces
  <2>6. /\ x.at = "store" /\ x.account = u /\ x.settings = dirJob[q].settings
        /\ x.entry = dirJob[q].entry
    BY <1>1, <2>4 DEF DirWork
  <2>7. dirJob' = [dirJob EXCEPT ![q] = x]
    BY <1>4, <2>4 DEF WriteAccount
  <2>8. DirTrue(x)'
    BY <1>1, <1>2, <2>2, <2>6 DEF DirTrue
  <2> QED BY <2>2, <2>3, <2>5, <2>7, <2>8, DirMoves
<1> QED BY <1>3, <1>4

\* The link of the entry is stored, then its group.
LEMMA StoreLinkStep ==
    ASSUME DirInv, NEW q \in DirJob, StoreLink(q) \/ MakeGroup(q)
    PROVE  DirInv'
<1>1. dirJob[q] \in DirWork /\ DirTrue(dirJob[q]) /\ DirRowsTrue
  BY DirJobTypes DEF DirInv
<1>2. /\ directory' = directory /\ dirProvider' = dirProvider /\ account' = account
      /\ member' = member /\ linking' = linking /\ dirScene' = dirScene
      /\ dirJob[q].at \in {"store", "group"}
  BY DEF StoreLink, MakeGroup
<1>3. PICK e \in Entry, u \in Account : e = dirJob[q].entry /\ u = dirJob[q].account
  BY <1>1, <1>2 DEF DirTrue
<1>4. ~linking => account[u].origin = "directory"
  BY <1>1, <1>2, <1>3, DirAssumption DEF DirTrue
<1>5. DirRowsTrue' /\ DirGoesOn
  <2>1. CASE StoreLink(q)
    <3>1. group' = group /\ (link' = link \/ link' = [link EXCEPT ![e] = u])
      BY <1>3, <2>1 DEF StoreLink
    <3>2. link' \in [Entry -> Account \cup {NoEntry}]
      BY <1>1, <3>1 DEF DirRowsTrue
    <3>3. \A f \in Entry : ~linking /\ link'[f] # NoEntry => account[link'[f]].origin = "directory"
      BY <1>1, <1>4, <3>1 DEF DirRowsTrue
    <3> QED BY <1>1, <1>2, <3>1, <3>2, <3>3 DEF DirRowsTrue, DirGoesOn
  <2>2. CASE MakeGroup(q)
    <3>1. link' = link /\ group' \in BOOLEAN
      BY <1>1, <2>2 DEF MakeGroup, DirRowsTrue
    <3> QED BY <1>1, <1>2, <3>1 DEF DirRowsTrue, DirGoesOn
  <2> QED BY <2>1, <2>2
<1>6. CASE EndDir(q, "failed")
  BY <1>5, <1>6, DirEnds
<1>7. CASE ~EndDir(q, "failed")
  <2>1. PICK place \in {"group", "join"} : DirAt(q, place)
    BY <1>7 DEF StoreLink, MakeGroup
  <2>2. PICK x \in DirWork : /\ dirJob' = [dirJob EXCEPT ![q] = x] /\ x.at = place
                             /\ x.settings = dirJob[q].settings /\ x.entry = dirJob[q].entry
                             /\ x.account = dirJob[q].account
    BY <2>1, DirPlaced DEF DirPlaces
  <2>3. DirTrue(x)'
    BY <1>1, <1>2, <1>3, <1>4, <2>2 DEF DirTrue
  <2> QED BY <1>5, <2>2, <2>3, DirMoves
<1> QED BY <1>6, <1>7

\* The account joins the group, and the entry is done with.
LEMMA JoinGroupStep ==
    ASSUME DirInv, NEW q \in DirJob, JoinGroup(q)
    PROVE  DirInv'
<1>1. dirJob[q] \in DirWork /\ DirTrue(dirJob[q]) /\ DirRowsTrue
  BY DirJobTypes DEF DirInv
<1>2. /\ directory' = directory /\ dirProvider' = dirProvider /\ account' = account
      /\ link' = link /\ group' = group /\ linking' = linking /\ dirScene' = dirScene
      /\ dirJob[q].at = "join"
  BY DEF JoinGroup
<1>3. PICK e \in Entry, u \in Account : e = dirJob[q].entry /\ u = dirJob[q].account
  BY <1>1, <1>2 DEF DirTrue
<1>4. member' \subseteq Account
  BY <1>1, <1>3 DEF JoinGroup, DirRowsTrue
<1>5. DirRowsTrue' /\ DirGoesOn
  BY <1>1, <1>2, <1>4 DEF DirRowsTrue, DirGoesOn
<1>6. PICK shown : shown = [dirJob[q].page EXCEPT ![e] = NoRow]
  OBVIOUS
<1>7. shown \in [Entry -> EntryRow \cup {NoRow}]
  BY <1>6, DirJobTypes
<1>8. PICK x : x = [dirJob[q] EXCEPT !.at = "page", !.account = NoEntry, !.entry = NoEntry,
                                     !.page = shown]
  OBVIOUS
<1>9. x \in DirWork
  BY <1>1, <1>7, <1>8 DEF DirWork, DirPlaces
<1>10. x.at = "page" /\ x.settings = dirJob[q].settings
  BY <1>1, <1>8 DEF DirWork
<1>11. dirJob' = [dirJob EXCEPT ![q] = x]
  BY <1>3, <1>6, <1>8 DEF JoinGroup
<1>12. DirTrue(x)'
  BY <1>1, <1>2, <1>10 DEF DirTrue
<1> QED BY <1>5, <1>9, <1>11, <1>12, DirMoves

\* A sign-in commits its account, its link and its group together.
LEMMA CommitLoginStep ==
    ASSUME DirInv, NEW q \in DirJob, NEW u \in Account, CommitLogin(q, u)
    PROVE  DirInv'
<1>1. dirJob[q] \in DirWork /\ DirTrue(dirJob[q]) /\ DirRowsTrue
  BY DirJobTypes DEF DirInv
<1>2. /\ directory' = directory /\ dirProvider' = dirProvider
      /\ linking' = linking /\ dirScene' = dirScene
      /\ dirJob[q].at = "commit" /\ Target(q, u)
      /\ account' = IF account[u].status = "deleted" THEN account ELSE Applied(q, u)
      /\ group' = (group \/ Now(q).grouped)
      /\ member' = member \/ member' = member \cup {u}
  BY DEF CommitLogin
<1>3. PICK e \in Entry : e = dirJob[q].entry
  BY <1>1, <1>2 DEF DirTrue
<1>4. /\ account' \in [Account -> AccountRow] /\ DirGoesOn
      /\ \A v \in Account : account'[v].origin = "directory" => account'[v].status # "unborn"
      /\ ~linking => account'[u].origin = "directory"
  BY <1>2, ImportedRow
<1>5. link' = [link EXCEPT ![e] = u]
  BY <1>3 DEF CommitLogin
<1>6. link' \in [Entry -> Account \cup {NoEntry}]
  BY <1>1, <1>5 DEF DirRowsTrue
<1>7. \A f \in Entry : ~linking /\ link'[f] # NoEntry => account'[link'[f]].origin = "directory"
  BY <1>1, <1>4, <1>5 DEF DirRowsTrue, DirGoesOn
<1>8. group' \in BOOLEAN /\ member' \subseteq Account
  BY <1>1, <1>2 DEF DirRowsTrue
<1>9. DirRowsTrue'
  BY <1>1, <1>2, <1>4, <1>6, <1>7, <1>8 DEF DirRowsTrue
<1>10. PICK x : x = [dirJob[q] EXCEPT !.account = u, !.at = "done", !.outcome = "admitted"]
  OBVIOUS
<1>11. x \in DirWork
  BY <1>1, <1>10 DEF DirWork, DirPlaces
<1>12. x.at = "done" /\ x.settings = dirJob[q].settings
  BY <1>1, <1>10 DEF DirWork
<1>13. dirJob' = [dirJob EXCEPT ![q] = x]
  BY <1>10 DEF CommitLogin
<1>14. DirTrue(x)'
  BY <1>1, <1>2, <1>12 DEF DirTrue
<1> QED BY <1>4, <1>9, <1>11, <1>13, <1>14, DirMoves

\* Administrators of the directory, of the provider and of accounts.
LEMMA DirBesideStep ==
    ASSUME DirInv,
           \/ \E e \in Entry, row \in EntryRow : ChangeEntry(e, row)
           \/ \E settings \in ProviderSettings : ChangeProvider(settings)
           \/ \E u \in Account : DeleteAccount(u) \/ \E mail \in DirMail :
                 CreateAccount(u, mail) \/ MoveAccount(u, mail)
    PROVE  DirInv'
<1>1. DirRowsTrue
  BY DEF DirInv
<1>2. CASE \E e \in Entry, row \in EntryRow : ChangeEntry(e, row)
  <2>1. /\ dirProvider' = dirProvider /\ account' = account /\ link' = link /\ group' = group
        /\ member' = member /\ linking' = linking /\ dirScene' = dirScene /\ dirJob' = dirJob
        /\ directory' \in [Entry -> EntryRow]
    BY <1>1, <1>2 DEF ChangeEntry, DirRowsTrue
  <2>2. DirRowsTrue' /\ DirGoesOn
    BY <1>1, <2>1 DEF DirRowsTrue, DirGoesOn
  <2> QED BY <2>1, <2>2, DirBeside
<1>3. ASSUME NEW settings \in ProviderSettings, ChangeProvider(settings) PROVE DirInv'
  <2>1. /\ directory' = directory /\ account' = account /\ link' = link /\ group' = group
        /\ member' = member /\ dirScene' = dirScene /\ dirJob' = dirJob
        /\ dirProvider' = settings /\ linking' = (linking \/ settings.link)
    BY <1>3 DEF ChangeProvider
  <2>2. settings.link \in BOOLEAN
    BY DEF ProviderSettings
  <2>3. DirRowsTrue' /\ DirGoesOn
    BY <1>1, <2>1, <2>2 DEF DirRowsTrue, DirGoesOn
  <2> QED BY <2>1, <2>3, DirBeside
<1>4. ASSUME NEW u \in Account, NEW row \in AccountRow, account' = [account EXCEPT ![u] = row],
             row.status # "unborn", row.origin = account[u].origin \/ account[u].status = "unborn",
             UNCHANGED <<directory, dirProvider, link, group, member, dirJob, linking, dirScene>>
      PROVE  DirInv'
  <2>1. \A v \in Account : account[v].origin = "directory" => account'[v].origin = "directory"
    BY <1>1, <1>4 DEF DirRowsTrue
  <2>2. \A v \in Account : account'[v].origin = "directory" => account'[v].status # "unborn"
    BY <1>1, <1>4 DEF DirRowsTrue
  <2>3. account' \in [Account -> AccountRow]
    BY <1>1, <1>4 DEF DirRowsTrue
  <2>4. DirRowsTrue' /\ DirGoesOn
    BY <1>1, <1>4, <2>1, <2>2, <2>3 DEF DirRowsTrue, DirGoesOn
  <2> QED BY <1>4, <2>4, DirBeside
<1>5. ASSUME NEW u \in Account, DeleteAccount(u) PROVE DirInv'
  <2>1. PICK row : row = [account[u] EXCEPT !.status = "deleted"]
    OBVIOUS
  <2>2. row \in AccountRow /\ row.status = "deleted" /\ row.origin = account[u].origin
    BY <1>1, <2>1 DEF DirRowsTrue, AccountRow
  <2>3. account' = [account EXCEPT ![u] = row]
        /\ UNCHANGED <<directory, dirProvider, link, group, member, dirJob, linking, dirScene>>
    BY <1>5, <2>1 DEF DeleteAccount
  <2> QED BY <1>4, <2>2, <2>3
<1>6. ASSUME NEW u \in Account, NEW mail \in DirMail, CreateAccount(u, mail) PROVE DirInv'
  <2>1. PICK row : row = [status |-> "live", mail |-> mail, enabled |-> TRUE, origin |-> "local"]
    OBVIOUS
  <2>2. row \in AccountRow /\ row.status = "live"
    BY <2>1 DEF AccountRow
  <2>3. account' = [account EXCEPT ![u] = row] /\ account[u].status = "unborn"
        /\ UNCHANGED <<directory, dirProvider, link, group, member, dirJob, linking, dirScene>>
    BY <1>6, <2>1 DEF CreateAccount
  <2> QED BY <1>4, <2>2, <2>3
<1>7. ASSUME NEW u \in Account, NEW mail \in DirMail, MoveAccount(u, mail) PROVE DirInv'
  <2>1. PICK row : row = [account[u] EXCEPT !.mail = mail]
    OBVIOUS
  <2>2. row \in AccountRow /\ row.status = account[u].status /\ row.origin = account[u].origin
    BY <1>1, <2>1 DEF DirRowsTrue, AccountRow
  <2>3. account' = [account EXCEPT ![u] = row] /\ account[u].status = "live"
        /\ UNCHANGED <<directory, dirProvider, link, group, member, dirJob, linking, dirScene>>
    BY <1>7, <2>1 DEF MoveAccount
  <2> QED BY <1>4, <2>2, <2>3
<1> QED BY <1>2, <1>3, <1>5, <1>6, <1>7

\* Every step keeps the invariant.
LEMMA DirStepKeeps == DirInv /\ [DirNext]_dirVars => DirInv'
<1> SUFFICES ASSUME DirInv, [DirNext]_dirVars PROVE DirInv'
  OBVIOUS
<1>1. CASE UNCHANGED dirVars
  <2>1. DirRowsTrue' /\ DirGoesOn /\ dirJob' = dirJob
    BY <1>1 DEF dirVars, DirInv, DirRowsTrue, DirGoesOn
  <2> QED BY <2>1, DirBeside
<1>2. CASE DirNext
  BY <1>2, StartDirStep, PageStep, FindStep, WriteAccountStep, StoreLinkStep, JoinGroupStep,
     CommitLoginStep, DirBesideStep DEF DirNext
<1> QED BY <1>1, <1>2

\* The invariant holds before the first job.
LEMMA DirStart == DirInit => DirInv
<1> SUFFICES ASSUME DirInit PROVE DirInv
  OBVIOUS
<1>1. UnbornAccount \in AccountRow /\ UnbornAccount.origin = "local"
  BY DEF UnbornAccount, AccountRow
<1>2. dirProvider \in ProviderSettings
  BY DEF DirInit, ProviderSettings
<1>3. DirRowsTrue
  BY <1>1, <1>2 DEF DirInit, DirRowsTrue, ProviderSettings
<1>4. IdleDirJob(dirProvider) \in DirWork
  BY <1>2 DEF IdleDirJob, DirWork, DirPlaces
<1>5. DirTrue(IdleDirJob(dirProvider))
  BY DEF IdleDirJob, DirTrue, DirInit
<1> QED BY <1>3, <1>4, <1>5 DEF DirInit, DirInv

\* The invariant of directory imports.
THEOREM DirInvariance == DirSpec => []DirInv
BY DirStart, DirStepKeeps, PTL DEF DirSpec

\* Until a provider is allowed to link existing accounts, no import and no sign-in, however
\* they interleave with each other and with administrators who create, move and delete
\* accounts, links an entry to an account the directory did not make.
THEOREM ImportsTakeNoAccount == DirSpec => []LocalAccountsKept
<1>1. DirInv => LocalAccountsKept
  BY DEF DirInv, DirRowsTrue, LocalAccountsKept
<1> QED BY <1>1, DirInvariance, PTL


-----------------------------------------------------------------------------
(* DevStack: a script is committed exactly when it is recorded, and a      *)
(* stack that is ready or stopped is so in the database and on the host.   *)

Migrating == {"files", "apply", "record", "commit"}
Seeded == {"key", "wait", "file", "ready"} \cup Service

\* The rows the seed creates before a row.
SeedBefore == [realm |-> {}, admin |-> {"realm"}, role |-> {"realm", "admin"},
               grant |-> {"realm", "admin", "role"}, ui |-> SeedRows \ {"ui", "service"},
               service |-> SeedRows \ {"service"}]

\* The migration a command is at: the least of those before it.
IsNext(f, c) == f \in c.rest /\ \A g \in c.rest : f <= g

\* The database and the host: the scripts committed are those recorded, and no version is
\* recorded without the earlier ones.
StackRowsTrue ==
    /\ container \subseteq Command \cup {Caller}
    /\ applied = [f \in File |-> IF f \in recorded THEN 1 ELSE 0] /\ recorded \subseteq File
    /\ \A f, g \in File : f < g /\ g \in recorded => f \in recorded
    /\ recorded # {} => Command # {}
    /\ migrationLock \in Command \cup {NoCommand}
    /\ rows \subseteq SeedRows /\ apiKeys \subseteq Command
    /\ child \subseteq Command \X Service
    /\ runtime \in Command \cup {NoCommand}
    /\ stackScene \in StackScenes

\* What a connected command has done: it holds the lock as long as it migrates, everything
\* it has passed is recorded, and the file it is at is not.
MigrationTrue(q, c) ==
    c.connected =>
        /\ c.at \in Migrating => migrationLock = q /\ File \ c.rest \subseteq recorded
        /\ c.at \in Migrating \ {"files"} =>
              c.rest # {} /\ \A f \in File : IsNext(f, c) => f \notin recorded
        /\ c.at \in {"find", "insert"} \cup Seeded => recorded = File
        /\ c.at \in {"find", "insert"} => SeedBefore[c.row] \subseteq rows
        /\ c.at \in Seeded => rows = SeedRows

\* Which command can be at which place, with which files before it and which servers.
Serves(c, s) ==
    s \in Service /\ (c.kind \in {"start", "wasm"} \/ (c.kind = "bare" /\ s = "backend"))
KindTrue(c) ==
    /\ c.at \in {"new", "lock"} => c.rest = File
    /\ c.at \in {"lock"} \cup Migrating => c.kind \in Servers \cup {"migrate", "seed"}
    /\ c.at \in {"find", "insert", "key"} => c.kind \in Servers \cup {"seed"}
    /\ c.at \in {"find", "insert"} => c.row \in SeedRows
    /\ c.at \in Service => Serves(c, c.at)
    /\ c.at = "wait" => Serves(c, c.last)

\* A running process is one its command keeps, or waits for; a command that has stopped
\* has none, and no container.
ChildrenTrue(q, c) ==
    /\ c.at \notin {"wait", "done"} => \A s \in Service : <<q, s>> \in child => s \in c.held
    /\ c.at = "wait" => \A s \in Service : <<q, s>> \in child => s \in c.held \cup {c.last}
    /\ c.at \in {"new", "remove", "clear"} => c.held = {}
    /\ c.at \in {"new", "clear"} => q \notin container
    /\ c.outcome # "collided"
    /\ c.outcome # "none" => c.at = "done"
    /\ c.outcome = "stopped" => q \notin container /\ \A s \in Service : <<q, s>> \notin child

CommandTrue(q, c) == MigrationTrue(q, c) /\ KindTrue(c) /\ ChildrenTrue(q, c)

StackInv ==
    /\ StackRowsTrue
    /\ command \in [Command -> StackWork]
    /\ \A q \in Command : CommandTrue(q, command[q])

-----------------------------------------------------------------------------
\* The fields of a command.
LEMMA CommandTypes ==
    ASSUME StackInv, NEW q \in Command
    PROVE  /\ command[q] \in StackWork /\ CommandTrue(q, command[q])
           /\ command[q].kind \in Servers \cup {"none", "migrate", "seed", "stop", "wasm_stop",
                                                "e2e"}
           /\ command[q].at \in StackPlaces /\ command[q].connected \in BOOLEAN
           /\ command[q].rest \subseteq File
           /\ command[q].row \in SeedRows \cup {"none", "key"}
           /\ command[q].last \in Service \cup {"none"}
           /\ command[q].held \subseteq Service
           /\ command[q].outcome \in {"none", "failed", "collided", "complete", "stopped",
                                      "killed"}
           /\ q # NoCommand
BY StackAssumption DEF StackInv, StackWork

\* A step of one command takes nothing away from the others: the records and the rows only
\* grow, the records under the lock; nobody loses the lock, gains a process or a container.
StackGoesOn(q) ==
    /\ recorded \subseteq recorded' /\ (recorded' # recorded => migrationLock = q)
    /\ rows \subseteq rows'
    /\ \A d \in Command : d # q /\ migrationLock = d => migrationLock' = d
    /\ \A d \in Command : d # q /\ d \in container' => d \in container
    /\ \A d \in Command, s \in Service : d # q /\ <<d, s>> \in child' => <<d, s>> \in child

\* What is true of another command stays true.
LEMMA StackStays ==
    ASSUME StackRowsTrue, StackRowsTrue', NEW q \in Command, NEW d \in Command, d # q, NEW c,
           CommandTrue(d, c), StackGoesOn(q)
    PROVE  CommandTrue(d, c)'
<1>1. c.connected /\ c.at \in Migrating => migrationLock = d /\ migrationLock' = d
      /\ recorded' = recorded
  BY DEF CommandTrue, MigrationTrue, StackGoesOn
<1>2. /\ recorded \subseteq recorded' /\ recorded' \subseteq File /\ rows \subseteq rows'
      /\ rows' \subseteq SeedRows
  BY DEF StackGoesOn, StackRowsTrue
<1>3. MigrationTrue(d, c)'
  BY <1>1, <1>2 DEF CommandTrue, MigrationTrue, IsNext
<1>4. KindTrue(c)'
  BY DEF CommandTrue, KindTrue, Serves
<1>5. ChildrenTrue(d, c)'
  BY DEF CommandTrue, ChildrenTrue, StackGoesOn
<1> QED BY <1>3, <1>4, <1>5 DEF CommandTrue

\* A step of one command keeps the invariant when it keeps it of that command and of the
\* rows.
LEMMA StackMoves ==
    ASSUME StackInv, NEW q \in Command, NEW x \in StackWork,
           command' = [command EXCEPT ![q] = x], StackRowsTrue', StackGoesOn(q),
           CommandTrue(q, x)'
    PROVE  StackInv'
<1>1. command' \in [Command -> StackWork] /\ command'[q] = x
  BY DEF StackInv
<1>2. ASSUME NEW d \in Command, d # q PROVE CommandTrue(d, command[d])'
  <2>1. PICK c : c = command[d]
    OBVIOUS
  <2>2. command'[d] = c
    BY <1>2, <2>1 DEF StackInv
  <2>3. CommandTrue(d, c)'
    BY <1>2, <2>1, StackStays DEF StackInv
  <2> QED BY <2>2, <2>3
<1>3. CommandTrue(q, command[q])'
  BY <1>1
<1> QED BY <1>1, <1>2, <1>3 DEF StackInv

\* A step that changes neither the database nor the host.
LEMMA StackReads ==
    ASSUME StackInv, NEW q \in Command, NEW x \in StackWork,
           command' = [command EXCEPT ![q] = x], UNCHANGED <<database, host>>,
           CommandTrue(q, x)
    PROVE  StackInv'
<1>1. /\ container' = container /\ applied' = applied /\ recorded' = recorded
      /\ migrationLock' = migrationLock /\ rows' = rows /\ apiKeys' = apiKeys
      /\ child' = child /\ runtime' = runtime /\ stackScene' = stackScene
  BY DEF database, host
<1>2. StackRowsTrue' /\ StackGoesOn(q)
  BY <1>1 DEF StackInv, StackRowsTrue, StackGoesOn
<1>3. CommandTrue(q, x)'
  BY <1>1 DEF CommandTrue, MigrationTrue, KindTrue, ChildrenTrue, IsNext, Serves
<1> QED BY <1>2, <1>3, StackMoves

\* A database that is gone takes the connections of the other commands with it.
LEMMA StackGone ==
    ASSUME StackInv, NEW q \in Command, NEW x \in StackWork, Gone(q, x),
           child' \subseteq child, runtime' = runtime, stackScene' = stackScene,
           MigrationTrue(q, x)', KindTrue(x), ChildrenTrue(q, x)'
    PROVE  StackInv'
<1>1. StackRowsTrue'
  BY DEF StackInv, StackRowsTrue, Gone
<1>2. ASSUME NEW d \in Command
      PROVE  command'[d] \in StackWork /\ CommandTrue(d, command[d])'
  <2>1. CASE d = q
    <3>1. command'[d] = x
      BY <2>1 DEF Gone
    <3>2. KindTrue(x)'
      BY DEF KindTrue, Serves
    <3> QED BY <2>1, <3>1, <3>2 DEF CommandTrue
  <2>2. CASE d # q
    <3>1. PICK c : c = [command[d] EXCEPT !.connected = FALSE]
      OBVIOUS
    <3>2. command'[d] = c
      BY <2>2, <3>1 DEF Gone
    <3>3. /\ c \in StackWork /\ c.connected = FALSE /\ c.at = command[d].at
          /\ c.kind = command[d].kind /\ c.row = command[d].row /\ c.last = command[d].last
          /\ c.held = command[d].held /\ c.outcome = command[d].outcome
      BY <3>1, CommandTypes DEF StackWork
    <3>4. MigrationTrue(d, c)'
      BY <3>3 DEF MigrationTrue
    <3>5. KindTrue(c)'
      <4>1. KindTrue(command[d])
        BY CommandTypes DEF CommandTrue
      <4>2. c.rest = command[d].rest
        BY <3>1, CommandTypes DEF StackWork
      <4> QED BY <3>3, <4>1, <4>2 DEF KindTrue, Serves
    <3>6. ChildrenTrue(d, c)'
      BY <3>3, CommandTypes DEF CommandTrue, ChildrenTrue, Gone
    <3> QED BY <3>2, <3>3, <3>4, <3>5, <3>6 DEF CommandTrue
  <2> QED BY <2>1, <2>2
<1>3. command' \in [Command -> StackWork]
  BY <1>2 DEF Gone
<1> QED BY <1>1, <1>2, <1>3 DEF StackInv

-----------------------------------------------------------------------------
\* A command that goes to a place, and one that ends.
LEMMA CommandPlaced ==
    ASSUME StackInv, NEW q \in Command
    PROVE  /\ \A place \in StackPlaces : StackAt(q, place) =>
                 \E x \in StackWork :
                    /\ command' = [command EXCEPT ![q] = x] /\ x.at = place
                    /\ x.kind = command[q].kind /\ x.connected = command[q].connected
                    /\ x.rest = command[q].rest /\ x.row = command[q].row
                    /\ x.last = command[q].last /\ x.held = command[q].held
                    /\ x.outcome = command[q].outcome
           /\ \A outcome \in {"failed", "complete", "stopped", "killed"} :
                 \E x \in StackWork :
                    /\ x = Ended(q, outcome) /\ x.at = "done" /\ ~x.connected
                    /\ x.outcome = outcome
<1>1. command[q] \in StackWork
  BY CommandTypes
<1>2. ASSUME NEW place \in StackPlaces, StackAt(q, place)
      PROVE  \E x \in StackWork :
                /\ command' = [command EXCEPT ![q] = x] /\ x.at = place
                /\ x.kind = command[q].kind /\ x.connected = command[q].connected
                /\ x.rest = command[q].rest /\ x.row = command[q].row
                /\ x.last = command[q].last /\ x.held = command[q].held
                /\ x.outcome = command[q].outcome
  <2>1. PICK x : x = [command[q] EXCEPT !.at = place]
    OBVIOUS
  <2>2. x \in StackWork
    BY <1>1, <2>1 DEF StackWork
  <2>3. /\ x.at = place /\ x.kind = command[q].kind /\ x.connected = command[q].connected
        /\ x.rest = command[q].rest /\ x.row = command[q].row /\ x.last = command[q].last
        /\ x.held = command[q].held /\ x.outcome = command[q].outcome
    BY <1>1, <2>1 DEF StackWork
  <2>4. command' = [command EXCEPT ![q] = x]
    BY <1>2, <2>1 DEF StackAt
  <2> QED BY <2>2, <2>3, <2>4
<1>3. ASSUME NEW outcome \in {"failed", "complete", "stopped", "killed"}
      PROVE  \E x \in StackWork : /\ x = Ended(q, outcome) /\ x.at = "done" /\ ~x.connected
                                  /\ x.outcome = outcome
  <2>1. PICK x : x = Ended(q, outcome)
    OBVIOUS
  <2>2. x \in StackWork /\ x.at = "done" /\ ~x.connected /\ x.outcome = outcome
    BY <1>1, <2>1 DEF StackWork, Ended, StackPlaces
  <2> QED BY <2>1, <2>2
<1> QED BY <1>2, <1>3

\* A command that ends, other than by Ctrl-C on a stack that is ready, has nothing to keep.
LEMMA StackEnds ==
    ASSUME StackInv, NEW q \in Command, NEW outcome \in {"failed", "complete", "killed"},
           command' = [command EXCEPT ![q] = Ended(q, outcome)],
           StackRowsTrue', StackGoesOn(q)
    PROVE  StackInv'
<1>1. PICK x \in StackWork : /\ x = Ended(q, outcome) /\ x.at = "done" /\ ~x.connected
                             /\ x.outcome = outcome
  BY CommandPlaced
<1>2. CommandTrue(q, x)'
  BY <1>1 DEF CommandTrue, MigrationTrue, KindTrue, ChildrenTrue, Migrating, Service
<1>3. command' = [command EXCEPT ![q] = x]
  BY <1>1
<1> QED BY <1>2, <1>3, StackMoves

\* The lock goes with its holder: nothing else has changed.
LEMMA StackUnlocks ==
    ASSUME StackInv, NEW q \in Command, migrationLock' \in {migrationLock, Unlocked(q)},
           UNCHANGED <<container, applied, recorded, rows, apiKeys, host>>
    PROVE  StackRowsTrue' /\ StackGoesOn(q)
BY DEF StackInv, StackRowsTrue, StackGoesOn, Unlocked, host

\* A command begins.
LEMMA StackBegins ==
    ASSUME StackInv, NEW q \in Command,
           NEW kind \in Servers \cup {"migrate", "seed", "stop", "wasm_stop"},
           NEW place \in {"lock", "remove", "clear"}, Begin(q, kind, place),
           place = "lock" => kind \in Servers \cup {"migrate", "seed"},
           place = "clear" => container' = container
    PROVE  \E x \in StackWork :
              /\ command' = [command EXCEPT ![q] = x] /\ x.at = place
              /\ MigrationTrue(q, x)' /\ KindTrue(x)'
              /\ child' \subseteq child => ChildrenTrue(q, x)'
<1>1. PICK x : x = [command[q] EXCEPT !.kind = kind, !.at = place, !.connected = TRUE]
  OBVIOUS
<1>2. command[q].at = "new" /\ command' = [command EXCEPT ![q] = x]
  <2>1. command' = [command EXCEPT ![q].kind = kind, ![q].at = place, ![q].connected = TRUE]
    BY Zenon DEF Begin
  <2> QED BY <1>1, <2>1, Zenon DEF Begin
<1>3. x \in StackWork
  <2>1. command[q] \in StackWork
    BY CommandTypes
  <2>2. /\ place \in StackPlaces
        /\ kind \in Servers \cup {"none", "migrate", "seed", "stop", "wasm_stop", "e2e"}
    BY DEF StackPlaces
  <2> QED BY <1>1, <2>1, <2>2 DEF StackWork
<1>4. /\ x.at = place /\ x.kind = kind /\ x.held = command[q].held
      /\ x.outcome = command[q].outcome /\ x.rest = File
  BY <1>1, <1>2, CommandTypes DEF StackWork, CommandTrue, KindTrue
<1>5. MigrationTrue(q, x)' /\ KindTrue(x)'
  BY <1>4 DEF MigrationTrue, KindTrue, Migrating, Seeded, Service
<1>6. child' \subseteq child => ChildrenTrue(q, x)'
  BY <1>2, <1>4, CommandTypes DEF CommandTrue, ChildrenTrue
<1> QED BY <1>2, <1>3, <1>4, <1>5, <1>6

\* The commands that migrate begin, with a database that is there or one they start.
LEMMA StartStackStep ==
    ASSUME StackInv, NEW q \in Command,
           \/ \E kind \in {"migrate", "seed"} : StartMigrate(q, kind)
           \/ \E kind \in Servers : StartDatabase(q, kind)
    PROVE  StackInv'
<1>1. PICK kind \in Servers \cup {"migrate", "seed"} :
         /\ Begin(q, kind, "lock") /\ container' \in {container, container \cup {q}}
         /\ UNCHANGED <<applied, recorded, migrationLock, rows, apiKeys, host>>
  BY DEF StartMigrate, StartDatabase, database
<1>2. StackRowsTrue' /\ StackGoesOn(q)
  BY <1>1 DEF StackInv, StackRowsTrue, StackGoesOn, host
<1>3. PICK x \in StackWork :
         /\ command' = [command EXCEPT ![q] = x] /\ x.at = "lock"
         /\ MigrationTrue(q, x)' /\ KindTrue(x)' /\ (child' \subseteq child => ChildrenTrue(q, x)')
  BY <1>1, StackBegins
<1>4. CommandTrue(q, x)'
  BY <1>1, <1>3 DEF CommandTrue, host
<1> QED BY <1>2, <1>3, <1>4, StackMoves

\* The lock is taken when nobody holds it.
LEMMA AcquireStep ==
    ASSUME StackInv, NEW q \in Command, AcquireMigrationLock(q) PROVE StackInv'
<1>1. /\ command[q].at = "lock" /\ command[q].connected /\ migrationLock = NoCommand
      /\ migrationLock' = q /\ StackAt(q, "files")
      /\ UNCHANGED <<container, applied, recorded, rows, apiKeys, host>>
  BY DEF AcquireMigrationLock, LockFree
<1>2. StackRowsTrue' /\ StackGoesOn(q)
  BY <1>1, StackAssumption DEF StackInv, StackRowsTrue, StackGoesOn, host
<1>3. PICK x \in StackWork :
         /\ command' = [command EXCEPT ![q] = x] /\ x.at = "files"
         /\ x.kind = command[q].kind /\ x.rest = command[q].rest
         /\ x.held = command[q].held /\ x.outcome = command[q].outcome
  BY <1>1, CommandPlaced DEF StackPlaces
<1>4. command[q].rest = File
  BY <1>1, CommandTypes DEF CommandTrue, KindTrue
<1>5. MigrationTrue(q, x)'
  BY <1>1, <1>3, <1>4 DEF MigrationTrue, Migrating, Seeded, Service
<1>6. KindTrue(x)'
  BY <1>1, <1>3, CommandTypes DEF CommandTrue, KindTrue, Migrating, Service
<1>7. ChildrenTrue(q, x)'
  BY <1>1, <1>3, CommandTypes DEF CommandTrue, ChildrenTrue, host
<1> QED BY <1>2, <1>3, <1>5, <1>6, <1>7, StackMoves DEF CommandTrue

-----------------------------------------------------------------------------
\* The migration a command is at is the least of those before it.
LEMMA NextIsNext ==
    ASSUME StackInv, NEW q \in Command, command[q].rest # {}
    PROVE  /\ NextFile(q) \in File /\ IsNext(NextFile(q), command[q])
           /\ \A f \in File : IsNext(f, command[q]) => f = NextFile(q)
<1>1. command[q].rest \subseteq Nat
  BY CommandTypes, StackAssumption
<1>2. IsWellFoundedOn(OpToRel(<, Nat), Nat)
  BY NatLessThanWellFounded
<1>3. PICK n \in command[q].rest : \A m \in command[q].rest : <<m, n>> \notin OpToRel(<, Nat)
  BY <1>1, <1>2, WFMin
<1>4. \A m, k \in Nat : m < k => <<m, k>> \in OpToRel(<, Nat)
  BY DEF OpToRel
<1>5. ASSUME NEW m \in command[q].rest PROVE n <= m
  <2>1. m \in Nat /\ n \in Nat /\ ~(m < n)
    BY <1>1, <1>3, <1>4
  <2> QED BY <2>1
<1>6. IsNext(NextFile(q), command[q])
  BY <1>5, Zenon DEF NextFile, IsNext
<1>7. NextFile(q) \in File
  BY <1>6, CommandTypes DEF IsNext
<1>8. \A f \in File : IsNext(f, command[q]) => f = NextFile(q)
  BY <1>1, <1>6, StackAssumption DEF IsNext
<1> QED BY <1>6, <1>7, <1>8

\* A version is skipped when it is recorded.
LEMMA CheckFileStep ==
    ASSUME StackInv, NEW q \in Command, CheckFile(q) PROVE StackInv'
<1>1. /\ command[q].at = "files" /\ command[q].connected /\ command[q].rest # {}
      /\ UNCHANGED <<database, host>>
  BY DEF CheckFile
<1>2. CASE NextFile(q) \in recorded
  <2>1. PICK x : x = [command[q] EXCEPT !.rest = @ \ {NextFile(q)}]
    OBVIOUS
  <2>2. command' = [command EXCEPT ![q] = x]
    BY <1>2, <2>1 DEF CheckFile
  <2>3. /\ x \in StackWork /\ x.rest = command[q].rest \ {NextFile(q)} /\ x.at = "files"
        /\ x.kind = command[q].kind /\ x.held = command[q].held
        /\ x.outcome = command[q].outcome
    BY <1>1, <2>1, CommandTypes DEF StackWork
  <2>4. MigrationTrue(q, x)
    BY <1>1, <1>2, <2>3, CommandTypes DEF CommandTrue, MigrationTrue, Migrating, Seeded, Service
  <2>5. KindTrue(x) /\ ChildrenTrue(q, x)
    BY <1>1, <2>3, CommandTypes DEF CommandTrue, KindTrue, ChildrenTrue, Migrating, Service
  <2> QED BY <1>1, <2>2, <2>3, <2>4, <2>5, StackReads DEF CommandTrue
<1>3. CASE NextFile(q) \notin recorded
  <2>1. StackAt(q, "apply")
    BY <1>3 DEF CheckFile, StackAt
  <2>2. PICK x \in StackWork :
           /\ command' = [command EXCEPT ![q] = x] /\ x.at = "apply"
           /\ x.kind = command[q].kind /\ x.rest = command[q].rest
           /\ x.held = command[q].held /\ x.outcome = command[q].outcome
    BY <2>1, CommandPlaced DEF StackPlaces
  <2>3. \A f \in File : IsNext(f, x) => f \notin recorded
    BY <1>1, <1>3, <2>2, NextIsNext DEF IsNext
  <2>4. MigrationTrue(q, x)
    BY <1>1, <2>2, <2>3, CommandTypes DEF CommandTrue, MigrationTrue, Migrating, Seeded, Service
  <2>5. KindTrue(x) /\ ChildrenTrue(q, x)
    BY <1>1, <2>2, CommandTypes DEF CommandTrue, KindTrue, ChildrenTrue, Migrating, Service
  <2> QED BY <1>1, <2>2, <2>4, <2>5, StackReads DEF CommandTrue
<1> QED BY <1>2, <1>3

\* From place to place within the transaction: the version is not recorded yet.
LEMMA WithinTransaction ==
    ASSUME StackInv, NEW q \in Command, NEW place \in {"record", "commit"},
           command[q].at \in {"apply", "record"}, command[q].connected, StackAt(q, place),
           UNCHANGED <<database, host>>
    PROVE  StackInv'
<1>1. PICK x \in StackWork :
         /\ command' = [command EXCEPT ![q] = x] /\ x.at = place
         /\ x.kind = command[q].kind /\ x.rest = command[q].rest
         /\ x.held = command[q].held /\ x.outcome = command[q].outcome
  BY CommandPlaced DEF StackPlaces
<1>2. MigrationTrue(q, x)
  BY <1>1, CommandTypes DEF CommandTrue, MigrationTrue, Migrating, Seeded, Service, IsNext
<1>3. KindTrue(x) /\ ChildrenTrue(q, x)
  BY <1>1, CommandTypes DEF CommandTrue, KindTrue, ChildrenTrue, Migrating, Service
<1> QED BY <1>1, <1>2, <1>3, StackReads DEF CommandTrue

\* The script runs and its record is inserted: it meets no record of another runner.
LEMMA ApplyStep ==
    ASSUME StackInv, NEW q \in Command, Apply(q) \/ RecordMigration(q) PROVE StackInv'
<1>1. CASE Apply(q)
  BY <1>1, WithinTransaction DEF Apply
<1>2. CASE RecordMigration(q)
  <2>1. command[q].at = "record" /\ command[q].connected
    BY <1>2 DEF RecordMigration
  <2>2. NextFile(q) \notin recorded
    BY <2>1, CommandTypes, NextIsNext DEF CommandTrue, MigrationTrue, Migrating
  <2>3. StackAt(q, "commit") /\ UNCHANGED <<database, host>>
    BY <1>2, <2>2 DEF RecordMigration, database
  <2> QED BY <2>1, <2>3, WithinTransaction
<1> QED BY <1>1, <1>2

\* The transaction commits the script with its record, under the lock.
LEMMA CommitStep ==
    ASSUME StackInv, NEW q \in Command, Commit(q) PROVE StackInv'
<1>1. /\ command[q].at = "commit" /\ command[q].connected
      /\ applied' = [applied EXCEPT ![NextFile(q)] = @ + 1]
      /\ recorded' = recorded \cup {NextFile(q)}
      /\ command' = [command EXCEPT ![q].at = "files", ![q].rest = @ \ {NextFile(q)}]
      /\ UNCHANGED <<container, migrationLock, rows, apiKeys, host>>
  BY DEF Commit
<1>2. /\ migrationLock = q /\ File \ command[q].rest \subseteq recorded
      /\ command[q].rest # {} /\ NextFile(q) \in File /\ NextFile(q) \notin recorded
      /\ IsNext(NextFile(q), command[q])
  BY <1>1, CommandTypes, NextIsNext DEF CommandTrue, MigrationTrue, Migrating
<1>3. applied' = [f \in File |-> IF f \in recorded' THEN 1 ELSE 0]
  <2>1. PICK n \in File : n = NextFile(q)
    BY <1>2
  <2>2. /\ applied' = [applied EXCEPT ![n] = @ + 1] /\ n \notin recorded
        /\ applied = [f \in File |-> IF f \in recorded THEN 1 ELSE 0]
        /\ recorded' = recorded \cup {n}
    BY <1>1, <1>2, <2>1 DEF StackInv, StackRowsTrue
  <2>3. applied' = [f \in File |-> applied'[f]]
    BY <2>2
  <2>4. \A f \in File : applied'[f] = (IF f \in recorded' THEN 1 ELSE 0)
    BY <2>2
  <2> QED BY <2>3, <2>4
<1>4. ASSUME NEW f \in File, NEW g \in File, f < g, g \in recorded' PROVE f \in recorded'
  <2>1. f \in Nat /\ g \in Nat
    BY StackAssumption
  <2>2. CASE g = NextFile(q)
    BY <1>1, <1>2, <1>4, <2>1, <2>2 DEF IsNext
  <2>3. CASE g # NextFile(q)
    BY <1>1, <1>4, <2>3 DEF StackInv, StackRowsTrue
  <2> QED BY <2>2, <2>3
<1>5. StackRowsTrue'
  BY <1>1, <1>2, <1>3, <1>4 DEF StackInv, StackRowsTrue, host
<1>6. StackGoesOn(q)
  BY <1>1, <1>2 DEF StackGoesOn, host
<1>7. PICK x : x = [command[q] EXCEPT !.at = "files", !.rest = @ \ {NextFile(q)}]
  OBVIOUS
<1>8. command' = [command EXCEPT ![q] = x]
  BY <1>1, <1>7
<1>9. /\ x \in StackWork /\ x.rest = command[q].rest \ {NextFile(q)} /\ x.at = "files"
      /\ x.kind = command[q].kind /\ x.held = command[q].held
      /\ x.outcome = command[q].outcome
  BY <1>7, CommandTypes DEF StackWork, StackPlaces
<1>10. MigrationTrue(q, x)'
  BY <1>1, <1>2, <1>9 DEF MigrationTrue, Migrating, Seeded, Service
<1>11. KindTrue(x)' /\ ChildrenTrue(q, x)'
  BY <1>1, <1>9, CommandTypes DEF CommandTrue, KindTrue, ChildrenTrue, Migrating, Service, host
<1> QED BY <1>5, <1>6, <1>8, <1>9, <1>10, <1>11, StackMoves DEF CommandTrue

\* A runner that has passed every version leaves the lock.
LEMMA FinishStep ==
    ASSUME StackInv, NEW q \in Command, FinishMigrations(q) PROVE StackInv'
<1>1. /\ command[q].at = "files" /\ command[q].connected /\ command[q].rest = {}
      /\ migrationLock' = Unlocked(q)
      /\ UNCHANGED <<container, applied, recorded, rows, apiKeys, host>>
  BY DEF FinishMigrations
<1>2. StackRowsTrue' /\ StackGoesOn(q)
  BY <1>1, StackUnlocks
<1>3. CASE command[q].kind = "migrate"
  BY <1>2, <1>3, StackEnds DEF FinishMigrations
<1>4. CASE command[q].kind # "migrate"
  <2>1. PICK x : x = [command[q] EXCEPT !.at = "find", !.row = "realm"]
    OBVIOUS
  <2>2. command' = [command EXCEPT ![q] = x]
    BY <1>4, <2>1 DEF FinishMigrations
  <2>3. /\ x \in StackWork /\ x.at = "find" /\ x.row = "realm"
        /\ x.kind = command[q].kind /\ x.held = command[q].held
        /\ x.outcome = command[q].outcome
    BY <2>1, CommandTypes DEF StackWork, StackPlaces, SeedRows
  <2>4. recorded = File
    BY <1>1, CommandTypes DEF CommandTrue, MigrationTrue, Migrating, StackInv, StackRowsTrue
  <2>5. MigrationTrue(q, x)'
    BY <1>1, <2>3, <2>4 DEF MigrationTrue, Migrating, Seeded, Service, SeedBefore
  <2>6. KindTrue(x)'
    BY <1>1, <1>4, <2>3, CommandTypes DEF CommandTrue, KindTrue, Migrating, Service, SeedRows
  <2>7. ChildrenTrue(q, x)'
    BY <1>1, <2>3, CommandTypes DEF CommandTrue, ChildrenTrue, host
  <2> QED BY <1>2, <2>2, <2>3, <2>5, <2>6, <2>7, StackMoves DEF CommandTrue
<1> QED BY <1>3, <1>4

-----------------------------------------------------------------------------
\* The seed goes to the next row when this one is there, found or inserted.
LEMMA SeedNextStep ==
    ASSUME StackInv, NEW q \in Command, command[q].at \in {"find", "insert"},
           command[q].connected, SeedNext(q), rows' = rows \cup {command[q].row},
           UNCHANGED <<container, applied, recorded, migrationLock, apiKeys, host>>
    PROVE  StackInv'
<1>1. PICK row \in SeedRows : row = command[q].row
  BY CommandTypes DEF CommandTrue, KindTrue
<1>2. PICK next : next = SeedAfter[row]
  OBVIOUS
<1>3. /\ next \in SeedRows \cup {"key"}
      /\ next \in SeedRows => SeedBefore[next] \subseteq SeedBefore[row] \cup {row}
      /\ next = "key" => SeedRows \subseteq SeedBefore[row] \cup {row}
  BY <1>2 DEF SeedAfter, SeedBefore, SeedRows
<1>4. PICK place \in {"key", "find"} : place = (IF next = "key" THEN "key" ELSE "find")
  OBVIOUS
<1>5. PICK x : x = [command[q] EXCEPT !.row = next, !.at = place]
  OBVIOUS
<1>6. command' = [command EXCEPT ![q] = x]
  <2>1. command' = [command EXCEPT ![q].row = next, ![q].at = place]
    BY <1>1, <1>2, <1>4, Zenon DEF SeedNext
  <2> QED BY <1>5, <2>1
<1>7. /\ x \in StackWork /\ x.row = next /\ x.at = place
      /\ x.kind = command[q].kind /\ x.held = command[q].held
      /\ x.outcome = command[q].outcome /\ x.connected
  <2>1. command[q] \in StackWork
    BY CommandTypes
  <2>2. place \in StackPlaces /\ next \in SeedRows \cup {"none", "key"}
    BY <1>3 DEF StackPlaces
  <2>3. x \in StackWork
    BY <1>5, <2>1, <2>2 DEF StackWork
  <2> QED BY <1>5, <2>1, <2>3 DEF StackWork
<1>8. /\ SeedBefore[row] \subseteq rows /\ recorded = File
  BY <1>1, CommandTypes DEF CommandTrue, MigrationTrue
<1>9. StackRowsTrue' /\ StackGoesOn(q)
  BY <1>1 DEF StackInv, StackRowsTrue, StackGoesOn, host
<1>10. next = "key" => rows' = SeedRows
  BY <1>1, <1>3, <1>8, <1>9 DEF StackRowsTrue
<1>11. MigrationTrue(q, x)'
  BY <1>1, <1>3, <1>4, <1>7, <1>8, <1>10 DEF MigrationTrue, Migrating, Seeded, Service
<1>12. KindTrue(x)'
  BY <1>3, <1>4, <1>7, CommandTypes DEF CommandTrue, KindTrue, Migrating, Service
<1>13. ChildrenTrue(q, x)'
  BY <1>4, <1>7, CommandTypes DEF CommandTrue, ChildrenTrue, host
<1> QED BY <1>6, <1>7, <1>9, <1>11, <1>12, <1>13, StackMoves DEF CommandTrue

\* A row is looked for.
LEMMA FindRowStep ==
    ASSUME StackInv, NEW q \in Command, FindRow(q) PROVE StackInv'
<1>1. command[q].at = "find" /\ command[q].connected /\ UNCHANGED <<database, host>>
  BY DEF FindRow
<1>2. CASE command[q].row \in rows
  BY <1>1, <1>2, SeedNextStep DEF FindRow, database
<1>3. CASE command[q].row \notin rows
  <2>1. StackAt(q, "insert")
    BY <1>3 DEF FindRow
  <2>2. PICK x \in StackWork :
           /\ command' = [command EXCEPT ![q] = x] /\ x.at = "insert"
           /\ x.kind = command[q].kind /\ x.row = command[q].row
           /\ x.held = command[q].held /\ x.outcome = command[q].outcome
    BY <2>1, CommandPlaced DEF StackPlaces
  <2>3. MigrationTrue(q, x)
    BY <1>1, <2>2, CommandTypes DEF CommandTrue, MigrationTrue, Migrating, Seeded, Service
  <2>4. KindTrue(x) /\ ChildrenTrue(q, x)
    BY <1>1, <2>2, CommandTypes DEF CommandTrue, KindTrue, ChildrenTrue, Migrating, Service
  <2> QED BY <1>1, <2>2, <2>3, <2>4, StackReads DEF CommandTrue
<1> QED BY <1>2, <1>3

\* A row is inserted, unless another command was first.
LEMMA InsertRowStep ==
    ASSUME StackInv, NEW q \in Command, InsertRow(q) PROVE StackInv'
<1>1. /\ command[q].at = "insert" /\ command[q].connected
      /\ rows' = rows \cup {command[q].row}
      /\ UNCHANGED <<container, applied, recorded, migrationLock, apiKeys, host>>
  BY DEF InsertRow
<1>2. CASE command[q].row \in rows \ {"grant"}
  <2>1. StackRowsTrue' /\ StackGoesOn(q)
    BY <1>1, <1>2 DEF StackInv, StackRowsTrue, StackGoesOn, host
  <2>2. command' = [command EXCEPT ![q] = Ended(q, "failed")]
    BY <1>2 DEF InsertRow
  <2> QED BY <2>1, <2>2, StackEnds
<1>3. CASE command[q].row \notin rows \ {"grant"}
  <2>1. SeedNext(q)
    BY <1>3 DEF InsertRow
  <2> QED BY <1>1, <2>1, SeedNextStep
<1> QED BY <1>2, <1>3

\* What a server command starts first, and what it starts after each server.
LEMMA AfterPlaces ==
    /\ \A kind \in Servers :
          \/ After[kind].none = "ready"
          \/ After[kind].none = "backend" /\ kind \in {"start", "bare"}
          \/ After[kind].none = "frontend" /\ kind = "wasm"
    /\ \A kind \in {"start", "wasm"}, s \in Service :
          After[kind][s] \in {"file"} \cup Service
    /\ After["bare"]["backend"] = "ready"
BY DEF After, Servers, Service

\* The API key may be created; a server command goes on to its first server.
LEMMA SeedKeyStep ==
    ASSUME StackInv, NEW q \in Command, SeedKey(q) PROVE StackInv'
<1>1. /\ command[q].at = "key" /\ apiKeys' \subseteq apiKeys \cup {q}
      /\ UNCHANGED <<container, applied, recorded, migrationLock, rows, host>>
  BY DEF SeedKey
<1>2. StackRowsTrue' /\ StackGoesOn(q)
  BY <1>1 DEF StackInv, StackRowsTrue, StackGoesOn, host
<1>3. CASE command[q].kind = "seed"
  BY <1>2, <1>3, StackEnds DEF SeedKey
<1>4. CASE command[q].kind # "seed"
  <2>1. PICK kind \in Servers : kind = command[q].kind
    BY <1>1, <1>4, CommandTypes DEF CommandTrue, KindTrue
  <2>2. PICK place : place = After[kind].none
    OBVIOUS
  <2>3. /\ place \in {"ready"} \cup Service
        /\ place \in Service => kind \in {"start", "wasm"} \/ (kind = "bare" /\ place = "backend")
    BY <2>2, AfterPlaces DEF Service
  <2>4. StackAt(q, place)
    BY <1>4, <2>1, <2>2 DEF SeedKey, StackAt
  <2>5. PICK x \in StackWork :
           /\ command' = [command EXCEPT ![q] = x] /\ x.at = place
           /\ x.kind = kind /\ x.connected = command[q].connected
           /\ x.held = command[q].held /\ x.outcome = command[q].outcome
    BY <2>1, <2>3, <2>4, CommandPlaced DEF StackPlaces
  <2>6. MigrationTrue(q, x)'
    BY <1>1, <2>3, <2>5, CommandTypes DEF CommandTrue, MigrationTrue, Migrating, Seeded, Service
  <2>7. KindTrue(x)'
    BY <2>3, <2>5 DEF KindTrue, Serves, Migrating, Service
  <2>8. ChildrenTrue(q, x)'
    BY <1>1, <2>3, <2>5, CommandTypes DEF CommandTrue, ChildrenTrue, host, Service
  <2> QED BY <1>2, <2>5, <2>6, <2>7, <2>8, StackMoves DEF CommandTrue
<1> QED BY <1>3, <1>4

-----------------------------------------------------------------------------
\* A server is spawned: its command waits for it.
LEMMA SpawnStep ==
    ASSUME StackInv, NEW q \in Command, NEW s \in Service, Spawn(q, s) PROVE StackInv'
<1>1. /\ command[q].at = s /\ child' = child \cup {<<q, s>>}
      /\ command' = [command EXCEPT ![q].at = "wait", ![q].last = s]
      /\ UNCHANGED <<database, runtime, stackScene>>
  BY DEF Spawn
<1>2. PICK x : x = [command[q] EXCEPT !.at = "wait", !.last = s]
  OBVIOUS
<1>3. command' = [command EXCEPT ![q] = x]
  BY <1>1, <1>2
<1>4. /\ x \in StackWork /\ x.at = "wait" /\ x.last = s /\ x.kind = command[q].kind
      /\ x.held = command[q].held /\ x.outcome = command[q].outcome
      /\ x.connected = command[q].connected
  BY <1>2, CommandTypes DEF StackWork, StackPlaces
<1>5. StackRowsTrue' /\ StackGoesOn(q)
  BY <1>1 DEF StackInv, StackRowsTrue, StackGoesOn, database
<1>6. MigrationTrue(q, x)'
  BY <1>1, <1>4, CommandTypes DEF CommandTrue, MigrationTrue, Migrating, Seeded, Service, database
<1>7. KindTrue(x)'
  BY <1>1, <1>4, CommandTypes DEF CommandTrue, KindTrue, Serves, Migrating, Service
<1>8. ChildrenTrue(q, x)'
  <2>1. /\ command[q].outcome = "none"
        /\ \A r \in Service : <<q, r>> \in child => r \in command[q].held
    BY <1>1, CommandTypes DEF CommandTrue, ChildrenTrue, Service
  <2> QED BY <1>1, <1>4, <2>1 DEF ChildrenTrue
<1> QED BY <1>3, <1>4, <1>5, <1>6, <1>7, <1>8, StackMoves DEF CommandTrue

\* A server that answers is kept, and the next is started.
LEMMA ServiceUpStep ==
    ASSUME StackInv, NEW q \in Command, ServiceUp(q) PROVE StackInv'
<1>1. /\ command[q].at = "wait"
      /\ command' = [command EXCEPT ![q].held = Kept(q),
                                    ![q].at = After[command[q].kind][command[q].last]]
      /\ UNCHANGED <<database, host>>
  BY DEF ServiceUp
<1>2. Serves(command[q], command[q].last) /\ command[q].outcome = "none"
  BY <1>1, CommandTypes DEF CommandTrue, KindTrue, ChildrenTrue
<1>3. PICK place : place = After[command[q].kind][command[q].last]
  OBVIOUS
<1>4. /\ place \in {"file", "ready"} \cup Service
      /\ place \in Service => command[q].kind \in {"start", "wasm"}
  BY <1>2, <1>3, AfterPlaces DEF Serves, Service
<1>5. PICK x : x = [command[q] EXCEPT !.held = Kept(q), !.at = place]
  OBVIOUS
<1>6. command' = [command EXCEPT ![q] = x]
  BY <1>1, <1>3, <1>5
<1>7. Kept(q) = command[q].held \cup {command[q].last} /\ Kept(q) \subseteq Service
  BY <1>2, CommandTypes DEF Kept, Serves
<1>8. /\ x \in StackWork /\ x.at = place /\ x.kind = command[q].kind
      /\ x.held = command[q].held \cup {command[q].last} /\ x.outcome = "none"
      /\ x.connected = command[q].connected
  BY <1>2, <1>4, <1>5, <1>7, CommandTypes DEF StackWork, StackPlaces
<1>9. MigrationTrue(q, x)
  BY <1>1, <1>4, <1>8, CommandTypes DEF CommandTrue, MigrationTrue, Migrating, Seeded, Service
<1>10. KindTrue(x)
  BY <1>4, <1>8 DEF KindTrue, Serves, Migrating, Service
<1>11. ChildrenTrue(q, x)
  BY <1>1, <1>4, <1>8, CommandTypes DEF CommandTrue, ChildrenTrue, Service
<1> QED BY <1>1, <1>6, <1>8, <1>9, <1>10, <1>11, StackReads DEF CommandTrue

\* The runtime file is written.
LEMMA WriteRuntimeStep ==
    ASSUME StackInv, NEW q \in Command, WriteRuntimeState(q) PROVE StackInv'
<1>1. /\ command[q].at = "file" /\ runtime' = q /\ StackAt(q, "ready")
      /\ UNCHANGED <<database, child, stackScene>>
  BY DEF WriteRuntimeState
<1>2. PICK x \in StackWork :
         /\ command' = [command EXCEPT ![q] = x] /\ x.at = "ready"
         /\ x.connected = command[q].connected
         /\ x.held = command[q].held /\ x.outcome = command[q].outcome
  BY <1>1, CommandPlaced DEF StackPlaces
<1>3. StackRowsTrue' /\ StackGoesOn(q)
  BY <1>1 DEF StackInv, StackRowsTrue, StackGoesOn, database
<1>4. MigrationTrue(q, x)'
  BY <1>1, <1>2, CommandTypes
     DEF CommandTrue, MigrationTrue, Migrating, Seeded, Service, database
<1>5. KindTrue(x)'
  BY <1>2 DEF KindTrue, Migrating, Service
<1>6. ChildrenTrue(q, x)'
  BY <1>1, <1>2, CommandTypes DEF CommandTrue, ChildrenTrue, database
<1> QED BY <1>2, <1>3, <1>4, <1>5, <1>6, StackMoves DEF CommandTrue

-----------------------------------------------------------------------------
\* Ctrl-C on a stack that is ready: its processes, the container, and then the files.
LEMMA ShutdownStep ==
    ASSUME StackInv, NEW q \in Command, Shutdown(q) PROVE StackInv'
<1>1. /\ command[q].at = "ready" /\ child' = child \ ({q} \X command[q].held)
      /\ UNCHANGED <<runtime, stackScene>>
  BY DEF Shutdown
<1>2. /\ command[q].outcome = "none"
      /\ \A s \in Service : <<q, s>> \in child => s \in command[q].held
  BY <1>1, CommandTypes DEF CommandTrue, ChildrenTrue
<1>3. child' \subseteq child /\ \A s \in Service : <<q, s>> \notin child'
  BY <1>1, <1>2
<1>4. CASE q \in container
  <2>1. PICK x : x = [command[q] EXCEPT !.at = "clear", !.connected = FALSE, !.held = {}]
    OBVIOUS
  <2>2. Gone(q, x)
    BY <1>4, <2>1 DEF Shutdown
  <2>3. /\ x \in StackWork /\ x.at = "clear" /\ ~x.connected /\ x.held = {}
        /\ x.outcome = "none"
    BY <1>2, <2>1, CommandTypes DEF StackWork, StackPlaces
  <2>4. KindTrue(x) /\ MigrationTrue(q, x)'
    BY <2>3 DEF KindTrue, MigrationTrue, Migrating, Service
  <2>5. ChildrenTrue(q, x)'
    BY <1>3, <2>2, <2>3 DEF ChildrenTrue, Gone
  <2> QED BY <1>1, <1>3, <2>2, <2>3, <2>4, <2>5, StackGone
<1>5. CASE q \notin container
  <2>1. PICK x : x = [command[q] EXCEPT !.at = "clear", !.held = {}]
    OBVIOUS
  <2>2. command' = [command EXCEPT ![q] = x] /\ UNCHANGED database
    BY <1>5, <2>1 DEF Shutdown
  <2>3. x \in StackWork /\ x.at = "clear" /\ x.held = {} /\ x.outcome = "none"
    BY <1>2, <2>1, CommandTypes DEF StackWork, StackPlaces
  <2>4. MigrationTrue(q, x)' /\ KindTrue(x)'
    BY <2>3 DEF MigrationTrue, KindTrue, Migrating, Seeded, Service
  <2>5. ChildrenTrue(q, x)'
    BY <1>3, <1>5, <2>2, <2>3 DEF ChildrenTrue, database
  <2>6. StackRowsTrue' /\ StackGoesOn(q)
    BY <1>1, <1>3, <2>2 DEF StackInv, StackRowsTrue, StackGoesOn, database
  <2> QED BY <2>2, <2>3, <2>4, <2>5, <2>6, StackMoves DEF CommandTrue
<1> QED BY <1>4, <1>5

\* The stack has stopped: it has neither a process nor the container.
LEMMA RemoveFilesStep ==
    ASSUME StackInv, NEW q \in Command, RemoveFiles(q) PROVE StackInv'
<1>1. /\ command[q].at = "clear" /\ runtime' = NoCommand
      /\ command' = [command EXCEPT ![q] = Ended(q, "stopped")]
      /\ UNCHANGED <<database, child, stackScene>>
  BY DEF RemoveFiles
<1>2. PICK x \in StackWork : /\ x = Ended(q, "stopped") /\ x.at = "done" /\ ~x.connected
                             /\ x.outcome = "stopped"
  BY CommandPlaced
<1>3. q \notin container /\ \A s \in Service : <<q, s>> \notin child
  BY <1>1, CommandTypes DEF CommandTrue, ChildrenTrue
<1>4. MigrationTrue(q, x)' /\ KindTrue(x)'
  BY <1>2 DEF MigrationTrue, KindTrue, Migrating, Service
<1>5. ChildrenTrue(q, x)'
  BY <1>1, <1>2, <1>3 DEF ChildrenTrue, database
<1>6. StackRowsTrue' /\ StackGoesOn(q)
  BY <1>1 DEF StackInv, StackRowsTrue, StackGoesOn, database
<1>7. command' = [command EXCEPT ![q] = x]
  BY <1>1, <1>2
<1> QED BY <1>4, <1>5, <1>6, <1>7, StackMoves DEF CommandTrue

\* A command fails, with the database if it started it, or is killed.
LEMMA FailStep ==
    ASSUME StackInv, NEW q \in Command, FailCommand(q) \/ KillCommand(q) PROVE StackInv'
<1>1. CASE KillCommand(q)
  <2>1. /\ command' = [command EXCEPT ![q] = Ended(q, "killed")]
        /\ migrationLock' = Unlocked(q)
        /\ UNCHANGED <<container, applied, recorded, rows, apiKeys, host>>
    BY <1>1 DEF KillCommand
  <2> QED BY <2>1, StackUnlocks, StackEnds
<1>2. CASE FailCommand(q) /\ q \notin container
  <2>1. /\ command' = [command EXCEPT ![q] = Ended(q, "failed")]
        /\ migrationLock' = Unlocked(q)
        /\ UNCHANGED <<container, applied, recorded, rows, apiKeys, host>>
    BY <1>2 DEF FailCommand
  <2> QED BY <2>1, StackUnlocks, StackEnds
<1>3. CASE FailCommand(q) /\ q \in container
  <2>1. Gone(q, Ended(q, "failed")) /\ UNCHANGED host
    BY <1>3 DEF FailCommand
  <2>2. PICK x \in StackWork : /\ x = Ended(q, "failed") /\ x.at = "done" /\ ~x.connected
                               /\ x.outcome = "failed"
    BY CommandPlaced
  <2>3. MigrationTrue(q, x)' /\ KindTrue(x) /\ ChildrenTrue(q, x)'
    BY <2>2 DEF MigrationTrue, KindTrue, ChildrenTrue, Migrating, Service
  <2>4. Gone(q, x)
    BY <2>1, <2>2
  <2> QED BY <2>1, <2>2, <2>3, <2>4, StackGone DEF host
<1> QED BY <1>1, <1>2, <1>3

\* The commands that stop what others started.
LEMMA StopStackStep ==
    ASSUME StackInv, NEW q \in Command, StopProcesses(q) \/ StopNothing(q) PROVE StackInv'
<1>1. PICK kind \in {"stop", "wasm_stop"}, place \in {"remove", "clear"} :
         /\ Begin(q, kind, place) /\ child' \subseteq child
         /\ UNCHANGED <<database, runtime, stackScene>>
  BY DEF StopProcesses, KilledByName, StopNothing, host
<1>2. StackRowsTrue' /\ StackGoesOn(q)
  BY <1>1 DEF StackInv, StackRowsTrue, StackGoesOn, database
<1>3. PICK x \in StackWork :
         /\ command' = [command EXCEPT ![q] = x] /\ x.at = place
         /\ MigrationTrue(q, x)' /\ KindTrue(x)' /\ (child' \subseteq child => ChildrenTrue(q, x)')
  BY <1>1, StackBegins DEF database
<1>4. CommandTrue(q, x)'
  BY <1>1, <1>3 DEF CommandTrue
<1> QED BY <1>2, <1>3, <1>4, StackMoves

\* The container is removed by its name.
LEMMA RemoveContainerStep ==
    ASSUME StackInv, NEW q \in Command, RemoveContainer(q) PROVE StackInv'
<1>1. /\ command[q].at = "remove" /\ Gone(q, [command[q] EXCEPT !.at = "clear"])
      /\ UNCHANGED host
  BY DEF RemoveContainer
<1>2. PICK x : x = [command[q] EXCEPT !.at = "clear"]
  OBVIOUS
<1>3. /\ x \in StackWork /\ x.at = "clear" /\ x.held = command[q].held
      /\ x.outcome = command[q].outcome
  BY <1>2, CommandTypes DEF StackWork, StackPlaces
<1>4. KindTrue(x) /\ MigrationTrue(q, x)'
  BY <1>3 DEF KindTrue, MigrationTrue, Migrating, Seeded, Service
<1>5. ChildrenTrue(q, x)'
  BY <1>1, <1>3, CommandTypes DEF CommandTrue, ChildrenTrue, Gone, host
<1> QED BY <1>1, <1>2, <1>3, <1>4, <1>5, StackGone DEF host

\* The tests read the runtime file.
LEMMA RunE2eStep ==
    ASSUME StackInv, NEW q \in Command, RunE2e(q) PROVE StackInv'
<1>1. UNCHANGED <<database, host>>
  BY DEF RunE2e
<1>2. PICK outcome \in {"failed", "complete"} :
         command' = [command EXCEPT ![q] = [Ended(q, outcome) EXCEPT !.kind = "e2e"]]
  BY DEF RunE2e
<1>3. PICK x : x = [Ended(q, outcome) EXCEPT !.kind = "e2e"]
  OBVIOUS
<1>4. x \in StackWork /\ x.at = "done" /\ ~x.connected /\ x.outcome = outcome
  BY <1>3, CommandPlaced DEF StackWork
<1>5. CommandTrue(q, x)
  BY <1>4 DEF CommandTrue, MigrationTrue, KindTrue, ChildrenTrue, Migrating, Service
<1> QED BY <1>1, <1>2, <1>3, <1>4, <1>5, StackReads

-----------------------------------------------------------------------------
\* Every step keeps the invariant.
LEMMA StackStepKeeps == StackInv /\ [StackNext]_stackVars => StackInv'
<1> SUFFICES ASSUME StackInv, [StackNext]_stackVars PROVE StackInv'
  OBVIOUS
<1>1. CASE UNCHANGED stackVars
  BY <1>1 DEF stackVars, StackInv, StackRowsTrue, CommandTrue, MigrationTrue, KindTrue,
              ChildrenTrue, IsNext, Serves
<1>2. ASSUME NEW q \in Command,
             \/ StartBackend(q) \/ StartFrontendDev(q) \/ StartFrontendWasmtime(q)
             \/ StartBackendWasmtime(q) \/ StartBare(q) \/ StartProxy(q)
      PROVE  StackInv'
  <2>1. \E s \in Service : Spawn(q, s)
    BY <1>2 DEF StartBackend, StartFrontendDev, StartFrontendWasmtime, StartBackendWasmtime,
                StartBare, StartProxy, Service
  <2> QED BY <2>1, SpawnStep
<1>3. CASE StackNext
  BY <1>2, <1>3, StartStackStep, AcquireStep, CheckFileStep, ApplyStep, CommitStep, FinishStep,
     FindRowStep, InsertRowStep, SeedKeyStep, ServiceUpStep, WriteRuntimeStep, ShutdownStep,
     RemoveFilesStep, FailStep, StopStackStep, RemoveContainerStep, RunE2eStep DEF StackNext
<1> QED BY <1>1, <1>3

\* The invariant holds before the first command.
LEMMA StackStart == StackInit => StackInv
<1> SUFFICES ASSUME StackInit PROVE StackInv
  OBVIOUS
<1>1. StackRowsTrue
  BY DEF StackInit, StackRowsTrue
<1>2. IdleCommand \in StackWork
  BY DEF IdleCommand, StackWork, StackPlaces
<1>3. ASSUME NEW q \in Command PROVE CommandTrue(q, IdleCommand)
  BY StackAssumption
     DEF StackInit, IdleCommand, CommandTrue, MigrationTrue, KindTrue, ChildrenTrue, Migrating,
         Service
<1> QED BY <1>1, <1>2, <1>3 DEF StackInit, StackInv

\* The invariant of the commands.
THEOREM StackInvariance == StackSpec => []StackInv
BY StackStart, StackStepKeeps, PTL DEF StackSpec

\* However many commands migrate, seed, start, stop and fail beside each other on one
\* database, whatever the migrations are: a script is committed once exactly when it is
\* recorded and never before an earlier one, a stack that is ready and connected has all of
\* them and the whole seed, and one that Ctrl-C stopped has no process and no container.
THEOREM StacksHold == StackSpec => []StacksSound
<1>1. StackInv => MigrationsRecorded
  BY DEF StackInv, StackRowsTrue, MigrationsRecorded, CommandTrue, ChildrenTrue
<1>2. StackInv => StacksWhole
  BY DEF StackInv, StacksWhole, CommandTrue, MigrationTrue, ChildrenTrue, Seeded
<1>3. StackInv => StacksSound
  BY <1>1, <1>2 DEF StacksSound
<1> QED BY <1>3, StackInvariance, PTL

\* Where commands are finitely many, a script is committed at most as often as there are
\* commands.
THEOREM StackTyped == ASSUME IsFiniteSet(Command) PROVE StackSpec => []StackTypeOK
<1>1. StackInv => StackTypeOK
  <2> SUFFICES ASSUME StackInv PROVE StackTypeOK
    OBVIOUS
  <2>1. Cardinality(Command) \in Nat /\ (recorded # {} => Cardinality(Command) # 0)
    BY FS_CardinalityType, FS_EmptySet DEF StackInv, StackRowsTrue
  <2>2. applied \in [File -> 0 .. Cardinality(Command)]
    BY <2>1 DEF StackInv, StackRowsTrue
  <2> QED BY <2>2 DEF StackInv, StackRowsTrue, StackTypeOK
<1> QED BY <1>1, StackInvariance, PTL

-----------------------------------------------------------------------------
(* The components together.                                                *)

\* The platform starts as each component starts, and every step of it is one of the
\* component in focus and leaves the others as they are.
LEMMA PlatformRefine ==
    /\ Init => /\ ClientInit /\ TokenInit /\ RealmInit /\ SamlInit /\ DirInit /\ StackInit
    /\ [Next]_platformVars =>
          /\ [ClientNext]_clientVars /\ [TokenNext]_tokenVars /\ [RealmNext]_realmVars
          /\ [SamlNext]_samlVars /\ [DirNext]_dirVars /\ [StackNext]_stackVars
<1>1. Init => /\ ClientInit /\ TokenInit /\ RealmInit /\ SamlInit /\ DirInit /\ StackInit
  BY DEF Init
<1>2. ASSUME [Next]_platformVars
      PROVE  /\ [ClientNext]_clientVars /\ [TokenNext]_tokenVars /\ [RealmNext]_realmVars
             /\ [SamlNext]_samlVars /\ [DirNext]_dirVars /\ [StackNext]_stackVars
  <2>1. CASE UNCHANGED platformVars
    BY <2>1 DEF platformVars
  <2>2. CASE Next
    <3>1. /\ focus # "client" => UNCHANGED clientVars
          /\ focus # "token" => UNCHANGED tokenVars
          /\ focus # "realm" => UNCHANGED realmVars
          /\ focus # "saml" => UNCHANGED samlVars
          /\ focus # "directory" => UNCHANGED dirVars
          /\ focus # "stack" => UNCHANGED stackVars
      BY <2>2 DEF Next, Keep, Components
    <3>2. /\ focus = "client" => ClientSteps
          /\ focus = "token" => TokenSteps
          /\ focus = "realm" => RealmSteps
          /\ focus = "saml" => SamlSteps
          /\ focus = "directory" => DirectorySteps
          /\ focus = "stack" => StackSteps
      BY <2>2 DEF Next
    <3> QED
      BY <3>1, <3>2 DEF ClientSteps, TokenSteps, RealmSteps, SamlSteps, DirectorySteps, StackSteps
  <2> QED BY <1>2, <2>1, <2>2
<1> QED BY <1>1, <1>2

\* A behaviour of the platform is one of each component.
THEOREM PlatformSpec ==
    Spec => ClientSpec /\ TokenSpec /\ RealmSpec /\ SamlSpec /\ DirSpec /\ StackSpec
BY PlatformRefine, PTL
   DEF Spec, ClientSpec, TokenSpec, RealmSpec, SamlSpec, DirSpec, StackSpec

\* Where the components are together, the secrets of realms stay readable and the metadata
\* of a realm shows one key.
THEOREM RealmsKeepKeys == Spec => []RealmKeysKept
<1>1. SecretsReadable /\ OneRealmKey => RealmKeysKept
  BY DEF RealmKeysKept
<1> QED BY <1>1, PlatformSpec, SecretsStayReadable, OneKeyShown, PTL

\* The other promises of the components hold where they are together.
THEOREM PlatformKeepsPromises ==
    Spec => /\ []PoliciesHeldAtWrites /\ []SpentTokensStaySpent
            /\ []AnsweredClientsAuthenticated /\ []SamlUsedOnce /\ []LocalAccountsKept
            /\ []StacksSound
BY PlatformSpec, PoliciesHeld, SpentStaysSpent, AnsweredWereServed, SamlNotReplayed,
   ImportsTakeNoAccount, StacksHold, PTL

\* Where commands and SAML requests are finitely many, every table holds rows it may hold
\* and every request is at a place its handler has, whatever component is in focus.
THEOREM PlatformTypes ==
    ASSUME IsFiniteSet(Command), IsFiniteSet(SamlCall)
    PROVE  Spec => []PlatformTypesOK
<1>1. /\ ClientInv => ClientTypeOK
      /\ TokenInv => TokenTypeOK
      /\ RealmInv => RealmTypeOK
      /\ DirInv => DirTypeOK
  BY RealmConsequences DEF ClientInv, TokenInv, DirInv, DirRowsTrue, DirTypeOK
<1>2. ClientTypeOK /\ TokenTypeOK /\ RealmTypeOK /\ SamlTypeOK /\ DirTypeOK /\ StackTypeOK
      => PlatformTypesOK
  BY DEF PlatformTypesOK
<1>3. SamlSpec => []SamlTypeOK
  BY SamlTyped, PTL
<1>4. StackSpec => []StackTypeOK
  BY StackTyped
<1> QED
  BY <1>1, <1>2, <1>3, <1>4, PlatformSpec, ClientInvariance, TokenInvariance, RealmInvariance,
     DirInvariance, PTL
=============================================================================
