---------------------------- MODULE ClientRegistry ----------------------------
(***************************************************************************)
(* The clients of a realm and the policies that govern them.  A policy     *)
(* applies the requirements of a profile to every client registered or     *)
(* changed from its contexts.  A write of a client is a series of          *)
(* statements that each commit on their own: it reads the row, lists the   *)
(* profiles, lists the policies, decides, and writes the whole row back.   *)
(*                                                                         *)
(* A client is what policies look at: its grant types and scopes, here     *)
(* "features".  A profile is the set of features it allows; the other      *)
(* requirements a profile can state are tests of the row of the same kind. *)
(***************************************************************************)
EXTENDS Integers, FiniteSets

CONSTANTS
    Client,          \* rows of clients, of one realm
    Feature,         \* grant types and scopes
    Ciba,            \* the grant type of backchannel authentication
    Profile,         \* rows of client_policy_profiles
    Policy,          \* rows of client_policies; each names one profile
    ClientRequest,   \* requests of administrators; each is handled once
    NoClient,        \* nothing chosen yet
    ClientScenes     \* the kinds of requests that arrive together

ASSUME ClientAssumption ==
    /\ Ciba \in Feature
    /\ NoClient \notin Client \cup Profile \cup Policy
    /\ \A f \in SUBSET Feature : NoClient # f

VARIABLES
    client,        \* rows of clients
    assigned,      \* rows of client_scopes
    cibaConfig,    \* clients with a row of ciba_client_configs
    profile,       \* the features each profile allows
    policy,        \* rows of client_policies
    clientJob,     \* where each request is and what it has read
    held,          \* history: the rules in force ever since a request began
    clientScene    \* the kinds of requests of this behaviour

clientVars == <<client, assigned, cibaConfig, profile, policy, clientJob, held, clientScene>>

Writes == {"create", "register", "update", "ciba_on", "ciba_off", "assign"}
PolicyWrites == {"add_policy", "edit_policy", "drop_profile"}
Contexts == {"admin", "dynamic"}
ClientPlaces == {"new", "profiles", "policies", "write", "config", "store", "drop", "done"}

ClientRow == [status : {"unborn", "live", "deleted"}, enabled : BOOLEAN,
              features : SUBSET Feature]
PolicyRow == [status : {"unborn", "live", "deleted"}, enabled : BOOLEAN,
              contexts : SUBSET Contexts, profile : Profile \cup {NoClient}]
Rule == [policy : Policy, contexts : SUBSET Contexts, profile : Profile,
         allowed : {NoClient} \cup SUBSET Feature]
ClientWork == [kind : Writes \cup PolicyWrites \cup {NoClient}, at : ClientPlaces,
               client : Client \cup {NoClient}, draft : ClientRow,
               adds : SUBSET Feature, seen : [Profile -> {NoClient} \cup SUBSET Feature],
               policy : Policy \cup {NoClient}, row : PolicyRow,
               stored : {NoClient} \cup SUBSET Feature]

ClientTypeOK ==
    /\ client \in [Client -> ClientRow]
    /\ assigned \subseteq Client \X Feature /\ cibaConfig \subseteq Client
    /\ profile \in [Profile -> {NoClient} \cup SUBSET Feature]
    /\ policy \in [Policy -> PolicyRow]
    /\ clientJob \in [ClientRequest -> ClientWork]
    /\ held \in [ClientRequest -> SUBSET Rule]
    /\ clientScene \in ClientScenes

-----------------------------------------------------------------------------
UnbornClient == [status |-> "unborn", enabled |-> FALSE, features |-> {}]
UnbornPolicy == [status |-> "unborn", enabled |-> FALSE, contexts |-> {}, profile |-> NoClient]
IdleClientJob == [kind |-> NoClient, at |-> "new", client |-> NoClient, draft |-> UnbornClient,
                  adds |-> {}, seen |-> [f \in Profile |-> NoClient], policy |-> NoClient,
                  row |-> UnbornPolicy, stored |-> NoClient]

\* The rules the enabled policies state; a missing profile allows nothing.
RulesOf(policies, profiles) ==
    {[policy |-> p, contexts |-> policies[p].contexts, profile |-> policies[p].profile,
      allowed |-> profiles[policies[p].profile]] :
        p \in {x \in Policy : policies[x].status = "live" /\ policies[x].enabled}}

Obeys(features, rule) == rule.allowed # NoClient /\ features \subseteq rule.allowed

Context(q) == IF clientJob[q].kind = "register" THEN "dynamic" ELSE "admin"

Enforced(rules, context, features) ==
    \A r \in rules : context \in r.contexts => Obeys(features, r)

\* The row as the policies are shown it: an assignment adds the scope to a copy.
CandidateAsStored(q) == clientJob[q].draft.features
Candidate(q) == clientJob[q].draft.features \cup clientJob[q].adds

GoTo(q, place) == clientJob' = [clientJob EXCEPT ![q].at = place]
Clients == <<client, assigned, cibaConfig>>
Policies == <<profile, policy>>

StartWrite(q, kind, c, draft, adds) ==
    /\ clientJob[q].at = "new" /\ kind \in clientScene
    /\ clientJob' = [clientJob EXCEPT ![q].kind = kind, ![q].client = c, ![q].draft = draft,
                                      ![q].adds = adds, ![q].at = "profiles"]
    /\ UNCHANGED <<Clients, Policies, clientScene>>

\* The identifier is free and the row is in memory.
Unclaimed(c) ==
    client[c].status = "unborn" /\ \A other \in ClientRequest : clientJob[other].client # c
NewClient(f, e) == [status |-> "live", enabled |-> e, features |-> f]

\* clients::create.
DraftClient(q) ==
    \E c \in Client, f \in (SUBSET Feature) \ {{}}, e \in BOOLEAN :
        Unclaimed(c) /\ StartWrite(q, "create", c, NewClient(f, e), {})

\* register_handler: a registered client is enabled.
RegisterClient(q) ==
    \E c \in Client, f \in (SUBSET Feature) \ {{}} :
        Unclaimed(c) /\ StartWrite(q, "register", c, NewClient(f, TRUE), {})

\* clients::update reads the row and changes a copy of it.
EditClient(q) ==
    \E c \in Client, f \in SUBSET Feature, e \in BOOLEAN :
        /\ client[c].status = "live"
        /\ StartWrite(q, "update", c, [client[c] EXCEPT !.features = f, !.enabled = e], {})

\* update_ciba does so for one grant type.
SwitchCiba(q) ==
    \E c \in Client, on \in BOOLEAN :
        /\ client[c].status = "live"
        /\ StartWrite(q, IF on THEN "ciba_on" ELSE "ciba_off", c,
                [client[c] EXCEPT !.features = IF on THEN @ \cup {Ciba} ELSE @ \ {Ciba}], {})

\* assign_client_scope shows the policies a copy with the scope.
GiveScope(q) ==
    \E c \in Client, s \in Feature \ {Ciba} :
        client[c].status = "live" /\ StartWrite(q, "assign", c, client[c], {s})

\* enforce lists the profiles, then the policies: two statements.
ReadProfiles(q) ==
    /\ clientJob[q].at = "profiles"
    /\ clientJob' = [clientJob EXCEPT ![q].seen = profile, ![q].at = "policies"]
    /\ UNCHANGED <<Clients, Policies, clientScene>>

EnforcePolicies(q) ==
    /\ clientJob[q].at = "policies"
    /\ GoTo(q, IF Enforced(RulesOf(policy, clientJob[q].seen), Context(q), Candidate(q))
                THEN "write" ELSE "done")
    /\ UNCHANGED <<Clients, Policies, clientScene>>

\* ClientRepo::update writes every column of a row that is not deleted.
WriteClient(q) ==
    LET j == clientJob[q] IN
    /\ j.at = "write"
    /\ client' = IF j.kind \in {"create", "register"}
                      \/ (client[j.client].status = "live" /\ j.kind # "assign")
                 THEN [client EXCEPT ![j.client] = j.draft] ELSE client
    /\ assigned' = assigned \cup {<<j.client, s>> : s \in j.adds}
    /\ clientJob' = [clientJob EXCEPT ![q].stored = j.draft.features \cup j.adds,
            ![q].at = IF j.kind \in {"ciba_on", "ciba_off"} THEN "config" ELSE "done"]
    /\ UNCHANGED <<cibaConfig, Policies, clientScene>>

\* The row of ciba_client_configs is saved or deleted in a statement of its own.
WriteConfig(q) ==
    LET j == clientJob[q] IN
    /\ j.at = "config"
    /\ cibaConfig' = IF j.kind = "ciba_on" THEN cibaConfig \cup {j.client}
                     ELSE cibaConfig \ {j.client}
    /\ GoTo(q, "done")
    /\ UNCHANGED <<client, assigned, Policies, clientScene>>

DeleteClient(c) ==
    /\ "delete" \in clientScene /\ client[c].status = "live"
    /\ client' = [client EXCEPT ![c].status = "deleted"]
    /\ UNCHANGED <<assigned, cibaConfig, Policies, clientJob, clientScene>>

UnassignScope(c, s) ==
    /\ "unassign" \in clientScene /\ <<c, s>> \in assigned
    /\ assigned' = assigned \ {<<c, s>>}
    /\ UNCHANGED <<client, cibaConfig, Policies, clientJob, clientScene>>

-----------------------------------------------------------------------------
\* create_profile and update_profile store what the administrator sends.
SaveProfile(f, allowed) ==
    /\ "save_profile" \in clientScene /\ allowed # {} /\ allowed # profile[f]
    /\ profile' = [profile EXCEPT ![f] = allowed]
    /\ UNCHANGED <<Clients, policy, clientJob, clientScene>>

\* create_policy and update_policy look the profile up before they store the policy.
CheckProfile(q) ==
    /\ clientJob[q].at = "new"
    /\ \E kind \in {"add_policy", "edit_policy"} \cap clientScene, p \in Policy, f \in Profile,
          e \in BOOLEAN, ctx \in {{"admin"}, Contexts} :
          /\ policy[p].status = (IF kind = "add_policy" THEN "unborn" ELSE "live")
          /\ \A other \in ClientRequest : clientJob[other].policy # p
          /\ clientJob' = [clientJob EXCEPT ![q].kind = kind, ![q].policy = p,
                ![q].row = [status |-> "live", enabled |-> e, contexts |-> ctx, profile |-> f],
                ![q].at = IF profile[f] # NoClient THEN "store" ELSE "done"]
    /\ UNCHANGED <<Clients, Policies, clientScene>>

StorePolicy(q) ==
    LET j == clientJob[q] IN
    /\ j.at = "store"
    /\ policy' = IF j.kind = "add_policy" \/ policy[j.policy].status = "live"
                 THEN [policy EXCEPT ![j.policy] = j.row] ELSE policy
    /\ GoTo(q, "done")
    /\ UNCHANGED <<Clients, profile, clientScene>>

DeletePolicy(p) ==
    /\ "drop_policy" \in clientScene /\ policy[p].status = "live"
    /\ policy' = [policy EXCEPT ![p].status = "deleted"]
    /\ UNCHANGED <<Clients, profile, clientJob, clientScene>>

\* delete_profile counts the policies that name the profile, then deletes it.
InUse(f) == \E p \in Policy : policy[p].status = "live" /\ policy[p].profile = f

CountUses(q) ==
    /\ clientJob[q].at = "new" /\ "drop_profile" \in clientScene
    /\ \E f \in Profile :
          /\ profile[f] # NoClient
          /\ clientJob' = [clientJob EXCEPT ![q].kind = "drop_profile",
                ![q].row = [UnbornPolicy EXCEPT !.profile = f],
                ![q].at = IF InUse(f) THEN "done" ELSE "drop"]
    /\ UNCHANGED <<Clients, Policies, clientScene>>

DropProfile(q) ==
    /\ clientJob[q].at = "drop"
    /\ profile' = [profile EXCEPT ![clientJob[q].row.profile] = NoClient]
    /\ GoTo(q, "done")
    /\ UNCHANGED <<Clients, policy, clientScene>>

\* A statement fails or the handler is dropped: the next ones are never sent.
LoseClientRequest(q) ==
    /\ clientJob[q].at \notin {"new", "done"}
    /\ GoTo(q, "done")
    /\ UNCHANGED <<Clients, Policies, clientScene>>

-----------------------------------------------------------------------------
ClientInit ==
    /\ client \in [Client -> {UnbornClient} \cup
            [status : {"live"}, enabled : {TRUE}, features : (SUBSET Feature) \ {{}}]]
    /\ assigned = {} /\ cibaConfig = {c \in Client : Ciba \in client[c].features}
    /\ profile \in [Profile -> (SUBSET Feature) \ {{}}]
    /\ policy \in [Policy -> {UnbornPolicy} \cup [status : {"live"}, enabled : {TRUE},
                                   contexts : {{"admin"}, Contexts}, profile : Profile]]
    /\ clientJob = [q \in ClientRequest |-> IdleClientJob]
    /\ held = [q \in ClientRequest |-> {}]
    /\ clientScene \in ClientScenes

ClientStep ==
    \/ \E q \in ClientRequest :
          \/ DraftClient(q) \/ RegisterClient(q) \/ EditClient(q) \/ SwitchCiba(q)
          \/ GiveScope(q) \/ ReadProfiles(q) \/ EnforcePolicies(q)
          \/ WriteClient(q) \/ WriteConfig(q) \/ CheckProfile(q) \/ StorePolicy(q)
          \/ CountUses(q) \/ DropProfile(q) \/ LoseClientRequest(q)
    \/ \E c \in Client : DeleteClient(c) \/ \E s \in Feature : UnassignScope(c, s)
    \/ \E f \in Profile, allowed \in SUBSET Feature : SaveProfile(f, allowed)
    \/ \E p \in Policy : DeletePolicy(p)

\* A rule is held by a request when it is in force from its first step to its last.
Watch ==
    held' = [q \in ClientRequest |->
        IF clientJob'[q].at = "new" THEN {}
        ELSE IF clientJob[q].at = "new" THEN RulesOf(policy, profile)
        ELSE IF clientJob[q].at = "done" THEN held[q]
        ELSE held[q] \cap RulesOf(policy, profile)]

ClientNext == ClientStep /\ Watch

ClientSpec == ClientInit /\ [][ClientNext]_clientVars

-----------------------------------------------------------------------------
\* docs/client-policies.md: policies are enforced when a client is created, edited, given
\* a scope, registered, or has CIBA switched.  Lists of profiles and policies read at two
\* moments, profiles deleted or edited meanwhile and lost updates let no request store a
\* client that a rule in force from its beginning to its end forbids.
PoliciesHeldAtWrites ==
    \A q \in ClientRequest :
        clientJob[q].stored # NoClient => Enforced(held[q], Context(q), clientJob[q].stored)
=============================================================================
