----------------------------- MODULE DeviceGrant ------------------------------
(***************************************************************************)
(* The device authorization grant: a device asks for a pair of codes, a    *)
(* user who is signed in confirms the user code, and the device polls the  *)
(* token endpoint with the device code.                                    *)
(*                                                                         *)
(* A poll (DeviceCodeFlow::execute) is a transaction that reads the code   *)
(* without a lock and marks it used by its id; a confirmation commits its  *)
(* one UPDATE.                                                             *)
(***************************************************************************)
EXTENDS Naturals, FiniteSets

CONSTANTS
    Device,         \* rows of device_codes
    DeviceClient,   \* clients
    SelfNamed,      \* clients whose client_id is the text of their row's id
    DeviceUser,     \* users
    Poll,           \* requests to the token endpoint
    Confirm,        \* submissions of the confirmation page
    NoDevice        \* nobody, nothing

ASSUME DeviceAssumption ==
    /\ SelfNamed \subseteq DeviceClient
    /\ NoDevice \notin Device \cup DeviceClient \cup DeviceUser \cup Poll

VARIABLES
    device,     \* [Device -> row]
    owner,      \* [Device -> the poll whose transaction has updated the row]
    poll,       \* [Poll -> request]
    confirm,    \* [Confirm -> request]
    exchanged,  \* ghost: [Device -> how many polls were answered tokens]
    atStart,    \* ghost: [Poll -> exchanged of its device when it came]
    told        \* ghost: [Device -> users who were answered that they authorized it]

deviceGhosts == <<exchanged, atStart, told>>
deviceVars == <<device, owner, poll, confirm, deviceGhosts>>

DeviceRow == [status : {"unborn", "live", "expired"}, client : DeviceClient \cup {NoDevice},
              used : BOOLEAN, authorized : BOOLEAN, user : DeviceUser \cup {NoDevice}]
PollJob == [at : {"new", "mark", "issue", "done"}, device : Device \cup {NoDevice},
            user : DeviceUser \cup {NoDevice}, answer : {"none", "error", "tokens"}]
ConfirmJob == [at : {"new", "update", "done"}, device : Device \cup {NoDevice},
               user : DeviceUser \cup {NoDevice}]

DeviceTypeOK ==
    /\ device \in [Device -> DeviceRow]
    /\ owner \in [Device -> Poll \cup {NoDevice}]
    /\ poll \in [Poll -> PollJob]
    /\ confirm \in [Confirm -> ConfirmJob]
    /\ exchanged \in [Device -> Nat] /\ atStart \in [Poll -> Nat]
    /\ told \in [Device -> SUBSET DeviceUser]

-----------------------------------------------------------------------------
PollEnds(p, answer) == poll' = [poll EXCEPT ![p].at = "done", ![p].answer = answer]

\* device_authorization_handler: the client has been authenticated and its scopes resolved.
AuthorizeDevice(d) ==
    /\ device[d].status = "unborn"
    /\ \E c \in DeviceClient :
          device' = [device EXCEPT ![d] = [status |-> "live", client |-> c, used |-> FALSE,
                                           authorized |-> FALSE, user |-> NoDevice]]
    /\ UNCHANGED <<owner, poll, confirm, deviceGhosts>>

\* Confirmation: the session of the cookie names the user, revoked or not, and the code
\* is found by its user code, used or not.
FindUserCode(q) ==
    /\ confirm[q].at = "new"
    /\ \E d \in Device, u \in DeviceUser :
          /\ device[d].status = "live"
          /\ confirm' = [confirm EXCEPT ![q] = [at |-> "update", device |-> d, user |-> u]]
    /\ UNCHANGED <<device, owner, poll, deviceGhosts>>

\* mark_authorized: a used code keeps its user, and the answer is the same.
MarkAuthorized(q) ==
    LET d == confirm[q].device IN
    /\ confirm[q].at = "update"
    /\ owner[d] = NoDevice
    /\ device' = IF device[d].used THEN device
                 ELSE [device EXCEPT ![d].authorized = TRUE, ![d].user = confirm[q].user]
    /\ confirm' = [confirm EXCEPT ![q].at = "done"]
    /\ told' = [told EXCEPT ![d] = @ \cup {confirm[q].user}]
    /\ UNCHANGED <<owner, poll, exchanged, atStart>>

\* Mutant: find_by_device_code without NOT used, and no check of used.
FoundUsed(d) == device[d].status = "live"

\* find_by_device_code: not used, not expired.
FoundUnused(d) == device[d].status = "live" /\ ~device[d].used

\* The row's client is compared with the client_id of the request, an id with a name.
ClientMatches(d) == device[d].client \in SelfNamed

ReadDevice(p) ==
    /\ poll[p].at = "new"
    /\ \E d \in Device :
          /\ poll' = [poll EXCEPT ![p] =
                        IF FoundUnused(d) /\ ClientMatches(d) /\ device[d].authorized
                        THEN [at |-> "mark", device |-> d, user |-> device[d].user,
                              answer |-> "none"]
                        ELSE [at |-> "done", device |-> d, user |-> NoDevice,
                              answer |-> "error"]]
          /\ atStart' = [atStart EXCEPT ![p] = exchanged[d]]
    /\ UNCHANGED <<device, owner, confirm, exchanged, told>>

\* mark_used, by id alone, waits for another poll that has updated the row.
MarkDevice(p) ==
    LET d == poll[p].device IN
    /\ poll[p].at = "mark"
    /\ owner[d] = NoDevice
    /\ owner' = [owner EXCEPT ![d] = p]
    /\ poll' = [poll EXCEPT ![p].at = "issue"]
    /\ UNCHANGED <<device, confirm, deviceGhosts>>

\* Tokens for the user the poll has read, their session, COMMIT.
IssueToDevice(p) ==
    LET d == poll[p].device IN
    /\ poll[p].at = "issue"
    /\ device' = [device EXCEPT ![d].used = TRUE]
    /\ owner' = [owner EXCEPT ![d] = NoDevice]
    /\ PollEnds(p, "tokens")
    /\ exchanged' = [exchanged EXCEPT ![d] = @ + 1]
    /\ UNCHANGED <<confirm, atStart, told>>

\* The user or the client is gone, or a statement fails: ROLLBACK.
RejectPoll(p) ==
    /\ poll[p].at \in {"mark", "issue"}
    /\ owner' = [d \in Device |-> IF owner[d] = p THEN NoDevice ELSE owner[d]]
    /\ PollEnds(p, "error")
    /\ UNCHANGED <<device, confirm, deviceGhosts>>

ExpireDevice(d) ==
    /\ device[d].status = "live"
    /\ device' = [device EXCEPT ![d].status = "expired"]
    /\ UNCHANGED <<owner, poll, confirm, deviceGhosts>>

-----------------------------------------------------------------------------
DeviceInit ==
    /\ device = [d \in Device |-> [status |-> "unborn", client |-> NoDevice, used |-> FALSE,
                                   authorized |-> FALSE, user |-> NoDevice]]
    /\ owner = [d \in Device |-> NoDevice]
    /\ poll = [p \in Poll |-> [at |-> "new", device |-> NoDevice, user |-> NoDevice,
                               answer |-> "none"]]
    /\ confirm = [q \in Confirm |-> [at |-> "new", device |-> NoDevice, user |-> NoDevice]]
    /\ exchanged = [d \in Device |-> 0] /\ atStart = [p \in Poll |-> 0]
    /\ told = [d \in Device |-> {}]

DeviceNext ==
    \/ \E d \in Device : AuthorizeDevice(d) \/ ExpireDevice(d)
    \/ \E q \in Confirm : FindUserCode(q) \/ MarkAuthorized(q)
    \/ \E p \in Poll : ReadDevice(p) \/ MarkDevice(p) \/ IssueToDevice(p) \/ RejectPoll(p)

DeviceSpec == DeviceInit /\ [][DeviceNext]_deviceVars

-----------------------------------------------------------------------------
(* Properties.                                                             *)

\* A poll that comes when an exchange of its device code has been answered gets no tokens,
\* and every exchange is for a user who was told of the authorization, although another
\* user may confirm the code meanwhile.  Polls that come before that, all at once, may all
\* get tokens: see OneSessionPerDevice.
ExchangedDeviceRefused ==
    \A p \in Poll :
        poll[p].answer = "tokens" =>
            atStart[p] = 0 /\ poll[p].user \in told[poll[p].device]

\* "access_denied if the device code was already used": one poll of a device code gets
\* tokens.  It does not hold: the code is read without a lock, and mark_used, which waits
\* for the other poll's transaction, tests the id alone.
OneSessionPerDevice == \A d \in Device : exchanged[d] <= 1
=============================================================================
