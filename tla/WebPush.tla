------------------------------- MODULE WebPush -------------------------------
(* Push notifications of the review queue: the key pair of the installation,  *)
(* the devices that subscribed with it, and the notifications that go out     *)
(* when an automation puts a post on a team's review queue.                   *)
EXTENDS Naturals, FiniteSets

CONSTANTS People, Crews,         \* users and teams
          Devices,               \* browsers; a browser keeps its endpoint
          Ids,                   \* ids of subscription rows
          Pins,                  \* key pairs an operator puts in the environment
          NoKey, NoOne,
          MaxKeys, MaxPushOps

ASSUME PushAssumption == NoKey \notin Pins \cup Nat /\ Pins \cap Nat = {}

VARIABLES pinned,     \* the key in the environment of the process, or NoKey
          vapid,      \* the key in the database, or NoKey
          keyring,    \* the key of the running process, or NoKey
          made,       \* key pairs generated so far
          device,     \* device -> [key: it subscribed with, user: who last did]
          subs,       \* rows of push_subscriptions
          roles,      \* person -> crew -> "owner" | "viewer" | "none"
          muted,      \* <<person, crew>> with notifications switched off
          batch,      \* the notification being sent; moved: devices registered since it was listed
          pushOps, wrong

pushVars == <<pinned, vapid, keyring, made, device, subs, roles, muted, batch, pushOps, wrong>>

NoBatch == [crew |-> NoOne, targets |-> {}, moved |-> {}]

PushInit ==
  /\ pinned \in Pins \cup {NoKey} /\ vapid = NoKey /\ keyring = NoKey /\ made = 0
  /\ device = [d \in Devices |-> [key |-> NoKey, user |-> NoOne]]
  /\ subs = {} /\ muted = {} /\ pushOps = 0 /\ wrong = {}
  /\ roles \in [People -> [Crews -> {"owner", "viewer"}]]
  /\ batch = NoBatch

Op == pushOps < MaxPushOps /\ pushOps' = pushOps + 1

-----------------------------------------------------------------------------
(* The key.                                                                  *)

\* The pair in memory stays, one from the environment needs no database. The stored pair
\* needs a read; when that says there is none, a new one is used once it is stored.
KnownKey == keyring # NoKey /\ UNCHANGED <<vapid, keyring, made>>
PinnedKey == keyring = NoKey /\ pinned # NoKey /\ keyring' = pinned /\ UNCHANGED <<vapid, made>>
StoredKey == keyring = NoKey /\ pinned = NoKey /\ vapid # NoKey /\ keyring' = vapid /\ UNCHANGED <<vapid, made>>
FailedLoad == keyring = NoKey /\ pinned = NoKey /\ UNCHANGED <<vapid, keyring, made>>

GenerateVAPIDKeys(stores) ==
  /\ keyring = NoKey /\ pinned = NoKey /\ made < MaxKeys
  /\ made' = made + 1
  /\ IF stores THEN keyring' = made' /\ vapid' = made' ELSE UNCHANGED <<vapid, keyring>>

\* A plausible slip: any error of the read is taken for a missing pair.
EnsureKeysAnyError(loads, stores) ==
  \/ KnownKey \/ PinnedKey
  \/ loads /\ StoredKey
  \/ (~loads \/ vapid = NoKey) /\ GenerateVAPIDKeys(stores)

\* ensureKeys, under the sender's mutex; the read and the write may each fail.
ensureKeys(loads, stores) ==
  \/ KnownKey \/ PinnedKey
  \/ ~loads /\ FailedLoad
  \/ loads /\ StoredKey
  \/ loads /\ vapid = NoKey /\ GenerateVAPIDKeys(stores)

\* The browser asks for the key and subscribes with it at its push service.
handleGetMyVAPIDPublicKey(d) ==
  /\ Op
  /\ \E loads, stores \in BOOLEAN : ensureKeys(loads, stores)
  /\ device' = IF keyring' = NoKey THEN device ELSE [device EXCEPT ![d].key = keyring']
  /\ UNCHANGED <<pinned, subs, roles, muted, batch, wrong>>

\* The next process, which may have another environment.
Restart ==
  /\ Op /\ pinned' \in Pins \cup {NoKey} /\ keyring' = NoKey /\ batch' = NoBatch
  /\ UNCHANGED <<vapid, made, device, subs, roles, muted, wrong>>

-----------------------------------------------------------------------------
(* Subscriptions and preferences.                                            *)

RowsOf(d) == {r \in subs : r.device = d}

\* The endpoint is unique: a device that registers again keeps its row, now for this user.
CreatePushSubscription(u, d) ==
  LET id == IF RowsOf(d) # {} THEN (CHOOSE r \in RowsOf(d) : TRUE).id
            ELSE CHOOSE i \in Ids : \A r \in subs : r.id # i
  IN subs' = (subs \ RowsOf(d)) \cup {[id |-> id, device |-> d, user |-> u, on |-> TRUE]}

handleCreateMyPushSubscription(u, d) ==
  /\ Op /\ device[d].key # NoKey
  /\ CreatePushSubscription(u, d)
  /\ device' = [device EXCEPT ![d].user = u]
  /\ batch' = IF batch = NoBatch THEN batch ELSE [batch EXCEPT !.moved = @ \cup {d}]
  /\ UNCHANGED <<pinned, vapid, keyring, made, roles, muted, wrong>>

\* Only a row of the caller.
handleUpdateMyPushSubscription(u, r) ==
  /\ Op /\ r.user = u
  /\ subs' = (subs \ {r}) \cup {[r EXCEPT !.on = ~@]}
  /\ UNCHANGED <<pinned, vapid, keyring, made, device, roles, muted, batch, wrong>>

handleDeleteMyPushSubscription(u, r) ==
  /\ Op /\ r.user = u
  /\ subs' = subs \ {r}
  /\ UNCHANGED <<pinned, vapid, keyring, made, device, roles, muted, batch, wrong>>

\* Owners and editors only.
handleSetMyTeamNotificationPref(u, t) ==
  /\ Op /\ roles[u][t] = "owner"
  /\ muted' = IF <<u, t>> \in muted THEN muted \ {<<u, t>>} ELSE muted \cup {<<u, t>>}
  /\ UNCHANGED <<pinned, vapid, keyring, made, device, subs, roles, batch, wrong>>

ChangeRole(u, t, role) ==
  /\ Op /\ roles[u][t] # role
  /\ roles' = [roles EXCEPT ![u][t] = role]
  /\ UNCHANGED <<pinned, vapid, keyring, made, device, subs, muted, batch, wrong>>

-----------------------------------------------------------------------------
(* Notifications.                                                            *)

\* Devices of the team's owners and editors that did not mute it.
ListPushTargets(t) ==
  {r \in subs : r.on /\ roles[r.user][t] = "owner" /\ <<r.user, t>> \notin muted}

\* The key pair of the environment a key belongs to, NoKey for one from the database.
ConfiguredFor(key) == IF key \in Pins THEN key ELSE NoKey

\* wrong collects what should not be, when a message goes out: one that is not signed with
\* the key its device subscribed with, in an installation that is configured as it was then
\* (another pinned key, or none any more, parts an operator from all earlier subscriptions);
\* one for a device that is somebody else's ("late" if only since the rows were listed).
Undecipherable(r) ==
  IF ConfiguredFor(device[r.device].key) = pinned /\ device[r.device].key # keyring
  THEN {<<"key", r.device>>} ELSE {}
Misdirected(r) ==
  IF device[r.device].user = r.user THEN {}
  ELSE {<<IF r.device \in batch.moved THEN "late" ELSE "user", r.device>>}

\* SendNewReview, after the commit that put an automation's draft on the queue: without
\* targets or without a key nothing is sent.
SendNewReview(t) ==
  /\ Op /\ batch = NoBatch /\ ListPushTargets(t) # {}
  /\ \E loads, stores \in BOOLEAN : ensureKeys(loads, stores)
  /\ batch' = IF keyring' = NoKey THEN batch ELSE [crew |-> t, targets |-> ListPushTargets(t), moved |-> {}]
  /\ UNCHANGED <<pinned, device, subs, roles, muted, wrong>>

\* deliver: 2xx; 404 and 410 retire the row; anything else, and the end of the batch's
\* time, is a failure that is not repeated.
deliver(r) ==
  /\ r \in batch.targets
  /\ wrong' = wrong \cup Undecipherable(r) \cup Misdirected(r)
  /\ \E out \in {"delivered", "retired", "failed"} :
       subs' = IF out = "retired" THEN {q \in subs : q.id # r.id} ELSE subs
  /\ batch' = IF batch.targets = {r} THEN NoBatch ELSE [batch EXCEPT !.targets = @ \ {r}]
  /\ UNCHANGED <<pinned, vapid, keyring, made, device, roles, muted, pushOps>>

\* A test message for one of the caller's devices.
SendTest(u, r) ==
  /\ Op /\ r.user = u /\ batch = NoBatch
  /\ \E loads, stores \in BOOLEAN : ensureKeys(loads, stores)
  /\ batch' = IF keyring' = NoKey THEN batch ELSE [crew |-> NoOne, targets |-> {r}, moved |-> {}]
  /\ UNCHANGED <<pinned, device, subs, roles, muted, wrong>>

PushNext ==
  \/ \E d \in Devices : handleGetMyVAPIDPublicKey(d)
  \/ Restart
  \/ \E u \in People : \/ \E d \in Devices : handleCreateMyPushSubscription(u, d)
                       \/ \E r \in subs : \/ handleUpdateMyPushSubscription(u, r)
                                          \/ handleDeleteMyPushSubscription(u, r)
                                          \/ SendTest(u, r)
                       \/ \E t \in Crews : \/ handleSetMyTeamNotificationPref(u, t)
                                           \/ \E role \in {"owner", "viewer"} : ChangeRole(u, t, role)
  \/ \E t \in Crews : SendNewReview(t)
  \/ \E r \in batch.targets : deliver(r)

PushSpec == PushInit /\ [][PushNext]_pushVars

-----------------------------------------------------------------------------
\* A notification reaches the devices it is meant for, over restarts, failures of the
\* database, keys in the environment and devices that change hands: it is signed with the
\* key the device subscribed with under the present configuration (ensureKeys), and when it
\* goes to somebody else's device, that device was registered by its new owner after the
\* rows of the notification were listed (CreatePushSubscription replaces the row).
DevicesHearTheirOwn == \A w \in wrong : w[1] = "late"

\* No notification at all for a device that is somebody else's by now. This does not hold of
\* the code, which sends to the rows it has listed, one after the other.
NoLateNotification == wrong = {}
==============================================================================
