---------------------------- MODULE AccountTokens ----------------------------
(***************************************************************************)
(* The OAuth tokens of one connected account: every worker that is about   *)
(* to call the instance (publication, metrics, import) refreshes a token   *)
(* that is near its expiry (src/internal/socialtokens/mastodon.go), from   *)
(* the account it loaded earlier; a person renames the account, types      *)
(* other tokens or disconnects it (src/api/http.go).                       *)
(*                                                                         *)
(* A grant is an authorization the instance gave; its refresh tokens are   *)
(* numbered, and the instance accepts the latest only.  An instance        *)
(* replaces the refresh token on every use, or never.                      *)
(***************************************************************************)
EXTENDS Integers

CONSTANTS Workers,    \* goroutines that call the instance
          SerialWrites, \* a transaction keeps other writers out from its start (SQLite)
          LastGrant,  \* bound: authorizations a person obtains
          LastToken   \* bound: refresh tokens of a grant

ASSUME TokensAssumption == SerialWrites \in BOOLEAN /\ LastGrant \in Nat /\ LastToken \in Nat

VARIABLES account,   \* the row: connected, its tokens, whether they are near expiry
          instance,  \* instance[g]: the refresh token of grant g it accepts, -1 if none
          rotates,   \* it replaces the refresh token on every use
          worker,    \* worker[w]: its snapshot of the account and the answer it holds
          patch,     \* an update of the account under way
          lost       \* a new token never reached the row, or a revoked one stayed in it
tokenVars == <<account, instance, rotates, worker, patch, lost>>

Grants  == 0 .. LastGrant
NoToken == [grant |-> 0, number |-> -1]
NoWork  == [pc |-> "idle", tokens |-> NoToken, near |-> FALSE]

TokensInit ==
    /\ account = [connected |-> TRUE, tokens |-> [grant |-> 0, number |-> 0], near |-> FALSE]
    /\ instance = [g \in Grants |-> IF g = 0 THEN 0 ELSE -1]
    /\ rotates \in BOOLEAN
    /\ worker = [w \in Workers |-> NoWork]
    /\ patch = NoWork
    /\ lost = FALSE

(* Less than two minutes are left.                                         *)
TimePasses ==
    /\ account.connected /\ ~ account.near
    /\ account' = [account EXCEPT !.near = TRUE]
    /\ UNCHANGED <<instance, rotates, worker, patch, lost>>

(* The post's targets, the accounts to measure or to import from are       *)
(* loaded once; each is refreshed when its turn comes.                     *)
LoadAccount(w) ==
    /\ worker[w].pc = "idle" /\ account.connected
    /\ worker' = [worker EXCEPT ![w] =
         [pc |-> "loaded", tokens |-> account.tokens, near |-> account.near]]
    /\ UNCHANGED <<account, instance, rotates, patch, lost>>

Done(w) == worker' = [worker EXCEPT ![w] = NoWork]

(* Nothing to refresh, or nothing to refresh it with: the snapshot is used.*)
UseSnapshot(w) ==
    /\ worker[w].pc = "loaded"
    /\ ~ worker[w].near \/ worker[w].tokens = NoToken
    /\ Done(w)
    /\ UNCHANGED <<account, instance, rotates, patch, lost>>

Accepts(token) == token # NoToken /\ instance[token.grant] = token.number

KeepRefreshToken(used) == used
(* What is saved as the refresh token: the new one, or, when the instance  *)
(* sent none, the one that was used.                                       *)
NextRefreshToken(used) ==
    IF rotates THEN [used EXCEPT !.number = @ + 1] ELSE used

(* The answer of the instance may not arrive.                              *)
RefreshAtInstance(w, arrives) ==
    LET used == worker[w].tokens
    IN  /\ worker[w].pc = "loaded" /\ worker[w].near /\ Accepts(used)
        /\ rotates => used.number < LastToken
        /\ instance' = IF rotates THEN [instance EXCEPT ![used.grant] = @ + 1] ELSE instance
        /\ IF arrives
           THEN /\ worker' = [worker EXCEPT ![w].pc = "answered",
                                ![w].tokens = NextRefreshToken(used)]
                /\ UNCHANGED lost
           ELSE Done(w) /\ lost' = (lost \/ rotates)
        /\ UNCHANGED <<account, rotates, patch>>

(* A token that was used before, or a revoked grant: the target fails.     *)
RefreshRefused(w) ==
    /\ worker[w].pc = "loaded" /\ worker[w].near
    /\ worker[w].tokens # NoToken /\ ~ Accepts(worker[w].tokens)
    /\ Done(w)
    /\ UNCHANGED <<account, instance, rotates, patch, lost>>

(* The transaction of an audited request begins immediately on SQLite: it  *)
(* holds the write lock while it reads.  PostgreSQL lets others write.     *)
WriteLockFree == SerialWrites => patch.pc = "idle"

(* One statement by id; it changes nothing once the account is gone.       *)
UpdateSocialAccountTokens(w) ==
    /\ worker[w].pc = "answered" /\ WriteLockFree
    /\ account' = IF account.connected
                  THEN [account EXCEPT !.tokens = worker[w].tokens, !.near = FALSE]
                  ELSE account
    /\ Done(w)
    /\ UNCHANGED <<instance, rotates, patch, lost>>

(* The process stops, or the statement fails, before the token is saved.   *)
SaveFails(w) ==
    /\ worker[w].pc = "answered"
    /\ Done(w)
    /\ lost' = (lost \/ worker[w].tokens # account.tokens)
    /\ UNCHANGED <<account, instance, rotates, patch>>

(* UpdateAccount reads the row and writes all of it back: a name, and the  *)
(* tokens it read or the ones that were typed; the expiry is left alone.   *)
UpdateAccountReads ==
    /\ patch.pc = "idle" /\ account.connected
    /\ patch' = [NoWork EXCEPT !.pc = "loaded", !.tokens = account.tokens]
    /\ UNCHANGED <<account, instance, rotates, worker, lost>>

UpdateAccountWrites ==
    /\ patch.pc = "loaded"
    /\ account' = IF account.connected THEN [account EXCEPT !.tokens = patch.tokens] ELSE account
    /\ patch' = NoWork
    /\ UNCHANGED <<instance, rotates, worker, lost>>

(* Tokens of a grant obtained elsewhere, or an empty refresh token.        *)
TypeTokens(g) ==
    /\ account.connected /\ WriteLockFree
    /\ \/ /\ instance[g] = -1 /\ \A h \in Grants : h < g => instance[h] # -1 \/ h = 0
          /\ instance' = [instance EXCEPT ![g] = 0]
          /\ account' = [account EXCEPT !.tokens = [grant |-> g, number |-> 0]]
       \/ account' = [account EXCEPT !.tokens = NoToken] /\ UNCHANGED instance
    /\ UNCHANGED <<rotates, worker, patch, lost>>

(* revokeProviderToken comes first and may fail; then the row is deleted,  *)
(* which may fail as well.                                                 *)
handleDeleteAccount(revoked, deleted) ==
    /\ account.connected /\ WriteLockFree
    /\ instance' = IF revoked /\ account.tokens # NoToken
                   THEN [instance EXCEPT ![account.tokens.grant] = -1] ELSE instance
    /\ account' = [account EXCEPT !.connected = ~ deleted]
    /\ lost' = (lost \/ (revoked /\ ~ deleted))
    /\ UNCHANGED <<rotates, worker, patch>>

TokensNext ==
    \/ TimePasses
    \/ \E w \in Workers : \/ LoadAccount(w) \/ UseSnapshot(w) \/ RefreshRefused(w)
                          \/ UpdateSocialAccountTokens(w) \/ SaveFails(w)
    \/ \E w \in Workers, arrives \in BOOLEAN : RefreshAtInstance(w, arrives)
    \/ UpdateAccountReads \/ UpdateAccountWrites
    \/ \E g \in Grants : TypeTokens(g)
    \/ \E revoked, deleted \in BOOLEAN : handleDeleteAccount(revoked, deleted)

TokensSpec == TokensInit /\ [][TokensNext]_tokenVars

(* As long as no token is lost, a connected account can be refreshed: its *)
(* refresh token is the one its instance accepts, or the worker that holds *)
(* the newer one is about to save it.  Two workers that refresh from old   *)
(* snapshots, and a person who renames the account or types other tokens   *)
(* while they do, never leave it with a used one.                          *)
StaysConnected ==
    account.connected /\ ~ lost /\ account.tokens # NoToken =>
      \/ Accepts(account.tokens)
      \/ \E w \in Workers : worker[w].pc = "answered" /\ Accepts(worker[w].tokens)
=============================================================================
