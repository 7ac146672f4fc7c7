------------------------------- MODULE Accounts -------------------------------
(***************************************************************************)
(* Users, their addresses and their ledger accounts                        *)
(* (apps/api/src/auth.ts: provisionOrLoadUser; packages/database:          *)
(* bootstrap.ts, first-admin and asset).                                   *)
(*                                                                         *)
(* Every sign-in and every request with a bearer token provisions: in one  *)
(* transaction it inserts or locks the user, inserts the ledger accounts   *)
(* of every enabled asset, and links the address its token names.  An      *)
(* operator adds assets and administrators, one command at a time; the     *)
(* command asset inserts the accounts of every user it sees.  Neither      *)
(* sees what the other has not committed.                                  *)
(*                                                                         *)
(* A token says what was true when it was issued; it is accepted for a     *)
(* while after the customer confirmed or changed the address.              *)
(*                                                                         *)
(* Abstracted: the tenant, of which there is one, roles, profiles and      *)
(* names; the six accounts of a user and an asset are one.  The identity   *)
(* provider is external: an address belongs to one login at a time.        *)
(***************************************************************************)
EXTENDS FiniteSets

CONSTANTS
  Logins,          \* auth.users of the identity provider
  Administrators,  \* logins the operator makes administrators
  Emails, Assets,
  None

ASSUME AccountsAssumption ==
  Administrators \subseteq Logins /\ None \notin Logins \cup Emails \cup Assets

VARIABLES
  identities,  \* external: the address of each login, and is it verified
  stale,       \* external: what the older token of each login says
  users,       \* users.account_status
  emails,      \* user_emails, all of them primary
  assets,      \* assets.enabled
  accounts,    \* ledger_accounts: owner and asset
  requests,    \* the provisioning transaction that has the row of each user
  command,     \* the transaction of the bootstrap command asset
  overlapped   \* history: user and asset inserted side by side, without account

vars == <<identities, stale, users, emails, assets, accounts, requests,
          command, overlapped>>
identityVars == <<identities, stale>>

Claims == [email : Emails \cup {None}, verified : BOOLEAN]
NoClaims == [email |-> None, verified |-> FALSE]
NoEmail == [owner |-> None, verified |-> FALSE]
NoRequest == [claims |-> NoClaims, grants |-> {}]
NoCommand == [asset |-> None, grants |-> {}]

TypeOK ==
  /\ identities \in [Logins -> Claims] /\ stale \in [Logins -> Claims]
  /\ users \in [Logins -> {"none", "email_pending", "kyc_pending", "active"}]
  /\ emails \in [Emails -> [owner : Logins \cup {None}, verified : BOOLEAN]]
  /\ assets \in [Assets -> {"none", "disabled", "enabled"}]
  /\ accounts \subseteq Logins \X Assets /\ overlapped \subseteq Logins \X Assets
  /\ requests \in [Logins -> [claims : Claims, grants : SUBSET Assets]]
  /\ command \in [asset : Assets \cup {None}, grants : SUBSET Logins]

Init ==
  /\ identities = [l \in Logins |-> NoClaims]
  /\ stale = [l \in Logins |-> NoClaims]
  /\ users = [l \in Logins |-> "none"]
  /\ emails = [e \in Emails |-> NoEmail]
  /\ assets = [a \in Assets |-> "none"]
  /\ accounts = {} /\ overlapped = {}
  /\ requests = [l \in Logins |-> NoRequest]
  /\ command = NoCommand
-----------------------------------------------------------------------------
(* The identity provider.                                                  *)

\* A login signs up, confirms its address, or changes to another one, which
\* takes effect when it is confirmed.
identify(l, e, verified) ==
  LET claims == [email |-> e, verified |-> verified] IN
  /\ \A k \in Logins \ {l} : identities[k].email # e
  /\ verified <=> identities[l] # NoClaims
  /\ claims # identities[l]
  /\ identities' = [identities EXCEPT ![l] = claims]
  /\ stale' = [stale EXCEPT ![l] = identities[l]]
  /\ UNCHANGED <<users, emails, assets, accounts, requests, command, overlapped>>
-----------------------------------------------------------------------------
(* provisionOrLoadUser.  The row of the user is locked from the first      *)
(* statement on; what the request inserts is seen when it commits.         *)

rowIsFree(l) == requests[l] = NoRequest

\* Mutant: only a new user is given accounts.
insertUserOnce(l, claims) ==
  /\ claims \in {identities[l], stale[l]} \ {NoClaims}
  /\ rowIsFree(l)
  /\ requests' = [requests EXCEPT ![l] =
                    [claims |-> claims,
                     grants |-> {a \in Assets : users[l] = "none"
                                                /\ assets[a] = "enabled"}]]
  /\ overlapped' = overlapped \cup (({l} \X ({command.asset} \ {None})) \ accounts)
  /\ UNCHANGED <<identityVars, users, emails, assets, accounts, command>>

\* Up to the insertion of the accounts.
insertUser(l, claims) ==
  /\ claims \in {identities[l], stale[l]} \ {NoClaims}
  /\ rowIsFree(l)
  /\ requests' = [requests EXCEPT ![l] =
                    [claims |-> claims,
                     grants |-> {a \in Assets : assets[a] = "enabled"}]]
  /\ overlapped' = overlapped \cup (({l} \X ({command.asset} \ {None})) \ accounts)
  /\ UNCHANGED <<identityVars, users, emails, assets, accounts, command>>

\* Mutant: whose the address is is not looked at again.
isUnlinked(l, e) ==
  emails[e].owner = None => \A f \in Emails : emails[f].owner # l

\* The address is the user's, or can become theirs: it is nobody's, and they
\* have no other one (user_emails_one_primary).
mayLink(l, e) ==
  \/ emails[e].owner = l
  \/ emails[e].owner = None /\ \A f \in Emails : emails[f].owner # l

\* Mutant: the status is what the token says.
statusByToken(l, claims) ==
  IF users[l] = "active" THEN "active"
  ELSE IF claims.verified THEN "kyc_pending" ELSE "email_pending"

statusAfter(l, claims) ==
  IF users[l] \in {"kyc_pending", "active"} THEN users[l]
  ELSE IF claims.verified THEN "kyc_pending" ELSE "email_pending"

\* From the address to the commit.
linkEmail(l) ==
  LET claims == requests[l].claims
      e == claims.email IN
  /\ ~rowIsFree(l)
  /\ mayLink(l, e)
  /\ emails' = IF emails[e].owner \in {None, l}
               THEN [emails EXCEPT ![e] =
                       [owner |-> l, verified |-> @.verified \/ claims.verified]]
               ELSE emails
  /\ users' = [users EXCEPT ![l] = statusAfter(l, claims)]
  /\ accounts' = accounts \cup ({l} \X requests[l].grants)
  /\ requests' = [requests EXCEPT ![l] = NoRequest]
  /\ overlapped' = overlapped \ accounts'
  /\ UNCHANGED <<identityVars, assets, command>>

\* The address is refused, a statement fails or the process dies.
rollBack(l) ==
  /\ ~rowIsFree(l)
  /\ requests' = [requests EXCEPT ![l] = NoRequest]
  /\ UNCHANGED <<identityVars, users, emails, assets, accounts, command, overlapped>>

\* loadPrincipal, for a request with the cookies of a session.
loadPrincipal(l) == users[l] # "none"
-----------------------------------------------------------------------------
(* The bootstrap commands, one at a time (pg_advisory_xact_lock).          *)

\* An administrator, with any address the operator types.
bootstrapAdmin(l, e) ==
  /\ command = NoCommand
  /\ l \in Administrators /\ identities[l] # NoClaims
  /\ rowIsFree(l)
  /\ emails[e].owner = None => \A f \in Emails : emails[f].owner # l
  /\ users' = [users EXCEPT ![l] = IF @ = "none" THEN "active" ELSE @]
  /\ emails' = IF emails[e].owner = None
               THEN [emails EXCEPT ![e] = [owner |-> l, verified |-> TRUE]]
               ELSE emails
  /\ UNCHANGED <<identityVars, assets, accounts, requests, command, overlapped>>

\* Mutant: accounts are granted with the asset only, not when it is enabled.
bootstrapNewAsset(a) ==
  /\ command = NoCommand
  /\ command' = [asset |-> a,
                 grants |-> {l \in Logins : assets[a] = "none" /\ loadPrincipal(l)}]
  /\ overlapped' = overlapped
       \cup (({l \in Logins : ~rowIsFree(l)} \X {a}) \ accounts)
  /\ UNCHANGED <<identityVars, users, emails, assets, accounts, requests>>

\* The asset, enabled or not, and accounts for the users committed so far.
bootstrapAsset(a) ==
  /\ command = NoCommand
  /\ command' = [asset |-> a, grants |-> {l \in Logins : loadPrincipal(l)}]
  /\ overlapped' = overlapped
       \cup (({l \in Logins : ~rowIsFree(l)} \X {a}) \ accounts)
  /\ UNCHANGED <<identityVars, users, emails, assets, accounts, requests>>

commitAsset(enabled) ==
  /\ command # NoCommand
  /\ assets' = [assets EXCEPT ![command.asset] =
                  IF enabled THEN "enabled" ELSE "disabled"]
  /\ accounts' = accounts \cup (command.grants \X {command.asset})
  /\ command' = NoCommand
  /\ overlapped' = overlapped \ accounts'
  /\ UNCHANGED <<identityVars, users, emails, requests>>

abortAsset ==
  /\ command # NoCommand
  /\ command' = NoCommand
  /\ UNCHANGED <<identityVars, users, emails, assets, accounts, requests, overlapped>>
-----------------------------------------------------------------------------
Next ==
  \/ \E l \in Logins, e \in Emails :
       \/ \E verified \in BOOLEAN : identify(l, e, verified)
       \/ bootstrapAdmin(l, e)
  \/ \E l \in Logins :
       \/ \E claims \in Claims : insertUser(l, claims)
       \/ linkEmail(l)
       \/ rollBack(l)
  \/ \E a \in Assets : bootstrapAsset(a)
  \/ \E enabled \in BOOLEAN : commitAsset(enabled)
  \/ abortAsset

Spec == Init /\ [][Next]_vars

\* Transactions end, and of the sign-ins of a customer who keeps signing in
\* not all fail.
FairSpec ==
  /\ Spec
  /\ \A l \in Logins :
       /\ SF_vars(insertUser(l, identities[l]))
       /\ SF_vars(requests[l].claims = identities[l] /\ linkEmail(l))
       /\ WF_vars(linkEmail(l) \/ rollBack(l))
-----------------------------------------------------------------------------
\* Whoever counts as having a verified address has one of their own, however
\* sign-ins with one address overlap and whatever old tokens say.
VerifiedOwnsEmail ==
  \A l \in Logins :
    users[l] = "kyc_pending" =>
      \E e \in Emails : emails[e] = [owner |-> l, verified |-> TRUE]

\* A customer is short of an account for an enabled asset only if a sign-in
\* and the command that added the asset overlapped, so that neither saw the
\* other; re-enabling an asset leaves nobody out.  Administrators have none
\* before they sign in.
MissingByOverlapOnly ==
  \A l \in Logins, a \in Assets :
    (users[l] \in {"email_pending", "kyc_pending"} /\ assets[a] = "enabled")
      => <<l, a>> \in accounts \cup overlapped

\* No sign-in takes a customer back in their verification, neither one with
\* an old token nor one that waited for another, and no address changes hands.
NothingIsUndone ==
  [][/\ \A l \in Logins :
          \/ users'[l] = users[l] \/ users[l] = "none"
          \/ users[l] = "email_pending" /\ users'[l] = "kyc_pending"
     /\ \A e \in Emails : emails[e].owner # None =>
          /\ emails'[e].owner = emails[e].owner
          /\ emails[e].verified => emails'[e].verified]_vars

\* The missing account is made up for: a customer who keeps signing in gets
\* an account for every asset that stays enabled, unless the address of the
\* login is refused.
MissingIsMadeUp ==
  \A l \in Logins, a \in Assets :
    (loadPrincipal(l) /\ assets[a] = "enabled")
      ~> \/ <<l, a>> \in accounts
         \/ assets[a] # "enabled"
         \/ \E e \in Emails : identities[l].email = e /\ ~mayLink(l, e)
=============================================================================
