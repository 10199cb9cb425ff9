------------------------------ MODULE Identity ------------------------------
(* Accounts of people whom an identity provider vouches for                    *)
(* (internal/server/identity*.go, integrations_oidc.go, accounts.go, admin.go).*)
(* A sign-in or a SCIM write tells the groups of a person; mappings turn them  *)
(* into grants, and grants into a membership of the workspace, unless somebody *)
(* has set that by hand.  One advisory lock keeps the transactions of          *)
(* identities apart; those of members and of accounts take other locks.        *)
EXTENDS Naturals, FiniteSets

CONSTANTS
  SignIns,        \* sign-ins through SAML, OIDC or LDAP, or with a password
  IdChanges       \* bound on what administrators and SCIM do

VARIABLES
  accounts,    \* users and scim_users: ann, the first administrator, and ben
  idSettings,  \* identity_group_mappings, and the settings of the provider as an epoch
  idLinks,     \* identity_links of two subjects, and whether ben is in the SCIM group
  member,      \* ben in workspace_members, identity_managed_members, identity_grants; history: what a hand set
  signIns,     \* what each sign-in is doing; "in" is a row of sessions
  idTx,        \* the transaction that holds the lock of identities
  handTx,      \* an open transaction that edits the membership by hand
  adminTx,     \* the open transactions of updateUser
  idChanged    \* bound

idVars == <<accounts, idSettings, idLinks, member, signIns, idTx, handTx, adminTx, idChanged>>

People   == {"ann", "ben"}
Subjects == {"verified", "other"}       \* both claim ben's address, one verified
Levels   == {"viewer", "editor"}
Rank     == [none |-> 0, viewer |-> 1, editor |-> 2]
Grantors == {"sso", "scim", "base"}
NoTx     == [by |-> "none"]
Unlinked == [user |-> "none", group |-> FALSE]

IdTypeOK ==
  /\ \A u \in People : accounts[u].is \in {"absent", "user", "admin"}
       /\ accounts[u].scim \in {"no", "active", "inactive", "deleted"}
  /\ \A s \in Subjects : idLinks[s].user \in {"none", "ann", "ben"}
  /\ member.role \in Levels \cup {"none"} /\ member.managed \in Levels \cup {"none"}
  /\ member.managed # "none" => member.role # "none"         \* the foreign key
  /\ \A i \in SignIns : signIns[i].at \in {"none", "asked", "waits", "checked", "in", "out", "refused"}

IdInit ==
  /\ accounts \in {[ann |-> [is |-> "admin", disabled |-> FALSE, scim |-> "no"],
                    ben |-> [is |-> kind, disabled |-> FALSE, scim |-> "no"]] : kind \in {"absent", "user", "admin"}}
  /\ idSettings = [epoch |-> 1, sso |-> "editor", scim |-> "editor"]
  /\ idLinks = [verified |-> Unlinked, other |-> Unlinked, scim |-> FALSE]
  /\ member = [role |-> "none", managed |-> "none", grants |-> [g \in Grantors |-> "none"], hand |-> "no", raced |-> FALSE]
  /\ signIns = [i \in SignIns |-> [at |-> "none", saw |-> idSettings, user |-> "none"]]
  /\ idTx = NoTx /\ handTx = NoTx /\ adminTx = [u \in People |-> NoTx]
  /\ idChanged = 0

IdChange == idChanged < IdChanges /\ idChanged' = idChanged + 1

\* DELETE FROM sessions WHERE user_id: what is in, is out.
SignedOut(u) == [i \in SignIns |-> IF signIns[i].at = "in" /\ signIns[i].user = u
                                   THEN [signIns[i] EXCEPT !.at = "out"] ELSE signIns[i]]

----------------
(* Transactions of identities.                                                *)

\* identitySyncGroups and scimSyncUser: what links and mappings grant ben.
GrantsOf(links, settings, scim) ==
  LET grant(holds, role) == IF holds THEN role ELSE "none" IN
  [sso  |-> grant(\E s \in Subjects : links[s].user = "ben" /\ links[s].group, settings.sso),
   scim |-> grant(scim = "active" /\ links.scim, settings.scim),
   base |-> grant(scim = "active", "viewer")]

\* What a transaction has read once it has the lock, and will write.  It locks
\* the rows of some accounts, whose owners' membership it reconciles.
Opens(by, rows, syncs, newAccount, newLinks, newSettings) ==
  /\ idTx = NoTx
  /\ \A u \in rows : adminTx[u] = NoTx
  /\ idTx' = [by |-> by, rows |-> rows, syncs |-> syncs, account |-> newAccount,
              links |-> newLinks, settings |-> newSettings,
              grants |-> GrantsOf(newLinks, newSettings, newAccount.scim),
              read |-> ~syncs, role |-> "none", managed |-> "none"]
  /\ UNCHANGED <<accounts, idSettings, idLinks, member, handTx, adminTx>>

\* Mutant: the lowest of the grants.
LowestGrant(grants) == CHOOSE r \in Levels \cup {"none"} :
  /\ \E g \in Grantors : grants[g] = r
  /\ \A g \in Grantors : Rank[r] <= Rank[grants[g]]

HighestGrant(grants) == CHOOSE r \in Levels \cup {"none"} :
  /\ \E g \in Grantors : grants[g] = r
  /\ \A g \in Grantors : Rank[grants[g]] <= Rank[r]

\* identityReconcileMember begins: its statement sees the rows that are
\* committed, and waits for the row of the member if somebody has locked it.
ReadMember ==
  /\ idTx # NoTx /\ ~idTx.read
  /\ idTx' = [idTx EXCEPT !.read = TRUE, !.role = member.role, !.managed = member.managed]
  /\ UNCHANGED <<accounts, idSettings, idLinks, member, signIns, handTx, adminTx, idChanged>>

\* Mutant: a marker is enough.
MarkedThen == idTx.managed # "none"

ManagedStill == idTx.managed # "none" /\ member.role = idTx.managed

\* identityReconcileMember ends.  The row of the member is the current one, the
\* marker the one that its statement saw.
Reconciled(role) ==
  LET now    == [member EXCEPT !.grants = idTx.grants]
      joined == IF role = "none" THEN now ELSE [now EXCEPT !.role = role, !.managed = role, !.hand = "no", !.raced = FALSE]
  IN
  IF member.role = "none" THEN joined
  ELSE IF idTx.managed = "none" THEN now
  ELSE IF ~ManagedStill THEN [now EXCEPT !.managed = "none"]
  ELSE IF role = "none" THEN [now EXCEPT !.role = "none", !.managed = "none"]
  ELSE [now EXCEPT !.role = role, !.managed = IF @ = "none" THEN @ ELSE role]

CommitIdentity ==
  /\ idTx # NoTx /\ idTx.read
  /\ idTx.syncs => handTx = NoTx
  /\ member' = IF idTx.syncs THEN Reconciled(HighestGrant(idTx.grants)) ELSE member
  /\ accounts' = IF "ben" \in idTx.rows THEN [accounts EXCEPT !["ben"] = idTx.account] ELSE accounts
  /\ idLinks' = idTx.links
  /\ idSettings' = IF idTx.by = "settings" THEN idTx.settings ELSE idSettings
  /\ signIns' = IF idTx.by \in SignIns THEN [signIns EXCEPT ![idTx.by].at = "checked"]
                ELSE IF idTx.by = "unlink" \/ (idTx.by = "scim" /\ idTx.account.disabled) THEN SignedOut("ben") ELSE signIns
  /\ idTx' = NoTx
  /\ UNCHANGED <<handTx, adminTx, idChanged>>

----------------
(* Sign-ins.                                                                  *)

Signs(i, at, u) == signIns' = [signIns EXCEPT ![i] = [@ EXCEPT !.at = at, !.user = u]]

\* samlStart, oidcStart; ldapLogin reads the settings likewise.
StartSignIn(i) ==
  /\ signIns[i].at = "none"
  /\ signIns' = [signIns EXCEPT ![i] = [at |-> "asked", saw |-> idSettings, user |-> "none"]]
  /\ UNCHANGED <<accounts, idSettings, idLinks, member, idTx, handTx, adminTx, idChanged>>

\* identityUser: whose account a subject is.  The link decides; an address that
\* is verified may bind an account that is neither bound nor an administrator's.
BindsByAddress(s) ==
  /\ s = "verified" /\ accounts["ben"].is = "user" /\ ~accounts["ben"].disabled
  /\ \A t \in Subjects : idLinks[t].user # "ben"

AccountOf(s) == IF idLinks[s].user # "none" THEN idLinks[s].user
                ELSE IF accounts["ben"].is = "absent" \/ BindsByAddress(s) THEN "ben" ELSE "none"

\* Mutant: identityUser goes by the settings that its caller has read.
SettingsOfCaller(i) == signIns[i].saw

\* identityUser reads the settings again under the lock.
SettingsFor(i) == idSettings

\* samlACS, oidcCallback, ldapLogin: the provider tells a subject and whether it
\* is in the group.  The request was for settings that still stand.
Proved(i, s, group) ==
  LET u == AccountOf(s) IN
  /\ signIns[i].at = "asked"
  /\ IF u = "none" \/ (u # "none" /\ accounts[u].disabled) \/ signIns[i].saw.epoch # idSettings.epoch
     THEN /\ idTx = NoTx /\ (u # "none" => adminTx[u] = NoTx) /\ Signs(i, "refused", "none")
          /\ UNCHANGED <<accounts, idSettings, idLinks, member, idTx, handTx, adminTx>>
     ELSE /\ Signs(i, "waits", u)
          /\ Opens(i, {u}, u = "ben",
                   IF accounts["ben"].is = "absent" /\ u = "ben" THEN [accounts["ben"] EXCEPT !.is = "user"] ELSE accounts["ben"],
                   [idLinks EXCEPT ![s] = [user |-> u, group |-> group]], SettingsFor(i))
  /\ UNCHANGED idChanged

\* login with a password.
PasswordSignIn(i, u) ==
  /\ signIns[i].at = "none" /\ accounts[u].is # "absent" /\ ~accounts[u].disabled
  /\ Signs(i, "checked", u)
  /\ UNCHANGED <<accounts, idSettings, idLinks, member, idTx, handTx, adminTx, idChanged>>

\* createSession, after the transaction.
CreateSession(i) ==
  /\ signIns[i].at = "checked" /\ Signs(i, "in", signIns[i].user)
  /\ UNCHANGED <<accounts, idSettings, idLinks, member, idTx, handTx, adminTx, idChanged>>

\* updateProfile with a new password, which deletes the sessions and makes one.
ChangePassword(i) ==
  /\ signIns[i].at = "in" /\ ~accounts[signIns[i].user].disabled /\ IdChange
  /\ signIns' = [SignedOut(signIns[i].user) EXCEPT ![i].at = "checked"]
  /\ UNCHANGED <<accounts, idSettings, idLinks, member, idTx, handTx, adminTx>>

----------------
(* SCIM, links and settings.                                                  *)

Writable == accounts["ben"].scim \in {"active", "inactive"} /\ accounts["ben"].is # "admin"

\* scimWriteUser.
ScimUser(to) ==
  /\ IF to = "created" THEN accounts["ben"].is = "absent" ELSE Writable
  /\ IdChange
  /\ Opens("scim", {"ben"}, TRUE,
           [accounts["ben"] EXCEPT !.is = IF to = "created" THEN "user" ELSE @,
                                   !.scim = IF to = "created" THEN "active" ELSE to,
                                   !.disabled = to \in {"inactive", "deleted"}],
           [idLinks EXCEPT !.scim = @ /\ to # "deleted"], idSettings)
  /\ UNCHANGED signIns

\* scimWriteGroup, which does not ask whether its members are administrators by now.
ScimGroup(holds) ==
  /\ accounts["ben"].scim \in {"active", "inactive"} /\ (holds => accounts["ben"].is = "user")
  /\ idLinks.scim # holds /\ IdChange
  /\ Opens("group", {}, TRUE, accounts["ben"], [idLinks EXCEPT !.scim = holds], idSettings)
  /\ UNCHANGED signIns

\* identityLink: a new link knows of no groups.
Link(s, u) ==
  /\ accounts[u].is # "absent" /\ ~accounts[u].disabled
  /\ idLinks[s].user = "none" /\ \A t \in Subjects : idLinks[t].user # u
  /\ IdChange
  /\ Opens("link", {u}, FALSE, accounts["ben"], [idLinks EXCEPT ![s] = [user |-> u, group |-> FALSE]], idSettings)
  /\ UNCHANGED signIns

\* identityUnlink.
Unlink(s) ==
  /\ idLinks[s].user = "ben" /\ IdChange
  /\ Opens("unlink", {}, TRUE, accounts["ben"], [idLinks EXCEPT ![s] = Unlinked], idSettings)
  /\ UNCHANGED signIns

\* Mutant: new mappings are for those who sign in from now on.
NotRefreshed == FALSE

LinkedToBen == accounts["ben"].scim # "no" \/ \E s \in Subjects : idLinks[s].user = "ben"

\* updateSettings and restoreSettings with other mappings, identityRefreshMappings.
ChangeMapping(g, role) ==
  /\ idSettings[g] # role /\ IdChange
  /\ Opens("settings", {}, LinkedToBen, accounts["ben"], idLinks, [idSettings EXCEPT ![g] = role])
  /\ UNCHANGED signIns

\* updateSettings with other settings of the provider; the row of the settings is locked.
ChangeProvider ==
  /\ IdChange /\ idTx.by # "settings"
  /\ idSettings' = [idSettings EXCEPT !.epoch = @ + 1]
  /\ UNCHANGED <<accounts, idLinks, member, signIns, idTx, handTx, adminTx>>

----------------
(* Members and accounts, by hand.                                             *)

\* updateMember and deleteMember up to their first write.  A transaction that
\* has read the row of the member has locked it.
OpenHand(role) ==
  /\ handTx = NoTx /\ (idTx # NoTx /\ idTx.read /\ idTx.syncs => idTx.role = "none")
  /\ accounts["ben"].is # "absent" /\ IdChange
  /\ IF role = "none" THEN member.role # "none" ELSE ~accounts["ben"].disabled
  /\ handTx' = [by |-> "hand", role |-> role]
  /\ UNCHANGED <<accounts, idSettings, idLinks, member, signIns, idTx, adminTx>>

\* Mutant: the marker of a managed membership stays.
MarkerLeft == member.managed

MarkerGone == "none"

\* A synchronization that waits for this row has read the marker that goes now:
\* it will take the very role of the marker for its own, although a hand set it.
CommitHand ==
  LET waits == idTx # NoTx /\ idTx.read /\ idTx.syncs IN
  /\ handTx # NoTx
  /\ member' = [member EXCEPT !.role = handTx.role, !.managed = IF handTx.role = "none" THEN "none" ELSE MarkerGone,
                              !.hand = IF handTx.role = "none" THEN "removed" ELSE handTx.role,
                              !.raced = waits /\ idTx.managed = handTx.role]
  /\ handTx' = NoTx
  /\ UNCHANGED <<accounts, idSettings, idLinks, signIns, idTx, adminTx, idChanged>>

\* createUser.
CreateUser ==
  /\ accounts["ben"].is = "absent" /\ idTx = NoTx /\ IdChange
  /\ accounts' = [accounts EXCEPT !["ben"].is = "user"]
  /\ UNCHANGED <<idSettings, idLinks, member, signIns, idTx, handTx, adminTx>>

\* Mutant: two administrators are edited at once.
EachForItself == TRUE

AdminLockFree == \A u \in People : adminTx[u] = NoTx

Administers(u) == accounts[u].is = "admin" /\ ~accounts[u].disabled

\* updateUser: the last administrator who can act remains one.
OpenAdmin(u, is, disabled) ==
  /\ AdminLockFree /\ adminTx[u] = NoTx /\ (idTx # NoTx => u \notin idTx.rows)
  /\ accounts[u].is # "absent" /\ IdChange
  /\ is # "admin" \/ disabled => \E v \in People \ {u} : Administers(v)
  /\ adminTx' = [adminTx EXCEPT ![u] = [by |-> "admin", is |-> is, disabled |-> disabled]]
  /\ UNCHANGED <<accounts, idSettings, idLinks, member, signIns, idTx, handTx>>

CommitAdmin(u) ==
  /\ adminTx[u] # NoTx
  /\ accounts' = [accounts EXCEPT ![u].is = adminTx[u].is, ![u].disabled = adminTx[u].disabled]
  /\ signIns' = IF adminTx[u].disabled THEN SignedOut(u) ELSE signIns
  /\ adminTx' = [adminTx EXCEPT ![u] = NoTx]
  /\ UNCHANGED <<idSettings, idLinks, member, idTx, handTx, idChanged>>

IdNext ==
  \/ ReadMember \/ CommitIdentity
  \/ \E i \in SignIns : StartSignIn(i) \/ CreateSession(i) \/ ChangePassword(i)
  \/ \E i \in SignIns, s \in Subjects, group \in BOOLEAN : Proved(i, s, group)
  \/ \E i \in SignIns, u \in People : PasswordSignIn(i, u)
  \/ \E to \in {"created", "active", "inactive", "deleted"} : ScimUser(to)
  \/ \E holds \in BOOLEAN : ScimGroup(holds)
  \/ \E s \in Subjects, u \in People : Link(s, u)
  \/ \E s \in Subjects : Unlink(s)
  \/ \E g \in {"sso", "scim"}, role \in Levels \cup {"none"} : ChangeMapping(g, role)
  \/ ChangeProvider \/ CommitHand \/ CreateUser
  \/ \E role \in Levels \cup {"none"} : OpenHand(role)
  \/ \E u \in People, is \in {"user", "admin"}, disabled \in BOOLEAN : OpenAdmin(u, is, disabled)
  \/ \E u \in People : CommitAdmin(u)

IdSpec == IdInit /\ [][IdNext]_idVars

----------------
(* Properties.                                                                *)

\* Grants are those of the groups and mappings as they stand; a managed
\* membership has the highest of them; who has a grant is a member, unless
\* removed by hand since; nobody is a member without a grant or a hand.
FollowsGroups ==
  LET ranks == {Rank[member.grants[g]] : g \in Grantors} IN
  /\ member.grants = GrantsOf(idLinks, idSettings, accounts["ben"].scim)
  /\ member.managed # "none" =>
       member.role = member.managed /\ Rank[member.role] \in ranks /\ \A r \in ranks : r <= Rank[member.role]
  /\ member.role = "none" /\ ranks # {0} => member.hand = "removed"
  /\ member.role # "none" /\ member.managed = "none" => member.hand # "no"

\* What was set by hand stands, whatever the groups and mappings become.  The
\* exception is a hand that sets the very role the membership was managed with
\* while a synchronization, which has read the marker, waits for the row
\* (identity.go:310 reads the marker before it locks; 329-342 go by it).
HandStands ==
  member.hand \in Levels /\ ~member.raced => member.role = member.hand /\ member.managed = "none"

\* A manually assigned membership always wins (identity.go:247,
\* docs/identity-guide.md:15): there is no exception.
HandAlwaysWins == member.hand \in Levels => member.role = member.hand /\ member.managed = "none"

\* Somebody can administer the service.
AdminRemains == \E u \in People : Administers(u)

AccountsFollow == (FollowsGroups /\ HandStands /\ AdminRemains)'
=============================================================================
