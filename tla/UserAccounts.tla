---------------------------- MODULE UserAccounts ----------------------------
(* The users page (pages/users.tsx) and the accounts it makes and deletes in *)
(* Keycloak (handlers/keycloak_users.go). CreateUser takes four calls of the *)
(* admin API, each of which can fail after the ones before were done; its    *)
(* button stays active while it is under way. Other administrators delete    *)
(* accounts too.                                                             *)
EXTENDS Naturals, FiniteSets

CONSTANTS
    Emails, Blank,      \* the user names, and an empty field
    Roles, DefaultRole, \* what can be chosen in the dialog, and what is at first
    MaxAccounts,        \* bound: accounts ever made
    MaxCalls            \* bound: calls under way

\* Assumed of the constants (Console).
AccountsAssumption ==
    Blank \notin Emails /\ DefaultRole \in Roles /\ MaxAccounts \in Nat /\ MaxCalls \in Nat

VARIABLES
    accounts, made,     \* the realm's accounts by id, how many were made
    screen,             \* the mounted page, or Closed
    userCalls,          \* its calls under way
    reported            \* the creation that was just reported as done, or Nothing

vars == <<accounts, made, screen, userCalls, reported>>

-----------------------------------------------------------------------------
Closed == [open |-> FALSE]
Nothing == [none |-> TRUE]
Self == 0               \* the administrator's own account
AccountIds == 0..MaxAccounts
Account == [email : Emails \cup {Blank}, roles : SUBSET Roles, invited : BOOLEAN]
newUserData == [email |-> Blank, role |-> DefaultRole]
Form == [email : Emails \cup {Blank}, role : Roles]
Page == [open : {TRUE}, loading : BOOLEAN, error : BOOLEAN, rows : SUBSET AccountIds,
         dialog : BOOLEAN, form : Form]

Room == Cardinality(userCalls) < MaxCalls
List == [kind |-> "list", answer |-> Nothing]
Quiet == reported' = Nothing
Realm == UNCHANGED <<accounts, made>> /\ Quiet

\* A page that was left is opened again when its creations are over.
Enter ==
    /\ screen = Closed /\ userCalls = {}
    /\ screen' = [open |-> TRUE, loading |-> TRUE, error |-> FALSE, rows |-> {},
                  dialog |-> FALSE, form |-> newUserData]
    /\ userCalls' = {List} /\ Realm

\* What was typed stays when the dialog is cancelled, and can be typed while a
\* creation is under way.
Dialog ==
    /\ screen # Closed
    /\ \/ screen' = [screen EXCEPT !.dialog = ~@]
       \/ \E email \in Emails : screen.dialog /\ screen' = [screen EXCEPT !.form.email = email]
       \/ \E role \in Roles : screen.dialog /\ screen' = [screen EXCEPT !.form.role = role]
    /\ Realm /\ UNCHANGED userCalls

\* validateForm. Nothing tells the dialog that a creation is under way.
createUser ==
    /\ screen # Closed /\ screen.dialog /\ screen.form.email # Blank /\ Room
    /\ userCalls' = userCalls \cup
         {[kind |-> "create", at |-> "post", email |-> screen.form.email,
           role |-> screen.form.role, id |-> Self]}
    /\ Realm /\ UNCHANGED screen

\* The table is there when the last load went well.
Rows == IF screen = Closed \/ screen.loading \/ screen.error THEN {} ELSE screen.rows

deleteUser(id) ==
    /\ id \in Rows /\ Room
    /\ userCalls' = userCalls \cup {[kind |-> "delete", id |-> id]}
    /\ Realm /\ UNCHANGED screen

Without(id) == [i \in DOMAIN accounts \ {id} |-> accounts[i]]

\* What is under way is done as far as it comes; its answer reaches no page.
Leave ==
    /\ screen # Closed
    /\ screen' = Closed /\ userCalls' = {c \in userCalls : c.kind = "create"}
    /\ \/ UNCHANGED accounts
       \/ \E c \in userCalls : c.kind = "delete" /\ c.id # Self /\ accounts' = Without(c.id)
    /\ UNCHANGED made /\ Quiet

-----------------------------------------------------------------------------
\* fetchData, after a change: the page, and the calls without the one that ended.
Reloading(p) == IF p.open THEN [p EXCEPT !.loading = TRUE] ELSE p
AfterChange(c) == (userCalls \ {c}) \cup IF screen.open THEN {List} ELSE {}
Failed(p) == IF p.open THEN [p EXCEPT !.error = TRUE] ELSE p

(* CreateUser                                                                *)
At(c, next) == userCalls' = (userCalls \ {c}) \cup {next}

\* Keycloak takes a user name once.
Post(c) ==
    /\ c.at = "post" /\ made < MaxAccounts
    /\ \A i \in DOMAIN accounts : accounts[i].email # c.email
    /\ made' = made + 1
    /\ accounts' = [i \in DOMAIN accounts \cup {made + 1} |->
         IF i = made + 1 THEN [email |-> c.email, roles |-> {}, invited |-> FALSE] ELSE accounts[i]]
    /\ At(c, [c EXCEPT !.at = "find"]) /\ Quiet /\ UNCHANGED screen

\* The new id is looked up by the user name.
findUserIDByUsername(c) ==
    \E i \in DOMAIN accounts :
        /\ c.at = "find" /\ accounts[i].email = c.email
        /\ At(c, [c EXCEPT !.at = "assign", !.id = i])
        /\ Realm /\ UNCHANGED screen

assignClientRole(c) ==
    /\ c.at = "assign" /\ c.id \in DOMAIN accounts
    /\ accounts' = [accounts EXCEPT ![c.id].roles = @ \cup {c.role}]
    /\ At(c, [c EXCEPT !.at = "invite"])
    /\ Quiet /\ UNCHANGED <<made, screen>>

\* Only a finished creation closes the dialog and empties its fields, whatever
\* they hold by now.
Invite(c) ==
    /\ c.at = "invite" /\ c.id \in DOMAIN accounts
    /\ accounts' = [accounts EXCEPT ![c.id].invited = TRUE]
    /\ screen' = IF screen.open
                 THEN [Reloading(screen) EXCEPT !.dialog = FALSE, !.form = newUserData] ELSE screen
    /\ userCalls' = AfterChange(c)
    /\ reported' = [id |-> c.id, role |-> c.role]
    /\ UNCHANGED made

\* Mutant: without its role an account is still invited.
FailsButForRoles(c) ==
    \/ c.at # "assign" /\ userCalls' = userCalls \ {c} /\ screen' = Failed(screen) /\ Realm
    \/ c.at = "assign" /\ At(c, [c EXCEPT !.at = "invite"]) /\ Realm /\ UNCHANGED screen
\* Any of the four calls fails, or its answer is lost: what was done stays, and the
\* page shows the error in the place of the table.
CreateFails(c) == userCalls' = userCalls \ {c} /\ screen' = Failed(screen) /\ Realm

Creation(c) ==
    /\ c \in userCalls /\ c.kind = "create"
    /\ Post(c) \/ findUserIDByUsername(c) \/ assignClientRole(c) \/ Invite(c) \/ CreateFails(c)

-----------------------------------------------------------------------------
\* An administrator cannot delete the account the bearer token names.
DeleteUser(c) ==
    /\ c \in userCalls /\ c.kind = "delete" /\ c.id \in DOMAIN accounts \ {Self}
    /\ accounts' = Without(c.id)
    /\ screen' = Reloading(screen) /\ userCalls' = AfterChange(c)
    /\ Quiet /\ UNCHANGED made

\* Refused, or done and the answer lost.
DeleteFails(c) ==
    /\ c \in userCalls /\ c.kind = "delete"
    /\ accounts' \in {accounts} \cup {Without(i) : i \in {c.id} \ {Self}}
    /\ screen' = Failed(screen) /\ userCalls' = userCalls \ {c}
    /\ Quiet /\ UNCHANGED made

ListUsers(c) ==
    /\ c \in userCalls /\ c.kind = "list" /\ c.answer = Nothing
    /\ userCalls' = (userCalls \ {c}) \cup {[c EXCEPT !.answer = [ids |-> DOMAIN accounts]]}
    /\ Realm /\ UNCHANGED screen

Listed(c) ==
    /\ c \in userCalls /\ c.kind = "list" /\ c.answer # Nothing
    /\ screen' = [screen EXCEPT !.loading = FALSE, !.error = FALSE, !.rows = c.answer.ids]
    /\ userCalls' = userCalls \ {c} /\ Realm

ListFails(c) ==
    /\ c \in userCalls /\ c.kind = "list"
    /\ screen' = [screen EXCEPT !.loading = FALSE, !.error = TRUE]
    /\ userCalls' = userCalls \ {c} /\ Realm

OthersDelete(id) ==
    /\ id \in DOMAIN accounts \ {Self}
    /\ accounts' = Without(id)
    /\ Quiet /\ UNCHANGED <<made, screen, userCalls>>

Init ==
    /\ accounts = [i \in {Self} |-> [email |-> Blank, roles |-> Roles, invited |-> TRUE]]
    /\ made = 0 /\ screen = Closed /\ userCalls = {} /\ reported = Nothing

Work ==
    \/ Dialog \/ createUser \/ Leave
    \/ \E id \in AccountIds : deleteUser(id) \/ OthersDelete(id)
    \/ \E c \in userCalls :
          Creation(c) \/ DeleteUser(c) \/ DeleteFails(c) \/ ListUsers(c) \/ Listed(c) \/ ListFails(c)

Spec == Init /\ [][Enter \/ Work]_vars

-----------------------------------------------------------------------------
TypeOK ==
    /\ made \in 0..MaxAccounts /\ DOMAIN accounts \subseteq 0..made
    /\ \A i \in DOMAIN accounts : accounts[i] \in Account
    /\ screen \in {Closed} \cup Page

(* A creation that is reported as done has given the account its role and    *)
(* sent its invitation, also when another creation of the same user, or its  *)
(* deletion, came in between.                                                *)
ReportedIsComplete ==
    reported # Nothing =>
        /\ reported.id \in DOMAIN accounts
        /\ reported.role \in accounts[reported.id].roles /\ accounts[reported.id].invited

(* Nobody is invited to an account that has no role yet: an account that was *)
(* left half made stays without an invitation until a whole creation.        *)
InvitedHasRole == \A i \in DOMAIN accounts : accounts[i].invited => accounts[i].roles # {}

\* No account is half made for those who are told of it.
AccountsAreWhole == InvitedHasRole /\ ReportedIsComplete
=============================================================================
