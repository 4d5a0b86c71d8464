--------------------------- MODULE DemoIdentities ---------------------------
(***************************************************************************)
(* The identities of the demonstration (scripts/                           *)
(* configure_demo_identity_posture.py over the helpers of                  *)
(* scripts/provision_demo_identities.py): a command that brings the users  *)
(* of the Cognito pool into the posture the demonstration asks for, with   *)
(* its two protected files, its lock, and a temporary client.  An action   *)
(* is the code up to and with its next call to Cognito, or a save.         *)
(***************************************************************************)
EXTENDS Naturals, FiniteSets

CONSTANTS
    Operators,   \* processes of one checkout
    Nobody,
    Team,        \* TEAM_IDENTITIES, which sign in by password only
    Presenter,   \* PRESENTER_IDENTITY, which signs in with a second factor
    MaxCommands, \* bound: commands that are given
    MaxTroubles  \* bound: failed calls, killed processes, lost files, acts of others

ASSUME IdentitiesAssumption ==
    /\ Nobody \notin Operators /\ Presenter \notin Team
    /\ {MaxCommands, MaxTroubles} \subseteq Nat

Users == Team \cup {Presenter}

VARIABLES
    pool,      \* what Cognito knows of each user
    team,      \* demo-identities.json: its password, 0 before there is a file
    presenter, \* formal-demo-presenter.json
    lock,      \* who holds the lock of the private directory
    clients,   \* temporary enrollment clients in the pool
    minted,    \* how many passwords and factors have been made
    conf,      \* the posture command of each operator
    commands, troubles

identityVars == <<pool, team, presenter, lock, clients, minted, conf>>

\* A secret is a number; 0 is none.
Account(password, group, factor, mfa) ==
    [there |-> TRUE, enabled |-> TRUE, password |-> password, group |-> {group},
     factor |-> factor, mfa |-> mfa]
Absent    == [there |-> FALSE, enabled |-> TRUE, password |-> 0, group |-> {},
              factor |-> 0, mfa |-> FALSE]
Misplaced == [Account(0, "wrong", 0, FALSE) EXCEPT !.enabled = FALSE]
\* A team user of the earlier posture, in which everyone had a factor.
Legacy    == Account(1, "right", 1, TRUE)

NoFile == [there |-> FALSE, complete |-> FALSE, secret |-> 0]
NoRun  == [pc |-> "idle", todo |-> {}, user |-> Presenter, secret |-> 0, client |-> FALSE]

\* Either an earlier command has done all its work, or the users are as they were found.
IdentityInit ==
    /\ \/ /\ pool = [u \in Users |-> IF u = Presenter THEN Account(1, "right", 1, TRUE)
                                     ELSE Account(1, "right", 0, FALSE)]
          /\ team = 1 /\ presenter = [there |-> TRUE, complete |-> TRUE, secret |-> 1]
       \/ /\ pool \in {[u \in Users |-> IF u = Presenter THEN found[2] ELSE found[1]] :
                found \in {<<Absent, Absent>>, <<Legacy, Absent>>, <<Misplaced, Misplaced>>}}
          /\ team = 0 /\ presenter = NoFile
    /\ lock = Nobody /\ clients = 0 /\ minted = 1
    /\ conf = [o \in Operators |-> NoRun]

\* What prepare_demo asks of each user, and what this command is to bring about.
InPosture(u) ==
    /\ pool[u].there /\ pool[u].enabled /\ pool[u].password # 0
    /\ pool[u].group = {"right"}
    /\ pool[u].mfa = (u = Presenter)
Posture == \A u \in Users : InPosture(u)

-----------------------------------------------------------------------------
Goto(o, pc)     == conf' = [conf EXCEPT ![o].pc = pc]
Change(u, user) == pool' = [pool EXCEPT ![u] = user]
Trouble           == troubles < MaxTroubles /\ troubles' = troubles + 1

\* The end of the with block frees the lock, as the death of the process does.
Leave(o) ==
    /\ conf' = [conf EXCEPT ![o] = NoRun]
    /\ lock' = IF lock = o THEN Nobody ELSE lock

\* An exception leaves the with blocks: a client that was made is deleted first.
Raise(o) == IF conf[o].client THEN Goto(o, "delete") /\ UNCHANGED lock ELSE Leave(o)

BeginConfigure(o) ==
    /\ conf[o].pc = "idle" /\ commands < MaxCommands
    /\ commands' = commands + 1
    /\ Goto(o, "lock")
    /\ UNCHANGED <<pool, team, presenter, lock, clients, minted, troubles>>

\* A missing credential file is made with a new password.
LockAndLoad(o) ==
    /\ conf[o].pc = "lock" /\ lock = Nobody
    /\ lock' = o
    /\ \E u \in Team : conf' = [conf EXCEPT ![o] = [@ EXCEPT !.pc = "account", !.user = u,
                                                            !.todo = Team \ {u}]]
    /\ IF team = 0 THEN minted' = minted + 1 /\ team' = minted' ELSE UNCHANGED <<team, minted>>
    /\ UNCHANGED <<pool, presenter, clients, commands, troubles>>

\* ensure_user: get or create, enable, set the password, leave and join groups.
EnsureAccount(o) ==
    /\ conf[o].pc = "account"
    /\ Change(conf[o].user, [pool[conf[o].user] EXCEPT !.there = TRUE, !.enabled = TRUE])
    /\ Goto(o, "password")
    /\ UNCHANGED <<team, presenter, lock, clients, minted, commands, troubles>>

EnsurePassword(o) ==
    /\ conf[o].pc = "password"
    /\ Change(conf[o].user, [pool[conf[o].user] EXCEPT !.password = team])
    /\ Goto(o, "leave")
    /\ UNCHANGED <<team, presenter, lock, clients, minted, commands, troubles>>

WrongGroups(user) == user.group \ {"right"}

LeaveGroups(o) ==
    /\ conf[o].pc = "leave"
    /\ LET u == conf[o].user
       IN Change(u, [pool[u] EXCEPT !.group = @ \ WrongGroups(pool[u])])
    /\ Goto(o, "join")
    /\ UNCHANGED <<team, presenter, lock, clients, minted, commands, troubles>>

JoinGroup(o) ==
    /\ conf[o].pc = "join"
    /\ Change(conf[o].user, [pool[conf[o].user] EXCEPT !.group = @ \cup {"right"}])
    /\ Goto(o, IF conf[o].user = Presenter THEN "client" ELSE "alone")
    /\ UNCHANGED <<team, presenter, lock, clients, minted, commands, troubles>>

\* set_team_password_only; after the last of the team comes the presenter.
PasswordOnly(o) ==
    /\ conf[o].pc = "alone"
    /\ Change(conf[o].user, [pool[conf[o].user] EXCEPT !.mfa = FALSE])
    /\ IF conf[o].todo = {}
       THEN Goto(o, "presenter")
       ELSE \E u \in conf[o].todo :
                conf' = [conf EXCEPT ![o] = [@ EXCEPT !.pc = "account", !.user = u,
                                                      !.todo = conf[o].todo \ {u}]]
    /\ UNCHANGED <<team, presenter, lock, clients, minted, commands, troubles>>

LoadPresenter(o) ==
    /\ conf[o].pc = "presenter"
    /\ presenter' = IF presenter.there THEN presenter ELSE [NoFile EXCEPT !.there = TRUE]
    /\ conf' = [conf EXCEPT ![o] = [@ EXCEPT !.pc = "account", !.user = Presenter]]
    /\ UNCHANGED <<pool, team, lock, clients, minted, commands, troubles>>

-----------------------------------------------------------------------------
(* enroll_optional_presenter, within temporary_enrollment_client           *)

CreateClient(o) ==
    /\ conf[o].pc = "client"
    /\ clients' = clients + 1
    /\ conf' = [conf EXCEPT ![o] = [@ EXCEPT !.pc = "sign in", !.client = TRUE]]
    /\ UNCHANGED <<pool, team, presenter, lock, minted, commands, troubles>>

\* Mutant: the presenter is enrolled anew whatever Cognito asks for.
MutantMustProve(user) == FALSE
MustProve(user) == user.mfa

\* A code is made of the secret of the file and the time.
Answers(secret, factor) == secret # 0 /\ secret = factor

\* initiate_auth answers with a challenge, to be met with the factor of the file, or a token.
SignIn(o) ==
    /\ conf[o].pc = "sign in"
    /\ IF ~MustProve(pool[Presenter])
       THEN Goto(o, "associate") /\ UNCHANGED lock
       ELSE IF Answers(presenter.secret, pool[Presenter].factor)
            THEN Goto(o, "prefer") /\ UNCHANGED lock ELSE Raise(o)
    /\ UNCHANGED <<pool, team, presenter, clients, minted, commands, troubles>>

\* The new factor is saved before it is verified.
Associate(o) ==
    /\ conf[o].pc = "associate"
    /\ minted' = minted + 1
    /\ presenter' = [presenter EXCEPT !.secret = minted']
    /\ conf' = [conf EXCEPT ![o] = [@ EXCEPT !.pc = "verify", !.secret = minted']]
    /\ UNCHANGED <<pool, team, lock, clients, commands, troubles>>

Verify(o) ==
    /\ conf[o].pc = "verify"
    /\ Change(Presenter, [pool[Presenter] EXCEPT !.factor = conf[o].secret])
    /\ Goto(o, "prefer")
    /\ UNCHANGED <<team, presenter, lock, clients, minted, commands, troubles>>

PreferFactor(o) ==
    /\ conf[o].pc = "prefer"
    /\ Change(Presenter, [pool[Presenter] EXCEPT !.mfa = TRUE])
    /\ Goto(o, "complete")
    /\ UNCHANGED <<team, presenter, lock, clients, minted, commands, troubles>>

CompletePresenter(o) ==
    /\ conf[o].pc = "complete"
    /\ IF pool[Presenter].enabled /\ pool[Presenter].password # 0 /\ pool[Presenter].mfa
       THEN presenter' = [presenter EXCEPT !.complete = TRUE] ELSE UNCHANGED presenter
    /\ Goto(o, "delete")
    /\ UNCHANGED <<pool, team, lock, clients, minted, commands, troubles>>

\* The finally clause; when its call fails, the client is left.
DeleteClient(o) ==
    /\ conf[o].pc = "delete"
    /\ \/ clients' = clients - 1 /\ UNCHANGED troubles
       \/ Trouble /\ UNCHANGED clients
    /\ Leave(o)
    /\ UNCHANGED <<pool, team, presenter, minted, commands>>

-----------------------------------------------------------------------------
\* A call to Cognito fails, or SIGTERM arrives.
ConfigureFails(o) ==
    /\ conf[o].pc \notin {"idle", "delete"} /\ Trouble
    /\ Raise(o)
    /\ UNCHANGED <<pool, team, presenter, clients, minted, commands>>

ConfigureKilled(o) ==
    /\ conf[o].pc # "idle" /\ Trouble
    /\ Leave(o)
    /\ UNCHANGED <<pool, team, presenter, clients, minted, commands>>

\* The checkout is made anew, without its ignored files.
LoseFiles ==
    /\ lock = Nobody /\ <<team, presenter>> # <<0, NoFile>> /\ Trouble
    /\ team' = 0 /\ presenter' = NoFile
    /\ UNCHANGED <<pool, lock, clients, minted, conf, commands>>

ConfigureStep(o) ==
    \/ LockAndLoad(o) \/ EnsureAccount(o) \/ EnsurePassword(o) \/ LeaveGroups(o) \/ JoinGroup(o)
    \/ PasswordOnly(o) \/ LoadPresenter(o) \/ CreateClient(o) \/ SignIn(o) \/ Associate(o)
    \/ Verify(o) \/ PreferFactor(o) \/ CompletePresenter(o) \/ DeleteClient(o)

-----------------------------------------------------------------------------
IdentityTypeOK ==
    /\ pool \in [Users -> [there : BOOLEAN, enabled : BOOLEAN, password : Nat,
                           group : SUBSET {"right", "wrong"}, factor : Nat, mfa : BOOLEAN]]
    /\ team \in Nat /\ minted \in Nat /\ clients \in Nat /\ lock \in Operators \cup {Nobody}
    /\ presenter \in [there : BOOLEAN, complete : BOOLEAN, secret : Nat]
    /\ conf \in [Operators -> [pc : {"idle", "lock", "account", "password", "leave", "join",
                                     "alone", "presenter", "client", "sign in", "associate",
                                     "verify", "prefer", "complete", "delete"},
                               todo : SUBSET Team, user : Users, secret : Nat, client : BOOLEAN]]

\* Wherever a command was interrupted, a factor that Cognito asks for is the one in the file,
\* unless the file was lost: the presenter is never locked out by a factor nobody has
\* (enroll_optional_presenter saves it, verifies it, and only then makes it preferred).
FactorIsKept ==
    pool[Presenter].mfa /\ presenter.secret # 0 => presenter.secret = pool[Presenter].factor
=============================================================================
