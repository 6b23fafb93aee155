------------------------------- MODULE ApiKeys -------------------------------
(***************************************************************************)
(* Client API keys: the gate in front of the routes for clients, with its  *)
(* rate limit in the memory of one server; the staff routes that make and  *)
(* revoke keys; and the seed that runs at each deployment, brings the      *)
(* roles in line with those of another service on the same database and    *)
(* moves keys off old roles while requests come in.  Time is in ticks.     *)
(* The secret of a key is left out: requests come with a right one, except *)
(* that a key which is not there is refused.                               *)
(***************************************************************************)
EXTENDS Naturals, Sequences, FiniteSets

CONSTANTS
    Keys,    \* lookup segments of keys
    EnvKeys, \* those the environment gives the seed
    Limit,   \* clientApiRateLimitPerMinute
    Window,  \* 60 s
    Ttl,     \* TRIAL_KEY_TTL_MS
    MaxMade  \* bound: keys staff ever make

ASSUME KeyAssumption ==
    EnvKeys \subseteq Keys /\ {Limit, Window, Ttl} \subseteq Nat \ {0} /\ MaxMade \in Nat

VARIABLES
    keys,   \* ClientApiKey
    grants, \* the permissions of each ClientApiRole there is
    bucket, \* rateBuckets: count, and the age of the window
    seed,   \* seedClientApi: its next step
    staff,  \* a request that makes a key
    made,   \* keys staff have made
    hits,   \* history: by key, the requests let through in the last window's length, each as its
            \* age and a number
    late    \* history: keys made in a role that is being removed

kvars == <<keys, grants, bucket, seed, staff, made, hits, late>>

\* api.companies.search, list and read are granted together; export is of the other service.
Companies == "api.companies"
Archive == "api.internal.queue_archive"
Export == "export"

\* Roles of old, and what they become.
Legacy == [all_access |-> "all-access", company_data |-> "partner"]
Canonical == {"all-access", "partner", "partner-trial", "integration"}
Trial == "partner-trial"

Absent == [role |-> "none"]
Made(k) == keys[k].role # "none"
Never == Ttl + 1

KeyTypesOK ==
    /\ DOMAIN grants \subseteq Canonical \cup DOMAIN Legacy
    /\ \A k \in Keys : Made(k) => /\ keys[k].role \in DOMAIN grants /\ keys[k].left \in 0..Never
                                  /\ keys[k].scope \in {"all", "sweden"} /\ keys[k].revoked \in BOOLEAN
    /\ \A k \in DOMAIN bucket : bucket[k].count \in 1..Limit

-----------------------------------------------------------------------------
(***************************************************************************)
(* The gate.                                                               *)
(***************************************************************************)

\* What enforceClientApiKey asks of the key, in its order: there and not revoked, not expired,
\* of a known scope (every scope here is), and its role has the permission.
Accepts(k, p) ==
    /\ Made(k) /\ ~keys[k].revoked
    /\ keys[k].left > 0
    /\ p \in grants[keys[k].role]

WindowOver(age) == age > Window

\* Mutant: one request too many.
Mutant_Allows(k) == (k \in DOMAIN bucket /\ ~WindowOver(bucket[k].age)) => bucket[k].count <= Limit

\* allowClientApiRate: a window begins with the first request after the last has ended, and
\* lets Limit requests through.
Allows(k) == (k \in DOMAIN bucket /\ ~WindowOver(bucket[k].age)) => bucket[k].count < Limit
Counted(k) ==
    LET fresh == k \in DOMAIN bucket => WindowOver(bucket[k].age)
        row == IF fresh THEN [count |-> 1, age |-> 0] ELSE [bucket[k] EXCEPT !.count = @ + 1]
    IN [j \in DOMAIN bucket \cup {k} |-> IF j = k THEN row ELSE bucket[j]]

\* The key is read in one query, and nothing is awaited after it.  A request that is refused, or
\* needs no permission, leaves nothing behind.
Request(k, p) ==
    /\ Accepts(k, p) /\ Allows(k)
    /\ bucket' = Counted(k)
    /\ hits' = [hits EXCEPT ![k] = @ \cup {<<0, Cardinality({h \in @ : h[1] = 0})>>}]
    /\ UNCHANGED <<keys, grants, seed, staff, made, late>>

\* Mutant: what is older than half a window goes.
Mutant_Stale(age) == 2 * age > Window

\* 120 s.
Stale(age) == age > 2 * Window

\* The timer's turn, each minute.
Prune ==
    /\ \E k \in DOMAIN bucket : Stale(bucket[k].age)
    /\ bucket' = [k \in {j \in DOMAIN bucket : ~Stale(bucket[j].age)} |-> bucket[k]]
    /\ UNCHANGED <<keys, grants, seed, staff, made, hits, late>>

\* Ages are told apart up to where a window is stale.
Tick ==
    /\ bucket' = [k \in DOMAIN bucket |->
                    [bucket[k] EXCEPT !.age = IF @ > 2 * Window THEN @ ELSE @ + 1]]
    /\ keys' = [k \in Keys |-> IF Made(k) /\ keys[k].left \in 1..Ttl
                               THEN [keys[k] EXCEPT !.left = @ - 1] ELSE keys[k]]
    /\ hits' = [k \in Keys |-> {<<h[1] + 1, h[2]>> : h \in {g \in hits[k] : g[1] < Window}}]
    /\ UNCHANGED <<grants, seed, staff, made, late>>

\* A server starts with no buckets; the limit is one of a process.
Restart ==
    /\ bucket' = <<>> /\ hits' = [k \in Keys |-> {}]
    /\ UNCHANGED <<keys, grants, seed, staff, made, late>>

-----------------------------------------------------------------------------
(***************************************************************************)
(* Staff.                                                                  *)
(***************************************************************************)

\* POST /: the role is there, and is the trial role exactly if a trial is asked for; the lookup
\* is free (one that staff choose, or a random one).
CheckKey ==
    /\ staff = Absent /\ made < MaxMade
    /\ \E k \in Keys, r \in DOMAIN grants :
        /\ ~Made(k)
        /\ staff' = [role |-> r, lookup |-> k, trial |-> r = Trial]
    /\ UNCHANGED <<keys, grants, bucket, seed, made, hits, late>>

\* A trial key expires, and sees Sweden only.
NewKey(role, trial) ==
    [role |-> role, left |-> IF trial THEN Ttl ELSE Never,
     scope |-> IF trial THEN "sweden" ELSE "all", revoked |-> FALSE]

\* The unique index on the lookup and the foreign key to the role may still refuse it.
CreateKey ==
    /\ staff # Absent
    /\ IF ~Made(staff.lookup) /\ staff.role \in DOMAIN grants
       THEN /\ keys' = [keys EXCEPT ![staff.lookup] = NewKey(staff.role, staff.trial)]
            /\ late' = IF staff.role \in DOMAIN Legacy THEN late \cup {staff.lookup} ELSE late
            /\ made' = made + 1
       ELSE UNCHANGED <<keys, late, made>>
    /\ staff' = Absent
    /\ UNCHANGED <<grants, bucket, seed, hits>>

\* POST /:id/revoke: refused when it is revoked.
Revoke(k) ==
    /\ Made(k) /\ ~keys[k].revoked
    /\ keys' = [keys EXCEPT ![k].revoked = TRUE]
    /\ UNCHANGED <<grants, bucket, seed, staff, made, hits, late>>

-----------------------------------------------------------------------------
(***************************************************************************)
(* The seed.                                                               *)
(***************************************************************************)

\* migrateLegacyClientApiRoles, for one role.
Migration(r) == <<<<"move", r>>, <<"strip", r>>, <<"drop", r>>>>

SeedSteps ==
    <<<<"roles">>, <<"grants">>, <<"trim">>, <<"trial">>>>
    \o Migration("all_access") \o Migration("company_data") \o <<<<"env">>>>

Step == SeedSteps[seed]
Does(name) == seed # 0 /\ Step[1] = name
Advance == seed' = IF seed = Len(SeedSteps) THEN 0 ELSE seed + 1
Fixed == UNCHANGED <<bucket, staff, made, hits, late>>

StartSeed == seed = 0 /\ seed' = 1 /\ UNCHANGED <<keys, grants>> /\ Fixed

Granted(r, P) == IF r \in DOMAIN grants THEN grants[r] \cup P ELSE P

\* The canonical roles are made where they are missing.
EnsureRoles ==
    /\ Does("roles") /\ Advance
    /\ grants' = [r \in DOMAIN grants \cup Canonical |-> Granted(r, {})]
    /\ UNCHANGED keys /\ Fixed

\* grantPermissionsAdditive, for the three roles the other service grants permissions to as well.
GrantAdditive ==
    /\ Does("grants") /\ Advance
    /\ grants' = [grants EXCEPT !["all-access"] = @ \cup {Companies, Archive},
                                !["integration"] = @ \cup {Archive},
                                !["partner"] = @ \cup {Companies}]
    /\ UNCHANGED keys /\ Fixed

\* setExactPermissions of the trial role: others go, and then its own come.
TrimTrial ==
    /\ Does("trim") /\ Advance
    /\ grants' = [grants EXCEPT ![Trial] = @ \cap {Companies}]
    /\ UNCHANGED keys /\ Fixed
GrantTrial ==
    /\ Does("trial") /\ Advance
    /\ grants' = [grants EXCEPT ![Trial] = @ \cup {Companies}]
    /\ UNCHANGED keys /\ Fixed

\* An old role that is gone has been dealt with.
SkipRole ==
    /\ Does("move") /\ Step[2] \notin DOMAIN grants /\ seed' = seed + 3
    /\ UNCHANGED <<keys, grants>> /\ Fixed
MoveKeys ==
    /\ Does("move") /\ Step[2] \in DOMAIN grants /\ Advance
    /\ keys' = [k \in Keys |-> IF keys[k].role = Step[2] THEN [keys[k] EXCEPT !.role = Legacy[Step[2]]]
                               ELSE keys[k]]
    /\ UNCHANGED grants /\ Fixed
StripRole ==
    /\ Does("strip") /\ Advance
    /\ grants' = [r \in DOMAIN grants |-> IF r = Step[2] THEN {} ELSE grants[r]]
    /\ UNCHANGED keys /\ Fixed
\* The delete of a role that has a key again fails, and the seed with it.
DropRole ==
    /\ Does("drop")
    /\ IF \E k \in Keys : keys[k].role = Step[2]
       THEN seed' = 0 /\ UNCHANGED grants
       ELSE Advance /\ grants' = [r \in DOMAIN grants \ {Step[2]} |-> grants[r]]
    /\ UNCHANGED keys /\ Fixed

\* upsertKeyFromEnv: a key that is there gets the role and is no longer revoked; its expiry and
\* scope stay.
UpsertEnvKeys ==
    /\ Does("env") /\ Advance
    /\ \E r \in [EnvKeys -> {"integration", "all-access"}] :
        keys' = [k \in Keys |->
            IF k \notin EnvKeys THEN keys[k]
            ELSE IF Made(k) THEN [keys[k] EXCEPT !.role = r[k], !.revoked = FALSE]
            ELSE NewKey(r[k], FALSE)]
    /\ UNCHANGED grants /\ Fixed

\* The deployment is stopped.
StopSeed == seed # 0 /\ seed' = 0 /\ UNCHANGED <<keys, grants>> /\ Fixed

-----------------------------------------------------------------------------

\* The database as an earlier version left it: keys of the old roles, and maybe roles the other
\* service has made.
KeyInit ==
    /\ \E there \in SUBSET {"partner", Trial} :
        grants = [r \in DOMAIN Legacy \cup there |->
                    IF r = "all_access" THEN {Companies, Archive, Export}
                    ELSE IF r = "company_data" THEN {Companies} ELSE {Companies, Export}]
    /\ keys \in [Keys -> {Absent} \cup {NewKey(r, FALSE) : r \in DOMAIN Legacy}]
    /\ bucket = <<>> /\ seed = 0 /\ staff = Absent /\ made = 0 /\ late = {}
    /\ hits = [k \in Keys |-> {}]

KeyNext ==
    \/ \E k \in Keys : Revoke(k) \/ \E p \in {Companies, Archive} : Request(k, p)
    \/ Prune \/ Tick \/ Restart
    \/ CheckKey \/ CreateKey
    \/ StartSeed \/ EnsureRoles \/ GrantAdditive \/ TrimTrial \/ GrantTrial
    \/ SkipRole \/ MoveKeys \/ StripRole \/ DropRole \/ UpsertEnvKeys \/ StopSeed

KeySpec == KeyInit /\ [][KeyNext]_kvars

-----------------------------------------------------------------------------
(***************************************************************************)
(* Properties.                                                             *)
(***************************************************************************)

\* However requests fall on the ends of windows and on the pruner's turns, no stretch of a
\* window's length sees more than two quotas go through one process.
TwoQuotas == \A k \in Keys : Cardinality(hits[k]) <= 2 * Limit

\* The seed takes no permission on Garbo's routes from a key: moved or not, stopped or not, what
\* the gate let through before a step it lets through after, except for keys made in an old role
\* while the seed is at it, and keys the environment gives another role.
SeedKeepsAccess ==
    [][seed # 0 /\ UNCHANGED bucket /\ (seed' # seed) =>
        \A k \in Keys \ (late \cup EnvKeys), p \in {Companies, Archive} :
            (Accepts(k, p) /\ keys[k].role # Trial) =>
                /\ ~keys'[k].revoked /\ p \in grants'[keys'[k].role]]_kvars

\* A key of the trial role expires and sees Sweden only, whichever way it came to the role.
TrialIsLimited ==
    \A k \in Keys : keys[k].role = Trial => keys[k].left <= Ttl /\ keys[k].scope = "sweden"

\* A client gets no more than two quotas in a window's length, a trial key is limited however it
\* came about, and a seed takes no access away.
KeysAreLimited == [](TwoQuotas /\ TrialIsLimited) /\ SeedKeepsAccess
=============================================================================
