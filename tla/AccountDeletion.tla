-------------------------- MODULE AccountDeletion --------------------------
(***************************************************************************)
(* Deletion of accounts with a grace window (db.js, opsRoutes.js): a       *)
(* request schedules it, signing back in cancels it, and a sweep that      *)
(* piggybacks on such requests purges the accounts whose window is over:   *)
(* every collection of the export list in turn, the user document last.    *)
(***************************************************************************)
EXTENDS Naturals, Sequences

CONSTANTS
    Account,     \* user documents by _id; an _id is never used again
    Login,       \* slots for sign-ins under way
    Sweep,       \* slots for purges under way
    Collections, \* how many collections hold an account's data
    GRACE,       \* DELETE_GRACE_DAYS
    NoAccount

ASSUME AccountAssumption ==
    /\ Collections \in Nat \ {0}
    /\ GRACE \in Nat \ {0}
    /\ NoAccount \notin Account

VARIABLES
    user,      \* the user documents
    data,      \* the collections that hold something of the account
    signing,   \* the document each sign-in has read
    sweep,     \* the purges under way
    window,    \* history: what is left of the window last promised, unless a sign-in
               \* begun after the request was completed since
    early,     \* history: sign-ins begun before the last request for their account
    quiet      \* deletes succeed; an account being purged is not in use

promiseVars == <<window, early>>
acctVars == <<user, data, signing, sweep, promiseVars, quiet>>

Collection == 1 .. Collections

\* graceLeft: how much of the window is left, GRACE + 1 when none is scheduled.
\* isActive, which only the directories read, is left out.
Never == GRACE + 1
UserDoc == [there : {"unborn", "yes", "gone"}, graceLeft : 0 .. Never]
Unborn == [there |-> "unborn", graceLeft |-> Never]

\* at: the collection to be emptied next, Collections + 1 for the user document.
Asleep == [doing |-> "nothing", victims |-> {}, of |-> NoAccount, at |-> 0]
SweepState == [doing : {"nothing", "looking", "purging"}, victims : SUBSET Account,
               of : Account \cup {NoAccount}, at : 0 .. Collections + 1]

There(a) == user[a].there = "yes"
Purging(a) == \E s \in Sweep : a \in sweep[s].victims \cup {sweep[s].of}

AcctInit ==
    /\ user = [a \in Account |-> Unborn]
    /\ data = [a \in Account |-> {}]
    /\ signing = [l \in Login |-> {}]
    /\ sweep = [s \in Sweep |-> Asleep]
    /\ window = [a \in Account |-> Never]
    /\ early = {}
    /\ quiet \in BOOLEAN

-----------------------------------------------------------------------------
(* Users *)

upsertRead(l, a) ==
    /\ signing[l] = {}
    /\ There(a)
    /\ quiet => ~Purging(a)
    /\ signing' = [signing EXCEPT ![l] = {[of |-> a, doc |-> user[a]]}]
    /\ UNCHANGED <<user, data, sweep, promiseVars, quiet>>

\* Mutant: signing in leaves the schedule alone.
signedInOnly(now, read) == now

\* save writes the fields the sign-in changed of the document it read: a deletion
\* requested in between stays scheduled.
signedIn(now, read) ==
    IF read.graceLeft # Never THEN [now EXCEPT !.graceLeft = Never] ELSE now

\* save of a document that is gone throws; the sign-in goes on without it.
upsertPut(l) ==
    /\ \E r \in signing[l] :
          /\ quiet => ~Purging(r.of)
          /\ IF There(r.of)
             THEN /\ user' = [user EXCEPT ![r.of] = signedIn(@, r.doc)]
                  /\ window' = IF l \in early THEN window
                               ELSE [window EXCEPT ![r.of] = Never]
             ELSE UNCHANGED <<user, window>>
    /\ signing' = [signing EXCEPT ![l] = {}]
    /\ early' = early \ {l}
    /\ UNCHANGED <<data, sweep, quiet>>

\* The first sign-in of an address without a document creates one.
create(a) ==
    /\ user[a].there = "unborn"
    /\ user' = [user EXCEPT ![a].there = "yes"]
    /\ UNCHANGED <<data, signing, sweep, promiseVars, quiet>>

\* Anything an account stores; the session names the _id, nobody asks whether its
\* document is still there (resolveUserId).
store(a, c) ==
    /\ user[a].there # "unborn"
    /\ quiet => There(a) /\ ~Purging(a)
    /\ data' = [data EXCEPT ![a] = @ \cup {c}]
    /\ UNCHANGED <<user, signing, sweep, promiseVars, quiet>>

\* DELETE /api/account; the sweep starts and is not awaited.
softDelete(a, s) ==
    /\ user[a].there # "unborn"
    /\ sweep[s] = Asleep
    /\ quiet => ~Purging(a)
    /\ IF There(a)
       THEN /\ user' = [user EXCEPT ![a].graceLeft = GRACE]
            /\ window' = [window EXCEPT ![a] = GRACE]
            /\ early' = early \cup {l \in Login : \E r \in signing[l] : r.of = a}
       ELSE UNCHANGED <<user, promiseVars>>
    /\ sweep' = [sweep EXCEPT ![s].doing = "looking"]
    /\ UNCHANGED <<data, signing, quiet>>

-----------------------------------------------------------------------------
(* purgeExpiredDeletions *)

expired(a) == There(a) /\ user[a].graceLeft = 0

\* At most `limit' of the expired accounts, in no order the caller chooses.
findVictims(s) ==
    /\ sweep[s].doing = "looking"
    /\ \E victims \in SUBSET {a \in Account : expired(a)} :
          /\ (victims = {}) => \A a \in Account : ~expired(a)
          /\ quiet => \A l \in Login : \A r \in signing[l] : r.of \notin victims
          /\ sweep' = [sweep EXCEPT ![s] =
                         IF victims = {} THEN Asleep
                         ELSE [doing |-> "purging", victims |-> victims,
                               of |-> NoAccount, at |-> 0]]
    /\ UNCHANGED <<user, data, signing, promiseVars, quiet>>

nextVictim(s) ==
    /\ sweep[s].of = NoAccount
    /\ \E a \in sweep[s].victims :
          sweep' = [sweep EXCEPT ![s].of = a, ![s].victims = @ \ {a}, ![s].at = 1]
    /\ UNCHANGED <<user, data, signing, promiseVars, quiet>>

\* One collection; a delete that fails is logged and the cascade goes on.
purgeCollection(s, fails) ==
    /\ sweep[s].of # NoAccount
    /\ sweep[s].at \in Collection
    /\ quiet => ~fails
    /\ data' = IF fails THEN data ELSE [data EXCEPT ![sweep[s].of] = @ \ {sweep[s].at}]
    /\ sweep' = [sweep EXCEPT ![s].at = @ + 1]
    /\ UNCHANGED <<user, signing, promiseVars, quiet>>

\* Mutant: the user document goes before the last collection, and nobody looks for
\* an account without one.
cascadedEarly(at) == at = Collections

\* The user document goes last.
cascaded(at) == at = Collections + 1

purgeUser(s) ==
    /\ sweep[s].of # NoAccount
    /\ cascaded(sweep[s].at)
    /\ user' = [user EXCEPT ![sweep[s].of].there = IF @ = "yes" THEN "gone" ELSE @]
    /\ sweep' = [sweep EXCEPT ![s] =
                   IF @.victims = {} THEN Asleep
                   ELSE [doing |-> "purging", victims |-> @.victims,
                         of |-> NoAccount, at |-> 0]]
    /\ UNCHANGED <<data, signing, promiseVars, quiet>>

\* The process dies, or the user document cannot be deleted: the sweep is over.
abandon(s) ==
    /\ sweep[s] # Asleep
    /\ sweep' = [sweep EXCEPT ![s] = Asleep]
    /\ UNCHANGED <<user, data, signing, promiseVars, quiet>>

DayLess(doc) ==
    IF doc.there = "yes" /\ doc.graceLeft \in 1 .. GRACE
    THEN [doc EXCEPT !.graceLeft = @ - 1] ELSE doc

\* A day passes.
Day ==
    /\ user' = [a \in Account |-> DayLess(user[a])]
    /\ signing' = [l \in Login |-> {[r EXCEPT !.doc = DayLess(@)] : r \in signing[l]}]
    /\ window' = [a \in Account |-> IF There(a) /\ window[a] \in 1 .. GRACE
                                    THEN window[a] - 1 ELSE window[a]]
    /\ <<user, window>>' # <<user, window>>
    /\ UNCHANGED <<data, sweep, early, quiet>>

SweepStep(s) ==
    \/ findVictims(s) \/ nextVictim(s)
    \/ \E fails \in BOOLEAN : purgeCollection(s, fails)
    \/ purgeUser(s) \/ abandon(s)

AcctNext ==
    \/ \E l \in Login : (\E a \in Account : upsertRead(l, a)) \/ upsertPut(l)
    \/ \E a \in Account :
          \/ create(a)
          \/ \E c \in Collection : store(a, c)
          \/ \E s \in Sweep : softDelete(a, s)
    \/ \E s \in Sweep : SweepStep(s)
    \/ Day

AcctSpec == AcctInit /\ [][AcctNext]_acctVars

-----------------------------------------------------------------------------
(* Properties *)

AcctTypeOK ==
    /\ user \in [Account -> UserDoc]
    /\ data \in [Account -> SUBSET Collection]
    /\ signing \in [Login -> SUBSET [of : Account, doc : UserDoc]]
    /\ sweep \in [Sweep -> SweepState]
    /\ window \in [Account -> 0 .. Never]
    /\ early \subseteq Login
    /\ quiet \in BOOLEAN

\* "Signing back in before then cancels it" (softDeleteAccount): no sweep picks an
\* account unless the window last promised it ran out and no sign-in begun after the
\* request was completed since.  Nobody asks again before the deletes, so what a
\* sign-in or a new request does to an account already picked is lost: only while
\* accounts being purged are not in use is that still so when the document goes.
OnlyLapsedPurged ==
    [][\A a \in Account :
          /\ (\E s \in Sweep : a \in sweep'[s].victims \ sweep[s].victims) => window[a] = 0
          /\ quiet /\ There(a) /\ user'[a].there = "gone" => window[a] = 0]_acctVars

\* "All server-side data will be permanently removed" (softDeleteAccount): once the
\* user document is gone nothing of the account is left, wherever earlier sweeps of
\* it were cut off -- while deletes succeed and nobody writes to it meanwhile.
PurgeIsComplete ==
    quiet => \A a \in Account : user[a].there = "gone" => data[a] = {}
=============================================================================
