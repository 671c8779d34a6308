------------------------------ MODULE SessionKeys ------------------------------
(* The keys that sign session cookies (lib/auto_rotated_keys.ts). One leading server *)
(* makes a new key when the newest has lived half of a key's life, and keeps two;    *)
(* the other servers read them from the file. A session is signed by the newest key  *)
(* of the server that opens or uses it, and any key of the server verifies it. Keys  *)
(* are named by the time they were made at.                                          *)
EXTENDS Integers, FiniteSets

CONSTANTS
    CookieMaxAge, OneDay, TenDays,
    Shortly,        \* the 100 ms added to a half-life and to the time of the next check
    LaterOn,        \* the 5 s after which the other servers check
    NoTimer, MaxTime, MaxStops
ASSUME TimesAssumption == /\ CookieMaxAge \in Nat \ {0} /\ Shortly \in Nat /\ LaterOn \in Nat /\ Shortly < LaterOn
                          /\ OneDay \in Nat \ {0} /\ TenDays \in Nat /\ OneDay <= TenDays
                          /\ NoTimer \notin Nat

VARIABLES
    time,
    keys,           \* [leading, following -> the keys in memory]
    keysFile,       \* the keys in the file
    unsaved,        \* TRUE while a new key is in memory and not yet in the file
    keyTimers,         \* [leading, following -> time of the next check or NoTimer]
    leadingIsUp,
    sessions,       \* set of [timestamp, key, maxAge expected]: at most one, any one
    stops

kvars == <<time, keys, keysFile, unsaved, keyTimers, leadingIsUp, sessions, stops>>

Newest(ks) == CHOOSE k \in ks : \A j \in ks : j <= k
Min2(a, b) == IF a < b THEN a ELSE b

\* A mutant: one key at a time.
CleanupToOne(ks) == {Newest(ks)}

\* cleanupKeysInMemory, and what saveKeysToDisk writes.
Cleanup(ks) == {k \in ks : Cardinality({j \in ks : j > k}) < 2}

TimeUntilEndOfNewestKeyHalfLife(ks) == Newest(ks) + CookieMaxAge - time + Shortly

\* The leading server starts with the first key.
SessionKeysInit ==
    /\ time = 0
    /\ keys = [leading |-> {0}, following |-> {0}]
    /\ keysFile = {0}
    /\ unsaved = FALSE
    /\ keyTimers = [leading |-> Min2(OneDay, CookieMaxAge + Shortly), following |-> Min2(OneDay, CookieMaxAge + Shortly + LaterOn)]
    /\ leadingIsUp = TRUE
    /\ sessions = {}
    /\ stops = 0

-----------------------------------------------------------------------------

\* checkState on the leading server: a new key is used before it is saved.
CheckState ==
    /\ leadingIsUp /\ keyTimers.leading = time
    /\ IF TimeUntilEndOfNewestKeyHalfLife(keys.leading) < 0
       THEN /\ keys' = [keys EXCEPT !.leading = Cleanup(@ \cup {time})]
            /\ unsaved' = TRUE
            /\ keyTimers' = [keyTimers EXCEPT !.leading = NoTimer]
       ELSE /\ keyTimers' = [keyTimers EXCEPT !.leading = time + Min2(TenDays, TimeUntilEndOfNewestKeyHalfLife(keys.leading) + Shortly)]
            /\ UNCHANGED <<keys, unsaved>>
    /\ UNCHANGED <<time, keysFile, leadingIsUp, sessions, stops>>

SaveKeysToDisk ==
    /\ leadingIsUp /\ unsaved
    /\ keysFile' = keys.leading
    /\ unsaved' = FALSE
    /\ keyTimers' = [keyTimers EXCEPT !.leading = time + Min2(OneDay, CookieMaxAge + Shortly)]
    /\ UNCHANGED <<time, keys, leadingIsUp, sessions, stops>>

\* checkState on another server: when the file has no newer key in time, the check
\* throws, and no other one is planned.
UpdateKeysFromFile ==
    LET updated == Cleanup(keys.following \cup keysFile)
        left == TimeUntilEndOfNewestKeyHalfLife(updated)
    IN /\ keyTimers.following = time
       /\ keys' = [keys EXCEPT !.following = updated]
       /\ keyTimers' = [keyTimers EXCEPT !.following = IF left < 0 THEN NoTimer ELSE time + Min2(OneDay, left + LaterOn)]
       /\ UNCHANGED <<time, keysFile, unsaved, leadingIsUp, sessions, stops>>

\* A key that was not saved is lost with the process, and the sessions it signed.
StopLeadingServer ==
    /\ leadingIsUp /\ stops < MaxStops
    /\ stops' = stops + 1
    /\ leadingIsUp' = FALSE
    /\ sessions' = {s \in sessions : s.key \in keysFile \/ ~unsaved}
    /\ unsaved' = FALSE
    /\ keyTimers' = [keyTimers EXCEPT !.leading = NoTimer]
    /\ UNCHANGED <<time, keys, keysFile>>

\* recoverKeysFromFile, then the first check.
StartLeadingServer ==
    /\ ~leadingIsUp
    /\ leadingIsUp' = TRUE
    /\ keys' = [keys EXCEPT !.leading = keysFile]
    /\ keyTimers' = [keyTimers EXCEPT !.leading = time]
    /\ UNCHANGED <<time, keysFile, unsaved, sessions, stops>>

\* A session is opened, or used by its user: its cookie is signed by the newest key.
SignedBy(server, timestamp) ==
    [timestamp |-> timestamp, key |-> Newest(keys[server]),
     maxAge |-> IF server = "leading" THEN CookieMaxAge
                ELSE IF keyTimers.following # NoTimer THEN CookieMaxAge - LaterOn ELSE -1]

CanSign(server) == server = "leading" => leadingIsUp

OpenSession(server) ==
    /\ sessions = {} /\ CanSign(server)
    /\ sessions' = {SignedBy(server, time)}
    /\ UNCHANGED <<time, keys, keysFile, unsaved, keyTimers, leadingIsUp, stops>>

UseSession(server, s) ==
    /\ CanSign(server) /\ s.key \in keys[server] /\ s.key # Newest(keys[server])
    /\ sessions' = {SignedBy(server, s.timestamp)}
    /\ UNCHANGED <<time, keys, keysFile, unsaved, keyTimers, leadingIsUp, stops>>

\* Timers fire in time.
PassTime ==
    /\ time < MaxTime
    /\ keyTimers.leading # time /\ keyTimers.following # time /\ ~unsaved
    /\ time' = time + 1
    /\ UNCHANGED <<keys, keysFile, unsaved, keyTimers, leadingIsUp, sessions, stops>>

SessionKeysNext ==
    \/ CheckState \/ SaveKeysToDisk \/ UpdateKeysFromFile
    \/ StopLeadingServer \/ StartLeadingServer \/ PassTime
    \/ \E server \in {"leading", "following"} : OpenSession(server) \/ \E s \in sessions : UseSession(server, s)

SessionKeysSpec == SessionKeysInit /\ [][SessionKeysNext]_kvars

-----------------------------------------------------------------------------

\* auto_rotated_keys.ts:21: a session started at the end of the life of a key lives for
\* cookieMaxAge: the leading server still has the key that signed it, however keys were
\* rotated and servers restarted. A session that the other server signed with a key it
\* had not yet seen replaced may end up to LaterOn earlier; of a server that stopped
\* checking, nothing is said.
SessionsLiveCookieMaxAge ==
    \A s \in sessions : leadingIsUp /\ time <= s.timestamp + s.maxAge => s.key \in keys.leading
=============================================================================
